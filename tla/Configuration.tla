--------------------------- MODULE Configuration ---------------------------
(***************************************************************************)
(* pkg/config/config.go: the configuration a process starts with.  A file  *)
(* is laid over the defaults, the environment over the file, and the       *)
(* result is validated.  The other modules' constants are parts of a       *)
(* validated configuration.                                                *)
(*                                                                         *)
(* A file is a record whose path says what becomes of it: "none" (no path  *)
(* given, or no file there), "broken" (it cannot be read or parsed) or     *)
(* "read", with the settings it makes.  The environment holds the          *)
(* variables that are set and not empty, as they read after parsing: a     *)
(* rate limit that is no number reads as 0, a level is in lower case, and  *)
(* a switch is TRUE for "true" in any case and FALSE for any other text.   *)
(***************************************************************************)
EXTENDS Integers, Sequences

Empty == ""

\* Durations are in seconds.
DefaultConfig ==
    [nodepools |-> <<>>, apiRateLimit |-> 100, token |-> Empty,
     logLevel |-> "info", nodepoolLabelKey |-> "lke.linode.com/pool-id",
     enableIPv4 |-> TRUE, enableIPv6 |-> FALSE,
     maxAttempts |-> 5, initialBackoff |-> 1, maxBackoff |-> 30]

\* config with the values that settings makes, and its own for the rest.
Overlay(config, settings) ==
    [k \in DOMAIN config |-> IF k \in DOMAIN settings THEN settings[k] ELSE config[k]]

\* The token has no place in a file.
LoadFromFile(settings) ==
    Overlay(DefaultConfig, [k \in DOMAIN settings \ {"token"} |-> settings[k]])

\* A rate limit that is not positive is ignored, not refused.
FromEnvironment(env) ==
    [k \in {v \in DOMAIN env : v = "apiRateLimit" => env[v] > 0} |-> env[k]]

LogLevels == {"debug", "info", "warn", "error"}

Validate(config) ==
    /\ config.token # Empty
    /\ config.nodepools # <<>>
    /\ config.logLevel \in LogLevels
    /\ config.nodepoolLabelKey # Empty
    /\ config.enableIPv4 \/ config.enableIPv6
    /\ \A i \in DOMAIN config.nodepools :
          LET np == config.nodepools[i] IN
          /\ np.name # Empty
          /\ np.databases # <<>>
          /\ \A j \in DOMAIN np.databases :
                np.databases[j].id # Empty /\ np.databases[j].name # Empty
    /\ config.apiRateLimit > 0
    /\ config.maxAttempts > 0
    /\ config.initialBackoff >= 0
    /\ config.maxBackoff >= 0
    /\ config.initialBackoff <= config.maxBackoff \/ config.maxBackoff = 0

\* What Load validates; the environment has the last word.
Candidate(file, env) ==
    Overlay(IF file.path = "read" THEN LoadFromFile(file.settings) ELSE DefaultConfig,
            FromEnvironment(env))

\* The process ends when there is an error.
Load(file, env) ==
    IF file.path # "broken" /\ Validate(Candidate(file, env))
    THEN [err |-> FALSE, config |-> Candidate(file, env)]
    ELSE [err |-> TRUE]

\* The first nodepool of that name counts; nothing refuses a second one.
IsFirstNamed(config, i, name) ==
    /\ i \in DOMAIN config.nodepools
    /\ config.nodepools[i].name = name
    /\ \A j \in DOMAIN config.nodepools : config.nodepools[j].name = name => i <= j

\* A database counts by its id; its name is for the logs and the metrics.
getDatabasesForNodepool(config, name) ==
    IF \E i \in DOMAIN config.nodepools : config.nodepools[i].name = name
    THEN LET dbs == config.nodepools[CHOOSE i \in DOMAIN config.nodepools :
                                         IsFirstNamed(config, i, name)].databases
         IN [j \in DOMAIN dbs |-> dbs[j].id]
    ELSE <<>>
=============================================================================
