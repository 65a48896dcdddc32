------------------------ MODULE ConfigurationProofs ------------------------
(***************************************************************************)
(* What a process that got past config.Load can rely on, for every file    *)
(* and environment: the assumptions of AllowListClient hold of its         *)
(* configuration, and there was a file.                                    *)
(***************************************************************************)
EXTENDS Configuration, WellFoundedInduction, TLAPS

(* What a file and an environment can hold, for any names and databases.      *)
Numbers == {"apiRateLimit", "maxAttempts", "initialBackoff", "maxBackoff"}
Switches == {"enableIPv4", "enableIPv6"}
Variables == {"token", "apiRateLimit", "logLevel", "nodepoolLabelKey"} \cup Switches

Database(Names, DBs) == [id: DBs, name: Names]
Nodepool(Names, DBs) == [name: Names, databases: Seq(Database(Names, DBs))]

WellTyped(settings, Names, DBs) ==
    \A k \in DOMAIN settings :
       /\ k \in Numbers => settings[k] \in Int
       /\ k \in Switches => settings[k] \in BOOLEAN
       /\ k = "nodepools" => settings[k] \in Seq(Nodepool(Names, DBs))

\* An overlay keeps the settings typed.
LEMMA OverlayTyped ==
    ASSUME NEW Names, NEW DBs, NEW c, NEW s,
           WellTyped(c, Names, DBs), WellTyped(s, Names, DBs)
    PROVE  /\ WellTyped(Overlay(c, s), Names, DBs)
           /\ DOMAIN Overlay(c, s) = DOMAIN c
  BY Zenon DEF WellTyped, Overlay

\* The candidate has every setting, typed.
LEMMA CandidateTyped ==
    ASSUME NEW Names, NEW DBs, NEW file, NEW env,
           DOMAIN env \subseteq Variables, WellTyped(env, Names, DBs),
           file.path = "read" => WellTyped(file.settings, Names, DBs)
    PROVE  /\ WellTyped(Candidate(file, env), Names, DBs)
           /\ DOMAIN Candidate(file, env) = DOMAIN DefaultConfig
  <1>1. WellTyped(DefaultConfig, Names, DBs)
    <2>1. \A k \in Numbers : DefaultConfig[k] \in Int
      BY DEF DefaultConfig, Numbers
    <2>2. \A k \in Switches : DefaultConfig[k] \in BOOLEAN
      <3>1. DefaultConfig.enableIPv4 = TRUE /\ DefaultConfig.enableIPv6 = FALSE
        BY DEF DefaultConfig
      <3> QED BY <3>1, Zenon DEF Switches
    <2>3. DefaultConfig["nodepools"] \in Seq(Nodepool(Names, DBs))
      BY DEF DefaultConfig
    <2> QED BY <2>1, <2>2, <2>3, Zenon DEF WellTyped
  <1>2. WellTyped(FromEnvironment(env), Names, DBs)
    BY Zenon DEF WellTyped, FromEnvironment
  <1>3. CASE file.path = "read"
    <2> DEFINE given == [k \in DOMAIN file.settings \ {"token"} |-> file.settings[k]]
    <2>1. WellTyped(given, Names, DBs)
      BY <1>3, Zenon DEF WellTyped
    <2>2. /\ WellTyped(LoadFromFile(file.settings), Names, DBs)
          /\ DOMAIN LoadFromFile(file.settings) = DOMAIN DefaultConfig
      BY <2>1, <1>1, OverlayTyped DEF LoadFromFile
    <2>3. Candidate(file, env) = Overlay(LoadFromFile(file.settings), FromEnvironment(env))
      BY <1>3, Zenon DEF Candidate
    <2> QED BY <2>2, <2>3, <1>2, OverlayTyped
  <1>4. CASE file.path # "read"
    <2>1. Candidate(file, env) = Overlay(DefaultConfig, FromEnvironment(env))
      BY <1>4, Zenon DEF Candidate
    <2> QED BY <2>1, <1>1, <1>2, OverlayTyped
  <1> QED BY <1>3, <1>4, Zenon

\* A name that some nodepool has, a first nodepool has.
LEMMA FirstNamedExists ==
    ASSUME NEW Names, NEW DBs, NEW c, NEW name,
           c.nodepools \in Seq(Nodepool(Names, DBs)),
           \E i \in DOMAIN c.nodepools : c.nodepools[i].name = name
    PROVE  \E i \in DOMAIN c.nodepools : IsFirstNamed(c, i, name)
  <1> DEFINE S == {i \in DOMAIN c.nodepools : c.nodepools[i].name = name}
  <1>1. S \in SUBSET Nat /\ S # {} BY DEF Nodepool
  <1> DEFINE R == OpToRel(<, Nat)
  <1>2. \A m, n \in Nat : m < n => <<m, n>> \in R BY DEF OpToRel
  <1>3. IsWellFoundedOn(R, Nat) BY NatLessThanWellFounded
  <1> HIDE DEF R, S
  <1>4. \E n \in S : \A m \in S : ~(<<m, n>> \in R) BY <1>1, <1>3, WFMin
  <1>5. \A m, n \in S : ~(<<m, n>> \in R) => n <= m
    <2> TAKE m, n \in S
    <2>1. m \in Nat /\ n \in Nat BY <1>1
    <2> QED BY <2>1, <1>2
  <1>6. \E n \in S : \A m \in S : n <= m BY <1>4, <1>5, Zenon
  <1> USE DEF S
  <1> QED BY <1>6, Zenon DEF IsFirstNamed

\* The configuration Load returns is what the client and the watcher assume:
\* there is an attempt to make, the delays are no negative numbers and the first
\* fits under the cap unless there is none, an IP version is enabled, the limiter
\* has a rate, and exactly the configured names have databases, one at least.
\* (ConfigAssumption of AllowListClient.)
THEOREM LoadedSuitsTheClient ==
    ASSUME NEW Names, NEW DBs, NEW file, NEW env,
           DOMAIN env \subseteq Variables, WellTyped(env, Names, DBs),
           file.path = "read" => WellTyped(file.settings, Names, DBs),
           ~Load(file, env).err
    PROVE  LET config == Load(file, env).config IN
           /\ config.maxAttempts \in Nat \ {0}
           /\ config.initialBackoff \in Nat /\ config.maxBackoff \in Nat
           /\ config.initialBackoff <= config.maxBackoff \/ config.maxBackoff = 0
           /\ config.apiRateLimit \in Nat \ {0}
           /\ config.enableIPv4 \/ config.enableIPv6
           /\ \A name : /\ getDatabasesForNodepool(config, name) \in Seq(DBs)
                        /\ getDatabasesForNodepool(config, name) # <<>> <=>
                             \E i \in DOMAIN config.nodepools :
                                config.nodepools[i].name = name
  <1> DEFINE config == Candidate(file, env)
  <1>1. Load(file, env).config = config /\ Validate(config)
    BY DEF Load
  <1>2. /\ WellTyped(config, Names, DBs)
        /\ DOMAIN config = DOMAIN DefaultConfig
    BY CandidateTyped, Zenon
  <1>3. DOMAIN DefaultConfig =
          {"nodepools", "token", "logLevel", "nodepoolLabelKey"} \cup Numbers \cup Switches
    BY DEF DefaultConfig, Numbers, Switches
  <1> HIDE DEF config
  <1>4. config.nodepools \in Seq(Nodepool(Names, DBs))
    BY <1>2, <1>3 DEF WellTyped
  <1>5. /\ config.maxAttempts \in Int /\ config.initialBackoff \in Int
        /\ config.maxBackoff \in Int /\ config.apiRateLimit \in Int
    BY <1>2, <1>3 DEF WellTyped, Numbers
  <1>6. ASSUME NEW name
        PROVE  /\ getDatabasesForNodepool(config, name) \in Seq(DBs)
               /\ getDatabasesForNodepool(config, name) # <<>> <=>
                    \E i \in DOMAIN config.nodepools : config.nodepools[i].name = name
    <2>1. CASE \E i \in DOMAIN config.nodepools : config.nodepools[i].name = name
      <3> DEFINE first == CHOOSE i \in DOMAIN config.nodepools : IsFirstNamed(config, i, name)
      <3>1. first \in DOMAIN config.nodepools
        BY <2>1, <1>4, FirstNamedExists, Zenon
      <3> DEFINE dbs == config.nodepools[first].databases
      <3>2. getDatabasesForNodepool(config, name) = [j \in DOMAIN dbs |-> dbs[j].id]
        BY <2>1, Zenon DEF getDatabasesForNodepool
      <3> HIDE DEF first
      <3>3. dbs # <<>>
        BY <3>1, <1>1, Zenon DEF Validate
      <3>4. dbs \in Seq(Database(Names, DBs))
        <4>1. config.nodepools[first] \in Nodepool(Names, DBs) BY <3>1, <1>4
        <4> QED BY <4>1 DEF Nodepool
      <3> HIDE DEF dbs
      <3>5. /\ [j \in DOMAIN dbs |-> dbs[j].id] \in Seq(DBs)
            /\ [j \in DOMAIN dbs |-> dbs[j].id] # <<>>
        <4>1. \A j \in 1 .. Len(dbs) : dbs[j].id \in DBs
          <5>1. \A j \in 1 .. Len(dbs) : dbs[j] \in Database(Names, DBs)
            BY <3>4
          <5>2. \A db \in Database(Names, DBs) : db.id \in DBs
            BY DEF Database
          <5> QED BY <5>1, <5>2, Zenon
        <4>2. Len(dbs) \in Nat /\ Len(dbs) # 0 /\ DOMAIN dbs = 1 .. Len(dbs)
          BY <3>3, <3>4
        <4> DEFINE ids == [j \in 1 .. Len(dbs) |-> dbs[j].id]
        <4>3. ids \in Seq(DBs) /\ Len(ids) = Len(dbs)
          BY <4>1, <4>2
        <4>4. ids = [j \in DOMAIN dbs |-> dbs[j].id]
          BY <4>2
        <4> HIDE DEF ids
        <4>5. ids # <<>>
          BY <4>2, <4>3
        <4> QED BY <4>3, <4>4, <4>5, Zenon
      <3> QED BY <2>1, <3>2, <3>5, Zenon
    <2>2. CASE ~ \E i \in DOMAIN config.nodepools : config.nodepools[i].name = name
      <3>1. getDatabasesForNodepool(config, name) = <<>>
        BY <2>2, Zenon DEF getDatabasesForNodepool
      <3> QED BY <2>2, <3>1
    <2> QED BY <2>1, <2>2, Zenon
  <1>7. /\ config.maxAttempts \in Nat \ {0} /\ config.apiRateLimit \in Nat \ {0}
        /\ config.initialBackoff \in Nat /\ config.maxBackoff \in Nat
    BY <1>1, <1>5 DEF Validate
  <1>8. /\ config.initialBackoff <= config.maxBackoff \/ config.maxBackoff = 0
        /\ config.enableIPv4 \/ config.enableIPv6
    BY <1>1, Zenon DEF Validate
  <1> QED BY <1>1, <1>6, <1>7, <1>8, Zenon

\* Nodepools come from a file only: without one no environment lets the process
\* start, although README.md:51 says that the configuration can be provided via
\* environment variables or a file.
THEOREM EnvironmentIsNotEnough ==
    ASSUME NEW file, NEW env, DOMAIN env \subseteq Variables, file.path # "read"
    PROVE  Load(file, env).err
  <1>1. Candidate(file, env) = Overlay(DefaultConfig, FromEnvironment(env))
    BY Zenon DEF Candidate
  <1>2. "nodepools" \in DOMAIN DefaultConfig /\ DefaultConfig.nodepools = <<>>
    BY DEF DefaultConfig
  <1>3. "nodepools" \notin DOMAIN FromEnvironment(env)
    <2>1. "nodepools" \notin Variables BY DEF Variables, Switches
    <2> QED BY <2>1, Zenon DEF FromEnvironment
  <1>4. Candidate(file, env).nodepools = <<>>
    BY <1>1, <1>2, <1>3, Zenon DEF Overlay
  <1>5. ~Validate(Candidate(file, env))
    BY <1>4, Zenon DEF Validate
  <1> QED BY <1>5 DEF Load
=============================================================================
