------------------------- MODULE MCAllowListClient -------------------------
(* Small instances of AllowListClient. *)
EXTENDS AllowListClient, TLC

CONSTANTS a1, a2, n1, d1, d2, p1, p2, p3, r1, r2

Raw(a) == [addr |-> a, cidr |-> FALSE]
Full(a) == [addr |-> a, cidr |-> TRUE]

\* The client of a process that read this file in this environment: p1 and p2
\* share a database, p3 is not configured, and a second p1 counts for nothing.
Setup == INSTANCE Configuration

Database(d) == [id |-> d, name |-> d]
MCFile ==
    [path |-> "read",
     settings |-> [nodepools |->
                       << [name |-> p1, databases |-> <<Database(d1), Database(d2)>>],
                          [name |-> p2, databases |-> <<Database(d2)>>],
                          [name |-> p1, databases |-> <<Database(d2)>>] >>,
                   maxAttempts |-> 3, initialBackoff |-> 2, maxBackoff |-> 5]]
MCEnvironment == [token |-> "secret", apiRateLimit |-> 0]

ASSUME MCLoads == ~Setup!Load(MCFile, MCEnvironment).err

MCConfig == Setup!Load(MCFile, MCEnvironment).config
MCDatabasesOf == [p \in Pools |-> Setup!getDatabasesForNodepool(MCConfig, p)]
MCMaxAttempts == MCConfig.maxAttempts
MCInitialBackoff == MCConfig.initialBackoff
MCMaxBackoff == MCConfig.maxBackoff
MCOneDatabaseOf == p1 :> <<d1>>

\* Lists with a foreign network, a raw address, an address in both forms.
MCLists == [DBs -> {{}, {Full(n1)}, {Raw(a1)}, {Raw(a1), Full(a1), Full(n1)}}]
MCTwoLists == {(d1 :> {Full(n1)}) @@ (d2 :> {})}

MCNetEdits == {Full(n1)}

MCNoEdits == {}
MCEmptyLists == [DBs -> {{}}]
=============================================================================
