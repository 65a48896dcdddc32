----------------------------- MODULE AllowList -----------------------------
(***************************************************************************)
(* What UpdateAllowList of pkg/linode/client.go promises its callers,      *)
(* without cache, retries or requests: a call treats the databases of its  *)
(* pool one after the other; it either changes one entry of a database's   *)
(* list in one step or leaves the list alone and reports a failure, and    *)
(* it treats every database however the others fare.                       *)
(***************************************************************************)
EXTENDS Naturals, Sequences

CONSTANTS Callers, Calls, DBs, DatabasesOf, InitialLists,
          Host(_)     \* the entry that stands for an address

VARIABLES allow,      \* allow[d]: the normalised entries of database d
          job         \* job[c]: the call c is in, how far it is and whether it failed

vars == <<allow, job>>

NoJob == [call |-> [op |-> "none"], pos |-> 1, failed |-> FALSE]

Busy(c) == job[c].call \in Calls
Pool(c) == DatabasesOf[job[c].call.pool]
Pending(c) == Busy(c) /\ job[c].pos <= Len(Pool(c))

Init ==
    /\ allow \in InitialLists
    /\ job = [c \in Callers |-> NoJob]

Begin(c, k) ==
    /\ ~Busy(c)
    /\ job' = [job EXCEPT ![c] = [call |-> k, pos |-> 1,
                                  failed |-> DatabasesOf[k.pool] = <<>>]]
    /\ UNCHANGED allow

Changed(k, L) == IF k.op = "add" THEN L \cup {Host(k.ip)} ELSE L \ {Host(k.ip)}

Apply(c) ==
    /\ Pending(c)
    /\ allow' = [allow EXCEPT ![Pool(c)[job[c].pos]] = Changed(job[c].call, @)]
    /\ job' = [job EXCEPT ![c].pos = @ + 1]

Skip(c) ==
    /\ Pending(c)
    /\ job' = [job EXCEPT ![c] = [call |-> @.call, pos |-> @.pos + 1, failed |-> TRUE]]
    /\ UNCHANGED allow

End(c) ==
    /\ Busy(c) /\ ~Pending(c)
    /\ job' = [job EXCEPT ![c] = NoJob]
    /\ UNCHANGED allow

\* The process of the callers in C ends.
Abandon(C) ==
    /\ job' = [c \in Callers |-> IF c \in C THEN NoJob ELSE job[c]]
    /\ UNCHANGED allow

Advance(c) == Apply(c) \/ Skip(c) \/ End(c)

Next ==
    \/ \E c \in Callers : Advance(c) \/ \E k \in Calls : Begin(c, k)
    \/ \E C \in SUBSET Callers : Abandon(C)

Spec == Init /\ [][Next]_vars /\ \A c \in Callers : WF_vars(Advance(c))
=============================================================================
