--------------------------- MODULE MCNodeWatcher ---------------------------
(* Small instances of NodeWatcher. *)
EXTENDS NodeWatcher, TLC

CONSTANTS n1, n2, a1, a2, b1, d1, d2, p1, p2

\* Two pools with a database in common.
MCDatabasesOf == (p1 :> <<d1>>) @@ (p2 :> <<d1, d2>>)

\* The node may also have an address of the IP version that is not enabled.
MCAddresses == n1 :> {{a1}, {a1, b1}}
MCOneNode == n1 :> {{a1}}

\* An address the node's registration does not have yet.
MCLateAddress == n1 :> {{}, {a1}}

MCLists == {[d \in DBs |-> {}]}
=============================================================================
