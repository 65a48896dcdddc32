--------------------------- MODULE MCWatchMonitor ---------------------------
(* A small instance of WatchMonitor. *)
EXTENDS WatchMonitor, TLC

CONSTANTS n1, p1, p2

PoolSymmetry == Permutations(Pools)
=============================================================================
