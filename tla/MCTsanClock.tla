----------------------------- MODULE MCTsanClock ----------------------------
(* Instances of TsanClock for TLC: nothing tells sync objects apart.        *)
EXTENDS TsanClock, TLC

SyncSymmetry == Permutations(Syncs)
AllOps == {"Release", "StoreRelease", "ReleaseStoreAcquire", "AcquireRelease", "Reset"}

MCBounds ==
  { \* Everything, with the reuse of an index.
    [ops |-> AllOps, acquirers |-> {0, 2}, globals |-> {}, ticks |-> 3, each |-> 2, reuse |-> 1],
    [ops |-> AllOps, acquirers |-> {0}, globals |-> {}, ticks |-> 4, each |-> 2, reuse |-> 0],
    \* A global acquire that meets a thread that ended; and one that sees a later
    \* time of the third thread, but not the earlier one of the second.
    [ops |-> AllOps, acquirers |-> Tids, globals |-> {0}, ticks |-> 2, each |-> 2, reuse |-> 1],
    [ops |-> {"Release", "StoreRelease"}, acquirers |-> {2}, globals |-> {0}, ticks |-> 4, each |-> 2, reuse |-> 0],
    \* Each thread releases twice to an object: there are more than the dirty slots.
    [ops |-> {"Release"}, acquirers |-> {0}, globals |-> {}, ticks |-> 6, each |-> 2, reuse |-> 0] }
=============================================================================
