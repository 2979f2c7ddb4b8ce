---------------------------- MODULE MCScheduler ----------------------------
(* Instances of Scheduler small enough for TLC. *)
EXTENDS Scheduler

\* 1 -> 2 -> 3
ChainSources == (1 :> {} @@ 2 :> {1} @@ 3 :> {2})

\* 1 -> 2
PairSources == (1 :> {} @@ 2 :> {1})

LeafOnly == {{}}
LeafOrFirst == {{}, {1}}

AllOps == {"edit", "save", "remove", "invalid", "switch", "cancel", "stop",
           "fail", "limit", "evict", "share", "disk"}
=============================================================================
