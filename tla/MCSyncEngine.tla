---------------------------- MODULE MCSyncEngine ----------------------------
(* Callers are interchangeable; workers are not (they are started in turn, *)
(* and `cancel' is the last one's), but any of them may be the next.       *)
EXTENDS SyncEngine, TLC

EngineSymmetry ==
    Permutations(Callers) \union Permutations(Workers) \union Permutations(Sources)
=============================================================================
