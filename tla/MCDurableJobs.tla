--------------------------- MODULE MCDurableJobs ----------------------------
(* Small instances of DurableJobs for TLC. *)
EXTENDS DurableJobs, TLC

CONSTANTS k1, w1, w2

MCTriggers == {[type |-> "news_collection", root |-> k1, attempt |-> 0]}

MCTriggersAll == MCTriggers \cup {[type |-> "other", root |-> k1, attempt |-> 0]}

MCSymmetry == Permutations(Workers) \cup Permutations(Cancellers)
=============================================================================
