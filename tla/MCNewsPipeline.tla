--------------------------- MODULE MCNewsPipeline ---------------------------
(* NewsPipeline for TLC.                                                     *)
EXTENDS NewsPipeline

MCWriters == {"index"} \X Intervals \X (0..(MaxAttempts - 1))

Symmetric == Permutations(Intervals)
=============================================================================
