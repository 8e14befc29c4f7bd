------------------------- MODULE MCIdentitySessions -------------------------
(* IdentitySessions for TLC: requests of one kind are interchangeable.      *)
EXTENDS IdentitySessions, TLC

Symmetric ==
  Permutations(Signups) \cup Permutations(Logins) \cup Permutations(Grants)
=============================================================================
