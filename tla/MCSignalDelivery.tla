-------------------------- MODULE MCSignalDelivery --------------------------
(* SignalDelivery for TLC.                                                   *)
EXTENDS SignalDelivery, TLC

Symmetric ==
  Permutations(Records) \cup Permutations(Slots) \cup Permutations(Sockets)
=============================================================================
