---------------------------- MODULE MCAccountApi ----------------------------
(* AccountApi for TLC: holdings beyond the page limit, and ones that change  *)
(* their order between two pages, so that a stock is read twice.             *)
EXTENDS AccountApi, TLC

CONSTANTS a, b

MCBook == << <<{a}, {b}, {a}>>, <<{a}, {b}>>, <<{b}, {a}>> >>

MCBodies ==
  [profile |-> {"bold"}, connection |-> {"kis", "paper"},
   subscription |-> {"on", "off"}]

Symmetric == Permutations(Requests) \cup Permutations(Keys) \cup Permutations(Readers)
=============================================================================
