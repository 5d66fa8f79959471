----------------------------- MODULE MCSessionTab -----------------------------
(* Small instances of SessionTab: two threads may exist at once, so that a *)
(* dropped one overlaps the one that replaced it.                          *)
EXTENDS SessionTab, TLC

CONSTANTS s1, s2, k1, k2

SlotSymmetry == Permutations({s1, s2})
=============================================================================
