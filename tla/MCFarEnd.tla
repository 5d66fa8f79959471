------------------------------ MODULE MCFarEnd ------------------------------
(* Three tabs for one session: one in it, and two that find it as the      *)
(* first left it.  Three hosts to jump through: two for a chain, and a     *)
(* third that makes it too long.                                           *)
EXTENDS FarEnd, TLC

CONSTANTS r1, r2, r3, h1, h2, h3

TabSymmetry == Permutations({r1, r2, r3})
=============================================================================
