------------------------------- MODULE MCStore -------------------------------
(* Two documents over two writers, two ports of one host over two SSH      *)
(* threads, and hosts and tabs documents with a value that an older        *)
(* version wrote and normalized() rewrites, and one secret of the program  *)
(* and one of a host.                                                      *)
EXTENDS Store, TLC

CONSTANTS t1, t2, w1, w2, k1, k2

ThreeValues == {"default", "edited", "old"}

ThreeNorm == [v \in ThreeValues |-> IF v = "old" THEN "edited" ELSE v]

(* aside and kept are written by Documents and read by none of its actions *)
(* and none of the properties checked here.                                *)
StoreView ==
  <<part, callVars, trustVars, value, dirty, docFile, docJob, phase, todo, again,
    saved, failed, shellVars, vaultVars>>

(* The SSH threads are alike, and so are the keys a server may show.       *)
StoreSymmetry == Permutations({t1, t2}) \cup Permutations({k1, k2})
=============================================================================
