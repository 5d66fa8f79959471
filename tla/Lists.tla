--------------------------------- MODULE Lists ---------------------------------
(***************************************************************************)
(* Lists as the documents, the panes and the Telnet filter use them: what  *)
(* Vec::retain keeps of one, what is in it, and a loop over it.  SelectSeq *)
(* and the folds of the community modules take an operator, about which    *)
(* nothing can be proved for every list; Only takes the set of what stays, *)
(* and Along the function that is applied.                                 *)
(***************************************************************************)
EXTENDS Naturals, Sequences

Elements(s) == {s[i] : i \in DOMAIN s}

(* The elements of s that are in S, in their order.                        *)
Only(s, S) ==
  LET kept[n \in 0..Len(s)] ==
        IF n = 0 THEN << >>
        ELSE IF s[n] \in S THEN Append(kept[n - 1], s[n]) ELSE kept[n - 1]
  IN  kept[Len(s)]

(* What becomes of a when step meets the elements of s, one after another. *)
Along(step, a, s) ==
  LET after[n \in 0..Len(s)] == IF n = 0 THEN a ELSE step[<<after[n - 1], s[n]>>]
  IN  after[Len(s)]

(* No element stands at two places.                                        *)
Distinct(s) == \A i, j \in DOMAIN s : s[i] = s[j] => i = j
=============================================================================
