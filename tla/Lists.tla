-------------------------------- MODULE Lists --------------------------------
(***************************************************************************)
(* What several components do with lists, in a form that can be reasoned   *)
(* about: the library's SelectSeq and folds have no definition the provers *)
(* can use.                                                                *)
(***************************************************************************)
EXTENDS Naturals, Sequences

(* The entries of s at these places, in their order.                       *)
Kept(s, places) ==
  LET kept[n \in 0..Len(s)] ==
        IF n = 0 THEN <<>>
        ELSE IF n \in places THEN Append(kept[n - 1], s[n]) ELSE kept[n - 1]
  IN  kept[Len(s)]

(* The sum of a list of numbers.                                           *)
Total(s) ==
  LET total[n \in 0..Len(s)] == IF n = 0 THEN 0 ELSE total[n - 1] + s[n]
  IN  total[Len(s)]
===============================================================================
