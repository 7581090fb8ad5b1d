-------------------------------- MODULE Lists --------------------------------
(***************************************************************************)
(* What the code does to a list in place: keeping some of its elements, in  *)
(* order, as Vec::retain does and a loop that appends under a condition.    *)
(***************************************************************************)
EXTENDS Integers, Sequences

\* The elements of s at the positions in I.
Retained(s, I) ==
  LET kept[n \in 0..Len(s)] ==
        IF n = 0 THEN <<>>
        ELSE IF n \in I THEN Append(kept[n - 1], s[n]) ELSE kept[n - 1]
  IN kept[Len(s)]
=============================================================================
