------------------------------- MODULE Filters -------------------------------
(***************************************************************************)
(* Array.filter, as a recursive function.                                  *)
(***************************************************************************)
EXTENDS Integers, Sequences

\* The elements of s that are in P, in their order.
Filter(s, P) ==
  LET kept[n \in 0..Len(s)] ==
        IF n = 0 THEN <<>>
        ELSE IF s[n] \in P THEN Append(kept[n - 1], s[n]) ELSE kept[n - 1]
  IN kept[Len(s)]
=============================================================================
