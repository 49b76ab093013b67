--------------------------- MODULE NameResolution ---------------------------
(***************************************************************************)
(* How the tools find the object a caller names: lookup by aliases, exact  *)
(* before partial, and never a guess between several.  A name is a         *)
(* sequence of words; case and the characters of a word are abstracted.    *)
(* default-tools.js and optional-adapters.js hold the same functions.      *)
(***************************************************************************)
EXTENDS Integers, Sequences, FiniteSets

CONSTANT Letters     \* the words of one letter: "A" of the return "A-Reverb"

\* A name's prefixes of one letter are dropped one by one, never all of it.
Droppable(name, k) == k < Len(name) /\ \A i \in 1..k : name[i] \in Letters

Aliases(name) ==
  {SubSeq(name, k + 1, Len(name)) : k \in {j \in 0..Len(name) : Droppable(name, j)}}

Includes(alias, part) ==
  \E i \in 1..Len(alias) :
    i + Len(part) - 1 <= Len(alias) /\ SubSeq(alias, i, i + Len(part) - 1) = part

\* The candidates a name stands for.  nameOf gives the name of each candidate.
ExactMatches(candidates, nameOf, requested) ==
  {c \in candidates : requested \in Aliases(nameOf[c])}

PartialMatches(candidates, nameOf, requested) ==
  {c \in candidates : \E alias \in Aliases(nameOf[c]) : Includes(alias, requested)}

Matches(candidates, nameOf, requested) ==
  LET exact == ExactMatches(candidates, nameOf, requested)
  IN IF exact # {} THEN exact ELSE PartialMatches(candidates, nameOf, requested)

\* Mutant of PickCode: the first of several matches is taken.
PickFirstCode(candidates, nameOf, requested) ==
  LET found == Matches(candidates, nameOf, requested)
  IN IF requested = <<>> THEN "internal_error"
     ELSE IF found = {} THEN "not_found" ELSE "found"

\* What pickUniqueMatch does: the object, or the code of the error it throws.
\* A blank name gives null, on which every caller fails.
PickCode(candidates, nameOf, requested) ==
  LET found == Matches(candidates, nameOf, requested)
  IN IF requested = <<>> THEN "internal_error"
     ELSE IF found = {} THEN "not_found"
     ELSE IF \E c, d \in found : c # d THEN "ambiguous_target"
     ELSE "found"

Picked(candidates, nameOf, requested) ==
  CHOOSE c \in Matches(candidates, nameOf, requested) : TRUE
=============================================================================
