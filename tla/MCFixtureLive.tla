--------------------------- MODULE MCFixtureLive ---------------------------
(***************************************************************************)
(* The default set with two slots and arrangements of a few beats.         *)
(***************************************************************************)
EXTENDS FixtureLive

TwoSlots == 0..1
OutOfRange == {-1, 2}
ThreeBeats == 0..2
AnyLengths == {-1, 2}
Notes == {<<[at |-> 0, length |-> 2]>>, <<[at |-> 1, length |-> 1]>>}
SendsOnly == [name \in {"sends only"} |-> "sends_only"]
=============================================================================
