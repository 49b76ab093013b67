----------------------------- MODULE MCTaskQueue -----------------------------
(***************************************************************************)
(* The instances of TaskQueue that TLC checks: two clients, what the       *)
(* scheduler may do, and how many mutations each client sends.  A client   *)
(* needs two for a late answer to meet its next request.                   *)
(***************************************************************************)
EXTENDS TaskQueue

CONSTANTS w1, w2

DeferOnly == {"defer"}
DeferOrInline == {"defer", "inline"}

TwoWorkers == {w1, w2}
TwoEach == [w \in TwoWorkers |-> 2]
TwoAndOne == [w \in TwoWorkers |-> IF w = w1 THEN 2 ELSE 1]
=============================================================================
