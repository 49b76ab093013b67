--------------------------- MODULE MutationService ---------------------------
(***************************************************************************)
(* What the Remote Script promises for one mutation ("set" or "call")      *)
(* request, with the threads, the queue and the scheduler forgotten: the   *)
(* mutation is applied to the Live set at most once, and an answer that    *)
(* comes from the handler is given after the handler ran.  A "timeout"     *)
(* answer says nothing: the mutation may be applied before it, after it or *)
(* never.                                                                  *)
(***************************************************************************)
EXTENDS Sequences, Functions

CONSTANT Task          \* the mutation requests

VARIABLES accepted,    \* the requests the bridge has taken
          applied,     \* those whose handler has run, in that order
          answer       \* what the client was told

vars == <<accepted, applied, answer>>

Init ==
  /\ accepted = {}
  /\ applied = <<>>
  /\ answer = [t \in Task |-> "none"]

Done == Range(applied)

Accept(t) ==
  /\ t \notin accepted
  /\ accepted' = accepted \cup {t}
  /\ UNCHANGED <<applied, answer>>

Apply(t) ==
  /\ t \in accepted \ Done
  /\ applied' = Append(applied, t)
  /\ UNCHANGED <<accepted, answer>>

Answer(t) ==
  /\ t \in accepted
  /\ answer[t] = "none"
  /\ \E a \in {"ok", "error", "timeout"} :
        /\ a # "timeout" => t \in Done
        /\ answer' = [answer EXCEPT ![t] = a]
  /\ UNCHANGED <<accepted, applied>>

Next == \E t \in Task : Accept(t) \/ Apply(t) \/ Answer(t)

Spec == Init /\ [][Next]_vars
=============================================================================
