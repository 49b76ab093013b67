------------------------------ MODULE SetView ------------------------------
(***************************************************************************)
(* What the session promises its tools: a view of the set that may lag     *)
(* behind Live, but never behind what a call was told.  There are no       *)
(* messages, snapshots or connections here: a view is opened for a call,   *)
(* moves on, is lost, and is opened again.                                 *)
(***************************************************************************)
EXTENDS Naturals

CONSTANTS
  Slices,
  NotRead    \* what a view that is not open shows of a slice

VARIABLES
  live,      \* the version of each slice in Live
  view,      \* the version of each slice that a tool would read
  call,      \* the call that is being served: its kind and its slice
  answer,    \* what the last call was answered: its kind, and whether it succeeded
  asked,     \* the set when the present call was made
  acked      \* of each slice, the newest version that a successful write has made

viewVars == <<live, view, call, answer, asked, acked>>

Nothing == [s \in Slices |-> NotRead]
NoCall == [kind |-> "none", slice |-> NotRead]
Opened == view # Nothing

Init ==
  /\ live = [s \in Slices |-> 0] /\ view = Nothing
  /\ call = NoCall /\ answer = [kind |-> "none", ok |-> FALSE]
  /\ asked = live /\ acked = live

\* The user, another client or a mutation changes the set.
Change(s) ==
  /\ live' = [live EXCEPT ![s] = @ + 1]
  /\ UNCHANGED <<view, call, answer, asked, acked>>

Ask(kind, slice) ==
  /\ call = NoCall
  /\ call' = [kind |-> kind, slice |-> slice]
  /\ asked' = live
  /\ UNCHANGED <<live, view, answer, acked>>

\* A version of a slice that may be shown to the present call: Live's, now or at
\* some time since the call was made, and not older than what a write was told.
Current(s, v) == v \in Nat /\ asked[s] <= v /\ acked[s] <= v /\ v <= live[s]
CurrentView(v) == v \in [Slices -> Nat] /\ \A s \in Slices : Current(s, v[s])

Answer(ok) ==
  /\ call # NoCall
  /\ call' = NoCall
  /\ answer' = [kind |-> call.kind, ok |-> ok]

\* A connection is made for a call, and the set read.
Open ==
  /\ call # NoCall /\ ~Opened
  /\ CurrentView(view')
  /\ UNCHANGED <<live, call, answer, asked, acked>>

\* Live tells of a change: the view of that slice goes forward.
Told(s) ==
  /\ Opened
  /\ view' = [view EXCEPT ![s] = view'[s]]
  /\ view'[s] \in Nat /\ view[s] < view'[s] /\ view'[s] <= live[s]
  /\ UNCHANGED <<live, call, answer, asked, acked>>

\* The connection is lost between two calls.
Lose ==
  /\ call = NoCall
  /\ view' = Nothing
  /\ UNCHANGED <<live, call, answer, asked, acked>>

\* A call fails, and the view stays what it was or is lost.
Throw ==
  /\ Answer(FALSE)
  /\ view' \in {view, Nothing}
  /\ UNCHANGED <<live, asked, acked>>

Read ==
  /\ call.kind = "read" /\ Opened
  /\ Answer(TRUE)
  /\ UNCHANGED <<live, view, asked, acked>>

\* A refresh shows the set as it was when the call was made, or later.
Refresh ==
  /\ call.kind = "refresh" /\ Opened
  /\ Answer(TRUE)
  /\ CurrentView(view')
  /\ UNCHANGED <<live, asked, acked>>

\* A write made a version of its slice, and shows that or a later one.
Write ==
  /\ call.kind = "write" /\ Opened
  /\ Answer(TRUE)
  /\ CurrentView(view')
  /\ acked' = [acked EXCEPT ![call.slice] = acked'[call.slice]]
  /\ Current(call.slice, acked'[call.slice]) /\ acked'[call.slice] <= view'[call.slice]
  /\ UNCHANGED <<live, asked>>

\* The selection is read for the call.
Look ==
  /\ call.kind = "context" /\ Opened
  /\ Answer(TRUE)
  /\ view' = [view EXCEPT ![call.slice] = view'[call.slice]]
  /\ Current(call.slice, view'[call.slice])
  /\ UNCHANGED <<live, asked, acked>>

Next ==
  \/ \E s \in Slices : Change(s) \/ Told(s)
  \/ \E kind \in {"read", "write", "refresh", "context"}, s \in Slices \cup {NotRead} : Ask(kind, s)
  \/ Open \/ Lose \/ Throw \/ Read \/ Refresh \/ Write \/ Look

Spec == Init /\ [][Next]_viewVars
=============================================================================
