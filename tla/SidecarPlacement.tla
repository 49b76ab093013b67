-------------------------- MODULE SidecarPlacement --------------------------
(***************************************************************************)
(* ensureOnTrack: the sidecar device is put on a track unless it is there. *)
(* The browser is searched for it and Live told to load it; failing that,  *)
(* the interface is automated, by keystrokes that go to whatever           *)
(* application is in front and load onto whatever track is selected.  Live *)
(* loads in its own time, so the mirror is read again and again until the  *)
(* device shows.  Meanwhile the user works on, and may take a sidecar off  *)
(* a track or put one on it, as the setup instructions say: nothing tells  *)
(* of either.                                                              *)
(***************************************************************************)
EXTENDS Integers, Sequences, Functions, Filters

CONSTANTS
  Tracks,
  Visible,    \* the tracks that listTracks lists
  Roots,      \* the browser's roots, in Live's order
  Score,      \* its place among the preferred roots, 4 if it is not one of them
  Browsers,   \* browsers: [items |-> what is in each path, folders, sidecars]
  MaxDepth,   \* findBrowserItem's depth, 5 in the code
  Attempts,   \* confirmSidecarActiveOnTrack's reads, 8 in the code
  MaxCalls,   \* calls of the tool
  MaxMoves    \* what the user does

ASSUME PlacementAssumption ==
  Visible \subseteq Tracks /\ Attempts \in Nat \ {0} /\ MaxDepth \in Nat

\* The roots and the folders that are listed can be asked for (to fail, perhaps).
ASSUME BrowserAssumption ==
  /\ Roots \in Seq(Range(Roots)) /\ Score \in [Range(Roots) -> 0..4]
  /\ \A b \in Browsers :
       /\ Range(Roots) \subseteq DOMAIN b.items
       /\ \A p \in DOMAIN b.items : /\ b.items[p] \in Seq(Range(b.items[p]))
                                   /\ Range(b.items[p]) \cap b.folders \subseteq DOMAIN b.items

VARIABLES
  placed,      \* the sidecars on each track in Live
  pending,     \* those that Live is loading
  mirror,      \* the sidecars on each track in the mirror
  unseen,      \* tracks where the user put one since the status last showed them
  selected,    \* the track selected in Live
  front,       \* "Live", or "other": the application that gets the keys
  setup,       \* [installed, helper]: the device's file, and the helper app
  browser,
  pc, call,    \* where the call is; its track, and whether it is a preview
  native,      \* the browser has a sidecar
  active,      \* status.configured, as first read
  queue, seen, \* the search
  step,        \* the workflow's step, and whether every key so far went to Live
  attempt,
  reply,
  doubt,       \* tracks where a load of ours was never confirmed, or before it came
  calls, moves

liveVars == <<placed, pending, selected, front>>
mirrorVars == <<mirror, unseen>>
searchVars == <<native, queue, seen>>
fixed == <<setup, browser>>
bounds == <<calls, moves>>
vars == <<liveVars, mirrorVars, fixed, pc, call, searchVars, active, step, attempt, reply, doubt, bounds>>

Nowhere == [t \in Tracks |-> 0]

Init ==
  /\ placed = Nowhere /\ pending = Nowhere /\ mirror = Nowhere /\ unseen = {}
  /\ selected \in Tracks /\ front = "Live"
  /\ setup \in [installed : BOOLEAN, helper : BOOLEAN]
  /\ browser \in Browsers
  /\ pc = "idle" /\ call = [track |-> selected, dry |-> FALSE]
  /\ native = FALSE /\ active = FALSE /\ queue = <<>> /\ seen = {}
  /\ step = [at |-> 1, hit |-> TRUE] /\ attempt = 0
  /\ reply = "none" /\ doubt = {}
  /\ calls = 0 /\ moves = 0

\* A load was asked for, and the call has not shown that it came.
Dispatched == pc \in {"refresh", "confirm"}

Goto(label) == pc' = label /\ UNCHANGED <<reply, doubt>>
End(answer) ==
  /\ pc' = "idle" /\ reply' = answer
  /\ doubt' = IF Dispatched /\ (answer # "loaded" \/ pending[call.track] > 0)
              THEN doubt \cup {call.track} ELSE doubt

-----------------------------------------------------------------------------
(* The status: what the mirror shows of the visible tracks, new if the link  *)
(* had to be made again.                                                     *)
activeInstances == {t \in Visible : mirror'[t] > 0}
ReadMirror == mirror' = placed /\ unseen' = unseen \ Visible
GetStatus == ReadMirror \/ UNCHANGED mirrorVars

\* A stable sort by a score of five values.
Scored(k) == Filter(Roots, {r \in Range(Roots) : Score[r] = k})
prioritizeBrowserRoots == Scored(0) \o Scored(1) \o Scored(2) \o Scored(3) \o Scored(4)

StartQueue == [i \in DOMAIN prioritizeBrowserRoots |-> [path |-> prioritizeBrowserRoots[i], depth |-> 0]]

\* Mutant of EnsureOnTrack: nothing asks whether the track has an instance.
EnsureAgain(t, dry) ==
  /\ pc = "idle" /\ calls < MaxCalls
  /\ calls' = calls + 1
  /\ call' = [track |-> t, dry |-> dry]
  /\ GetStatus
  /\ active' = (setup.installed \/ activeInstances # {})
  /\ Goto(IF dry THEN "configured" ELSE "search")
  /\ queue' = StartQueue
  /\ seen' = {} /\ native' = FALSE /\ step' = [at |-> 1, hit |-> TRUE] /\ attempt' = 0
  /\ UNCHANGED <<liveVars, fixed, moves>>

EnsureOnTrack(t, dry) ==
  /\ pc = "idle" /\ calls < MaxCalls
  /\ calls' = calls + 1
  /\ call' = [track |-> t, dry |-> dry]
  /\ GetStatus
  /\ active' = (setup.installed \/ activeInstances # {})
  /\ \/ t \in activeInstances /\ End("already_active")
     \/ t \notin activeInstances /\ Goto(IF dry THEN "configured" ELSE "search")
     \/ End("internal_error")
  /\ queue' = StartQueue
  /\ seen' = {} /\ native' = FALSE /\ step' = [at |-> 1, hit |-> TRUE] /\ attempt' = 0
  /\ UNCHANGED <<liveVars, fixed, moves>>

-----------------------------------------------------------------------------
(* findBrowserItem: breadth first; a path is opened once.                    *)
Within(path) == browser.items[path]
Matching(path) == path \in browser.sidecars \/ Range(Within(path)) \cap browser.sidecars # {}

\* Mutant of FoldersIn: one level less is searched.
FoldersAbove(current) ==
  IF current.depth + 1 >= MaxDepth THEN <<>>
  ELSE LET folders == Filter(Within(current.path), browser.folders)
       IN [i \in DOMAIN folders |-> [path |-> folders[i], depth |-> current.depth + 1]]

\* Mutant of FoldersIn: one level more is searched.
FoldersBelow(current) ==
  IF current.depth > MaxDepth THEN <<>>
  ELSE LET folders == Filter(Within(current.path), browser.folders)
       IN [i \in DOMAIN folders |-> [path |-> folders[i], depth |-> current.depth + 1]]

FoldersIn(current) ==
  IF current.depth >= MaxDepth THEN <<>>
  ELSE LET folders == Filter(Within(current.path), browser.folders)
       IN [i \in DOMAIN folders |-> [path |-> folders[i], depth |-> current.depth + 1]]

Enqueue(rest, current) == rest \o FoldersIn(current)

SearchBrowser ==
  /\ pc = "search" /\ queue # <<>>
  /\ LET current == Head(queue) IN
     IF current.path \in seen
     THEN queue' = Tail(queue) /\ Goto("search") /\ UNCHANGED <<seen, native>>
     ELSE /\ seen' = seen \cup {current.path}
          /\ \/ End("internal_error") /\ UNCHANGED <<queue, native>>
             \/ /\ Matching(current.path)
                /\ native' = TRUE /\ Goto("configured") /\ UNCHANGED queue
             \/ /\ ~Matching(current.path)
                /\ queue' = Enqueue(Tail(queue), current)
                /\ Goto("search") /\ UNCHANGED native
  /\ UNCHANGED <<liveVars, mirrorVars, fixed, call, active, step, attempt, bounds>>

SearchEnds ==
  /\ pc = "search" /\ queue = <<>>
  /\ Goto("configured")
  /\ UNCHANGED <<liveVars, mirrorVars, fixed, call, searchVars, active, step, attempt, bounds>>

\* A preview does not ask for the helper here, and asks for it when it loads.
RequireSetup ==
  /\ pc = "configured"
  /\ IF native \/ active \/ (~call.dry /\ setup.helper) THEN Goto("select") ELSE End("setup_required")
  /\ UNCHANGED <<liveVars, mirrorVars, fixed, call, searchVars, active, step, attempt, bounds>>

-----------------------------------------------------------------------------
(* The load.                                                                 *)

\* Mutant of SelectTrack: the preview is not passed on.
SelectAlways ==
  /\ pc = "select"
  /\ selected' = call.track /\ Goto(IF native THEN "native" ELSE "helper")
  /\ UNCHANGED <<placed, pending, front, mirrorVars, fixed, call, searchVars, active, step, attempt, bounds>>

SelectTrack ==
  /\ pc = "select"
  /\ \/ /\ selected' = IF call.dry THEN selected ELSE call.track
        /\ Goto(IF native THEN "native" ELSE "helper")
     \/ selected' \in {selected, call.track} /\ (call.dry => selected' = selected)
        /\ End("internal_error")
  /\ UNCHANGED <<placed, pending, front, mirrorVars, fixed, call, searchVars, active, step, attempt, bounds>>

StartLoad(t) == pending' = [pending EXCEPT ![t] = @ + 1]

\* Live selects the track and loads.  On an error it may load all the same, and the
\* helper is tried next.
LoadNative ==
  /\ pc = "native"
  /\ \/ StartLoad(call.track) /\ selected' = call.track /\ Goto("refresh")
     \/ /\ \/ StartLoad(call.track) /\ selected' = call.track
           \/ UNCHANGED <<pending, selected>>
        /\ pc' = "helper" /\ doubt' = doubt \cup {call.track} /\ UNCHANGED reply
  /\ UNCHANGED <<placed, front, mirrorVars, fixed, call, searchVars, active, step, attempt, bounds>>

\* requireConfigured, and the guard that an application is in front and is Live.
RequireHelper ==
  /\ pc = "helper"
  /\ \/ ~setup.helper /\ End("setup_required")
     \/ setup.helper /\ call.dry /\ End("preview")
     \/ setup.helper /\ ~call.dry /\ front # "Live" /\ End("internal_error")
     \/ setup.helper /\ ~call.dry /\ front = "Live" /\ Goto("workflow")
  /\ UNCHANGED <<liveVars, mirrorVars, fixed, call, searchVars, active, step, attempt, bounds>>

\* browserSearchAndLoad.  The first two steps bring Live to the front.
Workflow == <<"activate_app", "menu_click", "keystroke", "type_text", "keystroke", "load">>
Activates(type) == type \in {"activate_app", "menu_click"}

\* The last key loads what was found onto the selected track, if all went to Live.
RunStep ==
  /\ pc = "workflow"
  /\ LET type == Workflow[step.at]
         hit == step.hit /\ (Activates(type) \/ front = "Live")
         loads == type = "load" /\ hit
     IN
     /\ front' = IF Activates(type) THEN "Live" ELSE front
     /\ IF loads THEN StartLoad(selected) ELSE UNCHANGED pending
     /\ \/ /\ step' = [at |-> step.at + 1, hit |-> hit]
           /\ pc' = IF type = "load" THEN "refresh" ELSE "workflow"
           /\ doubt' = IF loads /\ selected # call.track THEN doubt \cup {selected} ELSE doubt
           /\ UNCHANGED reply
        \/ /\ pc' = "idle" /\ reply' = "internal_error"
           /\ doubt' = IF loads THEN doubt \cup {selected} ELSE doubt
           /\ UNCHANGED step
  /\ UNCHANGED <<placed, selected, mirrorVars, fixed, call, searchVars, active, attempt, bounds>>

-----------------------------------------------------------------------------
(* confirmSidecarActiveOnTrack.                                              *)
Refresh ==
  /\ pc = "refresh"
  /\ \/ ReadMirror /\ Goto("confirm")
     \/ UNCHANGED mirrorVars /\ End("internal_error")
  /\ UNCHANGED <<liveVars, fixed, call, searchVars, active, step, attempt, bounds>>

\* Mutant of Confirm: a device that does not show is waited for without end.
ConfirmForever ==
  /\ pc = "confirm"
  /\ GetStatus
  /\ IF call.track \in activeInstances THEN End("loaded") ELSE Goto("refresh")
  /\ UNCHANGED <<liveVars, fixed, call, searchVars, active, step, attempt, bounds>>

\* After the last attempt the status is read once more.
Confirm ==
  /\ pc = "confirm"
  /\ GetStatus
  /\ \/ /\ call.track \in activeInstances
        /\ End("loaded") /\ UNCHANGED attempt
     \/ /\ call.track \notin activeInstances /\ attempt < Attempts
        /\ attempt' = attempt + 1
        /\ Goto(IF attempt' < Attempts THEN "refresh" ELSE "confirm")
     \/ /\ call.track \notin activeInstances /\ attempt = Attempts
        /\ End("dispatched") /\ UNCHANGED attempt
     \/ End("internal_error") /\ UNCHANGED attempt
  /\ UNCHANGED <<liveVars, fixed, call, searchVars, active, step, bounds>>

-----------------------------------------------------------------------------
(* Live, and the user.                                                       *)
LiveLoads(t) ==
  /\ pending[t] > 0
  /\ pending' = [pending EXCEPT ![t] = @ - 1]
  /\ placed' = [placed EXCEPT ![t] = @ + 1]
  /\ UNCHANGED <<selected, front, mirrorVars, fixed, pc, call, searchVars, active, step, attempt,
                 reply, doubt, bounds>>

\* A sidecar that the user puts on a track is there at once.
UserActs ==
  /\ moves < MaxMoves
  /\ moves' = moves + 1
  /\ \/ selected' \in Tracks \ {selected} /\ UNCHANGED <<placed, front, unseen>>
     \/ front' \in {"Live", "other"} \ {front} /\ UNCHANGED <<placed, selected, unseen>>
     \/ /\ \E t \in Tracks : placed[t] > 0 /\ placed' = [placed EXCEPT ![t] = @ - 1]
        /\ UNCHANGED <<selected, front, unseen>>
     \/ /\ \E t \in Tracks : placed' = [placed EXCEPT ![t] = @ + 1] /\ unseen' = unseen \cup {t}
        /\ UNCHANGED <<selected, front>>
  /\ UNCHANGED <<pending, mirror, fixed, pc, call, searchVars, active, step, attempt, reply, doubt, calls>>

CallStep ==
  \/ SearchBrowser \/ SearchEnds \/ RequireSetup
  \/ SelectTrack \/ LoadNative \/ RequireHelper \/ RunStep
  \/ Refresh \/ Confirm

Next ==
  \/ \E t \in Tracks, dry \in BOOLEAN : EnsureOnTrack(t, dry)
  \/ CallStep
  \/ \E t \in Tracks : LiveLoads(t)
  \/ UserActs

\* What the call awaits is answered, or fails; the rest is the server's own thread.
Spec == Init /\ [][Next]_vars /\ WF_vars(CallStep)
-----------------------------------------------------------------------------
\* Types, and the bounds of the search and of the attempts.
TypeOK ==
  /\ placed \in [Tracks -> Nat] /\ pending \in [Tracks -> Nat] /\ mirror \in [Tracks -> Nat]
  /\ selected \in Tracks /\ front \in {"Live", "other"}
  /\ seen \subseteq DOMAIN browser.items
  /\ \A i \in DOMAIN queue : queue[i].depth \in 0..MaxDepth
  /\ step.at \in 1..Len(Workflow) + 1 /\ attempt \in 0..Attempts
  /\ doubt \subseteq Tracks /\ unseen \subseteq Tracks

(* A sidecar is loaded onto a track that has one, or has one coming, only if a
   load of ours onto it was never confirmed (the caller was told "dispatched" or
   an error, Live answered with an error and loaded all the same, or what showed
   was not the one that was coming), if the user put one there that the status
   has not shown, or if it is not the call's track but the one that the user
   selected under the keystrokes. *)
NoDoubleLoad ==
  [][\A t \in Tracks : pending'[t] > pending[t] /\ placed[t] + pending[t] > 0 =>
       t \in doubt \cup unseen \cup (Tracks \ {call.track})]_vars

(* A preview leaves the set, the selection and the desktop alone, down to the
   steps that its own call makes on the way to an error. *)
PreviewChangesNothing == [][CallStep /\ call.dry => UNCHANGED liveVars]_vars

\* The paths that can be opened from the roots in at most k steps.
Level == [k \in 0..MaxDepth |-> {p \in DOMAIN browser.items :
            \E trail \in [0..k -> browser.folders \cup Range(Roots)] :
              /\ trail[0] \in Range(Roots) /\ trail[k] = p
              /\ \A i \in 1..k : trail[i] \in browser.folders /\ trail[i] \in Range(Within(trail[i - 1]))}]

(* The search finds a sidecar if, and only if, there is one within the depth. *)
SearchFindsAll ==
  pc = "configured" /\ ~call.dry =>
    native = \E k \in 0..MaxDepth : \E p \in Level[k] : Matching(p)

(* Every call ends, whatever the browser's shape and however long Live takes. *)
CallEnds == pc # "idle" ~> pc = "idle"
=============================================================================
