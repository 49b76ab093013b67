----------------------------- MODULE ProjectTree -----------------------------
(***************************************************************************)
(* What the state engine promises of the project's structure, with its     *)
(* tables and lists of ids forgotten: the project is a tree of tracks, of  *)
(* the clips and the devices of each, and of the parameters of each        *)
(* device, and an operation changes what it names and nothing else.        *)
(***************************************************************************)
EXTENDS ProjectShape

VARIABLES tree,      \* the tracks there are, with what each contains
          op         \* the last operation

vars == <<tree, op>>

HasDevice(d) == TrackOf[d] \in DOMAIN tree /\ d \in DOMAIN tree[TrackOf[d]].devices

-----------------------------------------------------------------------------
Init == tree = [t \in {} |-> {}] /\ op = <<"none">>

Replace(S) == op' = <<"snapshot", S>> /\ tree' = S

PutTrack(t, b) == op' = <<"track", t, b>> /\ tree' = Put(tree, t, b)

DropTrack(t) == op' = <<"no track", t>> /\ tree' = Without(tree, t)

\* What is said of a part of a track that is not there is not shown.
PutClip(c) ==
  /\ op' = <<"clip", c>>
  /\ tree' = IF TrackOf[c] \notin DOMAIN tree THEN tree
             ELSE [tree EXCEPT ![TrackOf[c]].clips = @ \cup {c}]

DropClip(c) ==
  /\ op' = <<"no clip", c>>
  /\ tree' = IF TrackOf[c] \notin DOMAIN tree THEN tree
             ELSE [tree EXCEPT ![TrackOf[c]].clips = @ \ {c}]

\* A device comes without its parameters, those it had are not known any more.
PutDevice(d) ==
  /\ op' = <<"device", d>>
  /\ tree' = IF TrackOf[d] \notin DOMAIN tree THEN tree
             ELSE [tree EXCEPT ![TrackOf[d]].devices = Put(@, d, {})]

DropDevice(d) ==
  /\ op' = <<"no device", d>>
  /\ tree' = IF TrackOf[d] \notin DOMAIN tree THEN tree
             ELSE [tree EXCEPT ![TrackOf[d]].devices = Without(@, d)]

PutParameter(p) ==
  /\ op' = <<"parameter", p>>
  /\ tree' = IF ~HasDevice(DeviceOf[p]) THEN tree
             ELSE [tree EXCEPT ![TrackOf[DeviceOf[p]]].devices[DeviceOf[p]] = @ \cup {p}]

DropParameter(p) ==
  /\ op' = <<"no parameter", p>>
  /\ tree' = IF ~HasDevice(DeviceOf[p]) THEN tree
             ELSE [tree EXCEPT ![TrackOf[DeviceOf[p]]].devices[DeviceOf[p]] = @ \ {p}]

Next ==
  \/ \E S \in Snapshots : Replace(S)
  \/ \E t \in Tracks : DropTrack(t) \/ \E b \in Bundles[t] : PutTrack(t, b)
  \/ \E c \in Clips : PutClip(c) \/ DropClip(c)
  \/ \E d \in Devices : PutDevice(d) \/ DropDevice(d)
  \/ \E p \in Parameters : PutParameter(p) \/ DropParameter(p)

Spec == Init /\ [][Next]_vars
=============================================================================
