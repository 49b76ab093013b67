----------------------------- MODULE StateEngine -----------------------------
(***************************************************************************)
(* The state engine's mirror of the project: tables of tracks, clips,      *)
(* devices and parameters, each under its id, the lists of ids by which    *)
(* tracks and devices hold their parts, and the lists of tracks of each    *)
(* section.  Every event handler, subtree and snapshot that changes them   *)
(* is an action.  The queries read the tables in two ways: getTrackDetails *)
(* follows the lists, while the counts of summarizeProject and             *)
(* searchEntities read the tables as they are.                             *)
(*                                                                         *)
(* Left out: the data of an entity, which an update replaces as a whole,   *)
(* the order of the lists, and the parts of the state that are one record  *)
(* or one flat list: song, selection, scenes and dirty paths.              *)
(***************************************************************************)
EXTENDS ProjectShape, Functions

CONSTANTS
  Kinds,     \* the kinds of messages that come
  NoTrack

AllKinds == {"snapshot", "track", "track.removed", "clip", "clip.removed",
             "device", "device.removed", "parameter", "parameter.removed"}

ASSUME EngineAssumption == Kinds \subseteq AllKinds /\ NoTrack \notin Tracks

VARIABLES
  tracks,      \* state.tracks: the ids of each track's clips and devices
  clips,       \* the ids in state.clips
  devices,     \* state.devices: the ids of each device's parameters
  parameters,  \* the ids in state.parameters
  order,       \* state.trackOrder
  visible,     \* state.visibleTrackIds
  returns,     \* state.returnTrackIds
  master,      \* state.masterTrackId
  op           \* history: the last operation

lists == <<order, visible, returns, master>>
vars == <<tracks, clips, devices, parameters, lists, op>>

\* What getTrackDetails returns for each track that trackList names: ids that are
\* in no table are left out.
Details ==
  [t \in order \cap DOMAIN tracks |->
     [clips |-> tracks[t].clips \cap clips,
      devices |-> [d \in tracks[t].devices \cap DOMAIN devices |-> devices[d] \cap parameters]]]

Tree == INSTANCE ProjectTree WITH tree <- Details

TypeOK ==
  /\ DOMAIN tracks \subseteq Tracks
  /\ \A t \in DOMAIN tracks :
        tracks[t] \in [clips : SUBSET ClipsOf(t), devices : SUBSET DevicesOf(t)]
  /\ clips \subseteq Clips
  /\ DOMAIN devices \subseteq Devices
  /\ \A d \in DOMAIN devices : devices[d] \subseteq ParametersOf(d)
  /\ parameters \subseteq Parameters
  /\ order \subseteq Tracks /\ visible \subseteq Tracks /\ returns \subseteq Tracks
  /\ master \in Tracks \cup {NoTrack}

Init ==
  /\ tracks = [t \in {} |-> {}]
  /\ clips = {}
  /\ devices = [d \in {} |-> {}]
  /\ parameters = {}
  /\ order = {} /\ visible = {} /\ returns = {} /\ master = NoTrack
  /\ op = <<"none">>

-----------------------------------------------------------------------------
(* Tracks and snapshots.                                                   *)

\* The new tables of devices and parameters once removeDevice is called for D.
ParametersWithout(D) == parameters \ UNION {devices[d] : d \in D \cap DOMAIN devices}
DevicesWithout(D) == Restrict(devices, DOMAIN devices \ D)

\* The record of a track that holds what a bundle says.
Holding(b) == [clips |-> b.clips, devices |-> DOMAIN b.devices]
ParametersIn(b) == UNION Range(b.devices)

\* applySnapshot: upsertTrackBundle for every track, from an empty state.
ApplySnapshot(S) ==
  /\ "snapshot" \in Kinds
  /\ tracks' = [t \in DOMAIN S |-> Holding(S[t])]
  /\ clips' = UNION {S[t].clips : t \in DOMAIN S}
  /\ devices' = [d \in UNION {DOMAIN S[t].devices : t \in DOMAIN S} |->
                   S[TrackOf[d]].devices[d]]
  /\ parameters' = UNION {ParametersIn(S[t]) : t \in DOMAIN S}
  /\ order' = DOMAIN S
  /\ visible' = OfSection(DOMAIN S, "visible")
  /\ returns' = OfSection(DOMAIN S, "return")
  /\ \/ master' \in OfSection(DOMAIN S, "master")
     \/ OfSection(DOMAIN S, "master") = {} /\ master' = NoTrack
  /\ op' = <<"snapshot", S>>

\* track.added, track.updated, reconcileSubtree of a track: upsertTrackBundle.
\* The parts that the track had and the bundle does not name are removed.
UpsertTrack(t, b) ==
  LET had == t \in DOMAIN tracks
      oldClips == IF had THEN tracks[t].clips \ b.clips ELSE {}
      oldDevices == IF had THEN tracks[t].devices \ DOMAIN b.devices ELSE {}
  IN
  /\ "track" \in Kinds
  /\ tracks' = Put(tracks, t, Holding(b))
  /\ clips' = (clips \ oldClips) \cup b.clips
  /\ devices' = Join(b.devices, DevicesWithout(oldDevices))
  /\ parameters' = ParametersWithout(oldDevices) \cup ParametersIn(b)
  /\ order' = order \cup {t}
  /\ visible' = visible \cup OfSection({t}, "visible")
  /\ returns' = returns \cup OfSection({t}, "return")
  /\ master' = IF Section[t] = "master" THEN t ELSE master
  /\ op' = <<"track", t, b>>

\* Mutant of RemoveTrack: the list of return tracks is forgotten.
RemoveTrackListed(t) ==
  /\ "track.removed" \in Kinds
  /\ op' = <<"no track", t>>
  /\ IF t \notin DOMAIN tracks THEN UNCHANGED <<tracks, clips, devices, parameters, lists>>
     ELSE /\ tracks' = Without(tracks, t)
          /\ clips' = clips \ tracks[t].clips
          /\ devices' = DevicesWithout(tracks[t].devices)
          /\ parameters' = ParametersWithout(tracks[t].devices)
          /\ order' = order \ {t}
          /\ visible' = visible \ {t}
          /\ master' = IF master = t THEN NoTrack ELSE master
          /\ UNCHANGED returns

\* track.removed: removeTrackSubtree.
RemoveTrack(t) ==
  /\ "track.removed" \in Kinds
  /\ op' = <<"no track", t>>
  /\ IF t \notin DOMAIN tracks THEN UNCHANGED <<tracks, clips, devices, parameters, lists>>
     ELSE /\ tracks' = Without(tracks, t)
          /\ clips' = clips \ tracks[t].clips
          /\ devices' = DevicesWithout(tracks[t].devices)
          /\ parameters' = ParametersWithout(tracks[t].devices)
          /\ order' = order \ {t}
          /\ visible' = visible \ {t}
          /\ returns' = returns \ {t}
          /\ master' = IF master = t THEN NoTrack ELSE master

-----------------------------------------------------------------------------
(* The parts of a track.                                                   *)

\* Mutant of UpsertClip: the clip is listed by a track it does not belong to.
UpsertClipAnywhere(c) ==
  /\ "clip" \in Kinds
  /\ op' = <<"clip", c>>
  /\ clips' = clips \cup {c}
  /\ \E t \in DOMAIN tracks : tracks' = [tracks EXCEPT ![t].clips = @ \cup {c}]
  /\ UNCHANGED <<devices, parameters, lists>>

\* clip.updated, reconcileSubtree of a clip: upsertClip.  The clip is kept even
\* when its track is not in the mirror.
UpsertClip(c) ==
  /\ "clip" \in Kinds
  /\ op' = <<"clip", c>>
  /\ clips' = clips \cup {c}
  /\ tracks' = IF TrackOf[c] \notin DOMAIN tracks THEN tracks
               ELSE [tracks EXCEPT ![TrackOf[c]].clips = @ \cup {c}]
  /\ UNCHANGED <<devices, parameters, lists>>

\* Mutant of RemoveClip: the clip's track keeps its id.
RemoveClipOnly(c) ==
  /\ "clip.removed" \in Kinds
  /\ op' = <<"no clip", c>>
  /\ clips' = clips \ {c}
  /\ UNCHANGED <<tracks, devices, parameters, lists>>

\* clip.removed: nothing for a clip that is not in the table.
RemoveClip(c) ==
  /\ "clip.removed" \in Kinds
  /\ op' = <<"no clip", c>>
  /\ clips' = clips \ {c}
  /\ tracks' = IF c \notin clips \/ TrackOf[c] \notin DOMAIN tracks THEN tracks
               ELSE [tracks EXCEPT ![TrackOf[c]].clips = @ \ {c}]
  /\ UNCHANGED <<devices, parameters, lists>>

\* device.updated: upsertDevice.  The new record of the device has no parameter
\* ids; the parameters themselves stay in their table.
UpsertDevice(d) ==
  /\ "device" \in Kinds
  /\ op' = <<"device", d>>
  /\ devices' = Put(devices, d, {})
  /\ tracks' = IF TrackOf[d] \notin DOMAIN tracks THEN tracks
               ELSE [tracks EXCEPT ![TrackOf[d]].devices = @ \cup {d}]
  /\ UNCHANGED <<clips, parameters, lists>>

\* device.removed.
RemoveDevice(d) ==
  /\ "device.removed" \in Kinds
  /\ op' = <<"no device", d>>
  /\ tracks' = IF d \notin DOMAIN devices \/ TrackOf[d] \notin DOMAIN tracks THEN tracks
               ELSE [tracks EXCEPT ![TrackOf[d]].devices = @ \ {d}]
  /\ devices' = DevicesWithout({d})
  /\ parameters' = ParametersWithout({d})
  /\ UNCHANGED <<clips, lists>>

\* Mutant of UpsertParameter: the device is not told of its new parameter.
UpsertParameterOnly(p) ==
  /\ "parameter" \in Kinds
  /\ op' = <<"parameter", p>>
  /\ parameters' = parameters \cup {p}
  /\ UNCHANGED <<tracks, clips, devices, lists>>

\* parameter.updated: upsertParameter.
UpsertParameter(p) ==
  /\ "parameter" \in Kinds
  /\ op' = <<"parameter", p>>
  /\ parameters' = parameters \cup {p}
  /\ devices' = IF DeviceOf[p] \notin DOMAIN devices THEN devices
                ELSE [devices EXCEPT ![DeviceOf[p]] = @ \cup {p}]
  /\ UNCHANGED <<tracks, clips, lists>>

\* parameter.removed.
RemoveParameter(p) ==
  /\ "parameter.removed" \in Kinds
  /\ op' = <<"no parameter", p>>
  /\ parameters' = parameters \ {p}
  /\ devices' = IF p \notin parameters \/ DeviceOf[p] \notin DOMAIN devices THEN devices
                ELSE [devices EXCEPT ![DeviceOf[p]] = @ \ {p}]
  /\ UNCHANGED <<tracks, clips, lists>>

-----------------------------------------------------------------------------
Next ==
  \/ \E S \in Snapshots : ApplySnapshot(S)
  \/ \E t \in Tracks : RemoveTrack(t) \/ \E b \in Bundles[t] : UpsertTrack(t, b)
  \/ \E c \in Clips : UpsertClip(c) \/ RemoveClip(c)
  \/ \E d \in Devices : UpsertDevice(d) \/ RemoveDevice(d)
  \/ \E p \in Parameters : UpsertParameter(p) \/ RemoveParameter(p)

Spec == Init /\ [][Next]_vars

-----------------------------------------------------------------------------
\* The lists of the sections and the table of tracks name the same tracks, in
\* whatever order tracks come, change and go: list_tracks reads the lists, and
\* the tools that take a track's id read the table.
ListsAgree ==
  /\ order = DOMAIN tracks
  /\ visible = OfSection(order, "visible")
  /\ returns = OfSection(order, "return")
  /\ OfSection(order, "master") = {master} \ {NoTrack}

\* Every id that a track or a device holds is in its table, after any sequence of
\* events: valuesInOrder, which drops the others in silence, never has one to drop.
NoDangling ==
  /\ \A t \in DOMAIN tracks :
        tracks[t].clips \subseteq clips /\ tracks[t].devices \subseteq DOMAIN devices
  /\ \A d \in DOMAIN devices : devices[d] \subseteq parameters

\* What getTrackDetails shows is the tree of tracks, devices and parameters that
\* the messages describe: each changes the part it names and no other.
ImplementsTree == Tree!Spec

\* Every parameter in the table is one its device has, so that the counts of a
\* summary and a search speak of the project that getTrackDetails shows.
NoOrphanParameters ==
  \A p \in parameters : DeviceOf[p] \in DOMAIN devices /\ p \in devices[DeviceOf[p]]

=============================================================================
