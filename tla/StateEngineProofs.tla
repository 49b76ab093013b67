-------------------------- MODULE StateEngineProofs --------------------------
(***************************************************************************)
(* For every project and every sequence of messages, the tables and the    *)
(* lists of the state engine agree (GraphInv, inductive), and what its     *)
(* queries show is the tree of ProjectTree.  The tree is compared with the *)
(* tables alone (Held): under GraphInv the queries have nothing to drop.   *)
(***************************************************************************)
EXTENDS StateEngine, TLAPS

GraphInv == TypeOK /\ ListsAgree /\ NoDangling

-----------------------------------------------------------------------------
(* What a message may say.                                                 *)

\* A bundle names parts of its own track only (normalizeTrackBundle).
LEMMA BundleType ==
  ASSUME NEW t \in Tracks, NEW b \in Bundles[t]
  PROVE  /\ b.clips \subseteq ClipsOf(t)
         /\ DOMAIN b.devices \subseteq DevicesOf(t)
         /\ b.devices = [d \in DOMAIN b.devices |-> b.devices[d]]
         /\ \A d \in DOMAIN b.devices : b.devices[d] \subseteq ParametersOf(d)
         /\ b = [clips |-> b.clips, devices |-> b.devices]
<1>1. b \in [clips : SUBSET ClipsOf(t),
             devices : {D \in UNION {[E -> SUBSET Parameters] : E \in SUBSET DevicesOf(t)} :
                          \A d \in DOMAIN D : D[d] \subseteq ParametersOf(d)}]
  BY DEF Bundles
<1>2. b.clips \in SUBSET ClipsOf(t) /\ b = [clips |-> b.clips, devices |-> b.devices]
  BY <1>1
<1>3. PICK E \in SUBSET DevicesOf(t) : b.devices \in [E -> SUBSET Parameters]
  BY <1>1
<1>4. \A d \in DOMAIN b.devices : b.devices[d] \subseteq ParametersOf(d)
  BY <1>1
<1> QED
  BY <1>2, <1>3, <1>4

\* A snapshot says a bundle of every track it names (buildRuntimeSnapshot).
LEMMA SnapshotType ==
  ASSUME NEW S \in Snapshots
  PROVE  /\ DOMAIN S \subseteq Tracks
         /\ S = [t \in DOMAIN S |-> S[t]]
         /\ \A t \in DOMAIN S : S[t] \in Bundles[t]
<1>1. PICK T \in SUBSET Tracks :
        S \in {R \in [T -> UNION {Bundles[t] : t \in T}] : \A t \in T : R[t] \in Bundles[t]}
  BY DEF Snapshots
<1> QED
  BY <1>1

\* What is left of the tables once some devices are removed.
LEMMA WithoutDevices ==
  ASSUME GraphInv, NEW D
  PROVE  /\ DOMAIN DevicesWithout(D) = DOMAIN devices \ D
         /\ \A d \in DOMAIN devices \ D :
               /\ DevicesWithout(D)[d] = devices[d]
               /\ devices[d] \subseteq ParametersWithout(D)
         /\ ParametersWithout(D) \subseteq parameters
<1>1. DOMAIN DevicesWithout(D) = DOMAIN devices \ D
  BY DEF DevicesWithout, Restrict
<1>2. ASSUME NEW d \in DOMAIN devices \ D PROVE DevicesWithout(D)[d] = devices[d]
  BY DEF DevicesWithout, Restrict
<1>3. ASSUME NEW d \in DOMAIN devices \ D PROVE devices[d] \subseteq ParametersWithout(D)
  <2> SUFFICES ASSUME NEW p \in devices[d], NEW e \in D \cap DOMAIN devices, p \in devices[e]
               PROVE  FALSE
    BY DEF ParametersWithout, GraphInv, NoDangling
  <2>1. DeviceOf[p] = d /\ DeviceOf[p] = e
    BY DEF GraphInv, TypeOK, ParametersOf
  <2> QED
    BY <2>1
<1>4. ParametersWithout(D) \subseteq parameters
  BY DEF ParametersWithout
<1> QED
  BY <1>1, <1>2, <1>3, <1>4

-----------------------------------------------------------------------------
(* The tables and the lists agree.                                         *)

\* An engine that starts has nothing in its tables.
LEMMA GraphInit == Init => GraphInv
BY EngineAssumption DEF Init, GraphInv, TypeOK, ListsAgree, NoDangling, OfSection

\* A snapshot fills empty tables with what it says.
LEMMA SnapshotKeeps ==
  ASSUME NEW S \in Snapshots, ApplySnapshot(S)
  PROVE  GraphInv'
<1>1. DOMAIN S \subseteq Tracks /\ \A t \in DOMAIN S : S[t] \in Bundles[t]
  BY SnapshotType
<1>2. \A t \in DOMAIN S :
        /\ S[t].clips \subseteq ClipsOf(t)
        /\ DOMAIN S[t].devices \subseteq DevicesOf(t)
        /\ \A d \in DOMAIN S[t].devices : S[t].devices[d] \subseteq ParametersOf(d)
  BY <1>1, BundleType
<1>3. DOMAIN tracks' = DOMAIN S
      /\ \A t \in DOMAIN S :
            tracks'[t] = [clips |-> S[t].clips, devices |-> DOMAIN S[t].devices]
  BY DEF ApplySnapshot, Holding
<1>4. DOMAIN devices' = UNION {DOMAIN S[t].devices : t \in DOMAIN S}
      /\ \A t \in DOMAIN S : \A d \in DOMAIN S[t].devices :
            d \in DOMAIN devices' /\ TrackOf[d] = t /\ devices'[d] = S[t].devices[d]
  BY <1>2 DEF ApplySnapshot, DevicesOf
<1>5. TypeOK'
  BY <1>1, <1>2, <1>3, <1>4 DEF ApplySnapshot, TypeOK, OfSection, ParametersIn, Range,
     ClipsOf, DevicesOf, ParametersOf
<1>6. ListsAgree'
  BY <1>1, <1>3, IdAssumption, EngineAssumption DEF ApplySnapshot, ListsAgree, OfSection
<1>7. NoDangling'
  <2>1. ASSUME NEW t \in DOMAIN tracks'
        PROVE  tracks'[t].clips \subseteq clips' /\ tracks'[t].devices \subseteq DOMAIN devices'
    BY <1>3, <1>4 DEF ApplySnapshot
  <2>2. ASSUME NEW d \in DOMAIN devices' PROVE devices'[d] \subseteq parameters'
    <3>1. PICK t \in DOMAIN S : d \in DOMAIN S[t].devices
      BY <1>4
    <3>2. devices'[d] \subseteq ParametersIn(S[t])
      BY <1>4, <3>1 DEF ParametersIn, Range
    <3> QED
      BY <3>2 DEF ApplySnapshot
  <2> QED
    BY <2>1, <2>2 DEF NoDangling
<1> QED
  BY <1>5, <1>6, <1>7 DEF GraphInv

\* A bundle replaces its track's record, and removes what it does not name of the
\* parts that the track alone held (upsertTrackBundle).
LEMMA UpsertTrackKeeps ==
  ASSUME GraphInv, NEW t \in Tracks, NEW b \in Bundles[t], UpsertTrack(t, b)
  PROVE  GraphInv'
<1> DEFINE oldClips == IF t \in DOMAIN tracks THEN tracks[t].clips \ b.clips ELSE {}
           oldDevices == IF t \in DOMAIN tracks THEN tracks[t].devices \ DOMAIN b.devices ELSE {}
<1>1. /\ b.clips \subseteq ClipsOf(t)
      /\ DOMAIN b.devices \subseteq DevicesOf(t)
      /\ \A d \in DOMAIN b.devices : b.devices[d] \subseteq ParametersOf(d)
  BY BundleType
<1>2. oldClips \subseteq ClipsOf(t) /\ oldDevices \subseteq DevicesOf(t)
      /\ oldDevices \cap DOMAIN b.devices = {}
  BY DEF GraphInv, TypeOK
<1>3. /\ DOMAIN tracks' = DOMAIN tracks \cup {t}
      /\ tracks'[t] = [clips |-> b.clips, devices |-> DOMAIN b.devices]
      /\ \A u \in DOMAIN tracks \ {t} : tracks'[u] = tracks[u]
  BY DEF UpsertTrack, Put, Holding
<1>4. devices' = Join(b.devices, DevicesWithout(oldDevices))
      /\ clips' = (clips \ oldClips) \cup b.clips
      /\ parameters' = ParametersWithout(oldDevices) \cup ParametersIn(b)
  BY DEF UpsertTrack
<1> HIDE DEF oldClips, oldDevices
<1>5. /\ DOMAIN DevicesWithout(oldDevices) = DOMAIN devices \ oldDevices
      /\ \A d \in DOMAIN devices \ oldDevices :
            /\ DevicesWithout(oldDevices)[d] = devices[d]
            /\ devices[d] \subseteq ParametersWithout(oldDevices)
      /\ ParametersWithout(oldDevices) \subseteq parameters
  BY WithoutDevices
<1>6. /\ DOMAIN devices' = DOMAIN b.devices \cup (DOMAIN devices \ oldDevices)
      /\ \A d \in DOMAIN b.devices : devices'[d] = b.devices[d]
      /\ \A d \in DOMAIN devices \ (oldDevices \cup DOMAIN b.devices) : devices'[d] = devices[d]
  BY <1>4, <1>5 DEF Join
<1>7. \A d \in DOMAIN b.devices : b.devices[d] \subseteq parameters'
  BY <1>4 DEF ParametersIn, Range
<1>8. TypeOK'
  <2>1. \A d \in DOMAIN devices' : d \in Devices /\ devices'[d] \subseteq ParametersOf(d)
    BY <1>1, <1>6 DEF GraphInv, TypeOK, DevicesOf
  <2>2. ParametersIn(b) \subseteq Parameters
    BY <1>1 DEF ParametersIn, Range, ParametersOf
  <2>3. parameters' \subseteq Parameters /\ clips' \subseteq Clips
    BY <1>1, <1>4, <1>5, <2>2 DEF GraphInv, TypeOK, ClipsOf
  <2>4. \A u \in DOMAIN tracks' :
          u \in Tracks /\ tracks'[u] \in [clips : SUBSET ClipsOf(u), devices : SUBSET DevicesOf(u)]
    BY <1>1, <1>3 DEF GraphInv, TypeOK
  <2>5. order' \subseteq Tracks /\ visible' \subseteq Tracks /\ returns' \subseteq Tracks
        /\ master' \in Tracks \cup {NoTrack}
    BY DEF GraphInv, TypeOK, UpsertTrack, OfSection
  <2> QED
    BY <2>1, <2>3, <2>4, <2>5 DEF TypeOK
<1>9. ListsAgree'
  BY <1>3, IdAssumption, EngineAssumption DEF GraphInv, ListsAgree, TypeOK, UpsertTrack, OfSection
<1>10. NoDangling'
  <2>1. \A u \in DOMAIN tracks \ {t} : tracks[u].clips \cap oldClips = {}
                                       /\ tracks[u].devices \cap oldDevices = {}
    BY <1>2 DEF GraphInv, TypeOK, ClipsOf, DevicesOf
  <2>2. ASSUME NEW u \in DOMAIN tracks'
        PROVE  tracks'[u].clips \subseteq clips' /\ tracks'[u].devices \subseteq DOMAIN devices'
    BY <1>3, <1>4, <1>6, <2>1 DEF GraphInv, NoDangling
  <2>3. ASSUME NEW d \in DOMAIN devices' PROVE devices'[d] \subseteq parameters'
    BY <1>4, <1>5, <1>6, <1>7
  <2> QED
    BY <2>2, <2>3 DEF NoDangling
<1> QED
  BY <1>8, <1>9, <1>10 DEF GraphInv

\* A removed track takes with it what it alone held (removeTrackSubtree).
LEMMA RemoveTrackKeeps ==
  ASSUME GraphInv, NEW t \in Tracks, RemoveTrack(t)
  PROVE  GraphInv'
<1>1. CASE t \notin DOMAIN tracks
  <2>1. UNCHANGED <<tracks, clips, devices, parameters, lists>>
    BY <1>1 DEF RemoveTrack
  <2> QED
    BY <2>1 DEF GraphInv, TypeOK, ListsAgree, NoDangling, lists
<1>2. CASE t \in DOMAIN tracks
  <2> DEFINE D == tracks[t].devices
  <2>1. /\ DOMAIN tracks' = DOMAIN tracks \ {t}
        /\ \A u \in DOMAIN tracks \ {t} : tracks'[u] = tracks[u]
    BY <1>2 DEF RemoveTrack, Without
  <2>2. clips' = clips \ tracks[t].clips /\ devices' = DevicesWithout(D)
        /\ parameters' = ParametersWithout(D)
    BY <1>2 DEF RemoveTrack
  <2>3. /\ DOMAIN DevicesWithout(D) = DOMAIN devices \ D
        /\ \A d \in DOMAIN devices \ D :
              /\ DevicesWithout(D)[d] = devices[d]
              /\ devices[d] \subseteq ParametersWithout(D)
        /\ ParametersWithout(D) \subseteq parameters
    BY WithoutDevices
  <2>4. TypeOK'
    <3>1. \A u \in DOMAIN tracks' :
            u \in Tracks /\ tracks'[u] \in [clips : SUBSET ClipsOf(u), devices : SUBSET DevicesOf(u)]
      BY <2>1 DEF GraphInv, TypeOK
    <3>2. \A d \in DOMAIN devices' : d \in Devices /\ devices'[d] \subseteq ParametersOf(d)
      BY <2>2, <2>3 DEF GraphInv, TypeOK
    <3>3. parameters' \subseteq Parameters /\ clips' \subseteq Clips
      BY <2>2, <2>3 DEF GraphInv, TypeOK
    <3>4. order' \subseteq Tracks /\ visible' \subseteq Tracks /\ returns' \subseteq Tracks
          /\ master' \in Tracks \cup {NoTrack}
      BY <1>2 DEF GraphInv, TypeOK, RemoveTrack
    <3> QED
      BY <3>1, <3>2, <3>3, <3>4 DEF TypeOK
  <2>5. ListsAgree'
    BY <1>2, <2>1, IdAssumption, EngineAssumption
       DEF GraphInv, ListsAgree, TypeOK, RemoveTrack, OfSection
  <2>6. NoDangling'
    <3>1. \A u \in DOMAIN tracks \ {t} : tracks[u].clips \cap tracks[t].clips = {}
                                         /\ tracks[u].devices \cap D = {}
      BY <1>2 DEF GraphInv, TypeOK, ClipsOf, DevicesOf
    <3>2. ASSUME NEW u \in DOMAIN tracks'
          PROVE  tracks'[u].clips \subseteq clips' /\ tracks'[u].devices \subseteq DOMAIN devices'
      BY <2>1, <2>2, <2>3, <3>1 DEF GraphInv, NoDangling
    <3>3. ASSUME NEW d \in DOMAIN devices' PROVE devices'[d] \subseteq parameters'
      BY <2>2, <2>3
    <3> QED
      BY <3>2, <3>3 DEF NoDangling
  <2> QED
    BY <2>4, <2>5, <2>6 DEF GraphInv
<1> QED
  BY <1>1, <1>2

\* A clip is listed by the track in its id, if it is there (upsertClip).
LEMMA UpsertClipKeeps ==
  ASSUME GraphInv, NEW c \in Clips, UpsertClip(c)
  PROVE  GraphInv'
<1>1. UNCHANGED <<devices, parameters, lists>> /\ clips' = clips \cup {c}
  BY DEF UpsertClip
<1>2. DOMAIN tracks' = DOMAIN tracks
  BY DEF UpsertClip
<1>3. ASSUME NEW t \in DOMAIN tracks
      PROVE  /\ tracks'[t] \in [clips : SUBSET ClipsOf(t), devices : SUBSET DevicesOf(t)]
             /\ tracks'[t].devices = tracks[t].devices /\ tracks'[t].clips \subseteq clips'
  <2>1. tracks[t] \in [clips : SUBSET ClipsOf(t), devices : SUBSET DevicesOf(t)]
        /\ tracks[t].clips \subseteq clips
    BY DEF GraphInv, TypeOK, NoDangling
  <2> QED
    BY <1>1, <2>1 DEF UpsertClip, ClipsOf
<1>4. TypeOK'
  BY <1>1, <1>2, <1>3 DEF GraphInv, TypeOK, lists
<1>5. ListsAgree' /\ NoDangling'
  BY <1>1, <1>2, <1>3 DEF GraphInv, ListsAgree, NoDangling, lists
<1> QED
  BY <1>4, <1>5 DEF GraphInv

\* A removed clip is not listed any more by its track (handleClipRemoved).
LEMMA RemoveClipKeeps ==
  ASSUME GraphInv, NEW c \in Clips, RemoveClip(c)
  PROVE  GraphInv'
<1>1. UNCHANGED <<devices, parameters, lists>> /\ clips' = clips \ {c}
  BY DEF RemoveClip
<1>2. DOMAIN tracks' = DOMAIN tracks
  BY DEF RemoveClip
<1>3. ASSUME NEW t \in DOMAIN tracks
      PROVE  /\ tracks'[t] \in [clips : SUBSET ClipsOf(t), devices : SUBSET DevicesOf(t)]
             /\ tracks'[t].devices = tracks[t].devices /\ tracks'[t].clips \subseteq clips'
  <2>1. tracks[t] \in [clips : SUBSET ClipsOf(t), devices : SUBSET DevicesOf(t)]
        /\ tracks[t].clips \subseteq clips
    BY DEF GraphInv, TypeOK, NoDangling
  <2>2. c \in tracks[t].clips => c \in clips /\ TrackOf[c] = t
    BY <2>1 DEF ClipsOf
  <2>3. CASE c \in tracks[t].clips
    <3>1. tracks' = [tracks EXCEPT ![t].clips = tracks[t].clips \ {c}]
      BY <2>2, <2>3 DEF RemoveClip
    <3>2. tracks'[t] = [tracks[t] EXCEPT !.clips = tracks[t].clips \ {c}]
      BY <3>1
    <3> QED
      BY <1>1, <2>1, <3>2
  <2>4. CASE c \notin tracks[t].clips
    <3>1. tracks'[t] = tracks[t] \/ tracks'[t] = [tracks[t] EXCEPT !.clips = tracks[t].clips \ {c}]
      BY DEF RemoveClip
    <3> QED
      BY <1>1, <2>1, <2>4, <3>1
  <2> QED
    BY <2>3, <2>4
<1>4. TypeOK'
  BY <1>1, <1>2, <1>3 DEF GraphInv, TypeOK, lists
<1>5. ListsAgree' /\ NoDangling'
  BY <1>1, <1>2, <1>3 DEF GraphInv, ListsAgree, NoDangling, lists
<1> QED
  BY <1>4, <1>5 DEF GraphInv

\* A new record of a device has no parameter, and its track, if it is there, lists
\* it (upsertDevice).
LEMMA UpsertDeviceKeeps ==
  ASSUME GraphInv, NEW d \in Devices, UpsertDevice(d)
  PROVE  GraphInv'
<1>1. UNCHANGED <<clips, parameters, lists>>
  BY DEF UpsertDevice
<1>2. DOMAIN tracks' = DOMAIN tracks
  BY DEF UpsertDevice
<1>3. DOMAIN devices' = DOMAIN devices \cup {d}
      /\ \A e \in DOMAIN devices' : devices'[e] = IF e = d THEN {} ELSE devices[e]
  BY DEF UpsertDevice, Put
<1>4. ASSUME NEW t \in DOMAIN tracks
      PROVE  /\ tracks'[t] \in [clips : SUBSET ClipsOf(t), devices : SUBSET DevicesOf(t)]
             /\ tracks'[t].clips = tracks[t].clips /\ tracks'[t].devices \subseteq DOMAIN devices'
  <2>1. tracks[t] \in [clips : SUBSET ClipsOf(t), devices : SUBSET DevicesOf(t)]
        /\ tracks[t].devices \subseteq DOMAIN devices
    BY DEF GraphInv, TypeOK, NoDangling
  <2> QED
    BY <1>3, <2>1 DEF UpsertDevice, DevicesOf
<1>5. TypeOK'
  BY <1>1, <1>2, <1>3, <1>4 DEF GraphInv, TypeOK, lists
<1>6. ListsAgree' /\ NoDangling'
  BY <1>1, <1>2, <1>3, <1>4 DEF GraphInv, ListsAgree, NoDangling, lists
<1> QED
  BY <1>5, <1>6 DEF GraphInv

\* A removed device takes its parameters with it, and its track lists it no more.
LEMMA RemoveDeviceKeeps ==
  ASSUME GraphInv, NEW d \in Devices, RemoveDevice(d)
  PROVE  GraphInv'
<1>1. UNCHANGED <<clips, lists>> /\ devices' = DevicesWithout({d})
      /\ parameters' = ParametersWithout({d})
  BY DEF RemoveDevice
<1>2. DOMAIN tracks' = DOMAIN tracks
  BY DEF RemoveDevice
<1>3. /\ DOMAIN devices' = DOMAIN devices \ {d}
      /\ \A e \in DOMAIN devices' : devices'[e] = devices[e] /\ devices[e] \subseteq parameters'
      /\ parameters' \subseteq parameters
  BY <1>1, WithoutDevices
<1>4. ASSUME NEW t \in DOMAIN tracks
      PROVE  /\ tracks'[t] \in [clips : SUBSET ClipsOf(t), devices : SUBSET DevicesOf(t)]
             /\ tracks'[t].clips = tracks[t].clips /\ tracks'[t].devices \subseteq DOMAIN devices'
  <2>1. tracks[t] \in [clips : SUBSET ClipsOf(t), devices : SUBSET DevicesOf(t)]
        /\ tracks[t].devices \subseteq DOMAIN devices
    BY DEF GraphInv, TypeOK, NoDangling
  <2>2. d \in tracks[t].devices => d \in DOMAIN devices /\ TrackOf[d] = t
    BY <2>1 DEF DevicesOf
  <2>3. CASE d \in tracks[t].devices
    <3>1. tracks' = [tracks EXCEPT ![t].devices = tracks[t].devices \ {d}]
      BY <2>2, <2>3 DEF RemoveDevice
    <3>2. tracks'[t] = [tracks[t] EXCEPT !.devices = tracks[t].devices \ {d}]
      BY <3>1
    <3> QED
      BY <1>3, <2>1, <3>2
  <2>4. CASE d \notin tracks[t].devices
    <3>1. tracks'[t] = tracks[t] \/ tracks'[t] = [tracks[t] EXCEPT !.devices = tracks[t].devices \ {d}]
      BY DEF RemoveDevice
    <3> QED
      BY <1>3, <2>1, <2>4, <3>1
  <2> QED
    BY <2>3, <2>4
<1>5. TypeOK'
  BY <1>1, <1>2, <1>3, <1>4 DEF GraphInv, TypeOK, lists
<1>6. ListsAgree' /\ NoDangling'
  BY <1>1, <1>2, <1>3, <1>4 DEF GraphInv, ListsAgree, NoDangling, lists
<1> QED
  BY <1>5, <1>6 DEF GraphInv

\* A parameter is held by the device in its id, or by none (upsertParameter,
\* handleParameterRemoved).
LEMMA ParameterKeeps ==
  ASSUME GraphInv, NEW p \in Parameters, UpsertParameter(p) \/ RemoveParameter(p)
  PROVE  GraphInv'
<1>1. UNCHANGED <<tracks, clips, lists>> /\ DOMAIN devices' = DOMAIN devices
      /\ parameters' \subseteq Parameters
  BY DEF UpsertParameter, RemoveParameter, GraphInv, TypeOK
<1>2. ASSUME NEW d \in DOMAIN devices
      PROVE  devices'[d] \subseteq ParametersOf(d) /\ devices'[d] \subseteq parameters'
  <2>1. devices[d] \subseteq ParametersOf(d) /\ devices[d] \subseteq parameters
    BY DEF GraphInv, TypeOK, NoDangling
  <2>2. p \in ParametersOf(d) <=> DeviceOf[p] = d
    BY DEF ParametersOf
  <2>3. CASE UpsertParameter(p)
    BY <2>1, <2>2, <2>3 DEF UpsertParameter
  <2>4. CASE RemoveParameter(p)
    BY <2>1, <2>2, <2>4 DEF RemoveParameter
  <2> QED
    BY <2>3, <2>4
<1>3. TypeOK'
  BY <1>1, <1>2 DEF GraphInv, TypeOK, lists
<1>4. ListsAgree' /\ NoDangling'
  BY <1>1, <1>2 DEF GraphInv, ListsAgree, NoDangling, lists
<1> QED
  BY <1>3, <1>4 DEF GraphInv

\* Every message keeps the tables and the lists in agreement.
LEMMA GraphStep == GraphInv /\ [Next]_vars => GraphInv'
<1> SUFFICES ASSUME GraphInv, [Next]_vars PROVE GraphInv'
  OBVIOUS
<1>1. ASSUME NEW S \in Snapshots, ApplySnapshot(S) PROVE GraphInv'
  BY <1>1, SnapshotKeeps
<1>2. ASSUME NEW t \in Tracks, RemoveTrack(t) PROVE GraphInv'
  BY <1>2, RemoveTrackKeeps
<1>3. ASSUME NEW t \in Tracks, NEW b \in Bundles[t], UpsertTrack(t, b) PROVE GraphInv'
  BY <1>3, UpsertTrackKeeps
<1>4. ASSUME NEW c \in Clips, UpsertClip(c) \/ RemoveClip(c) PROVE GraphInv'
  BY <1>4, UpsertClipKeeps, RemoveClipKeeps
<1>5. ASSUME NEW d \in Devices, UpsertDevice(d) PROVE GraphInv'
  BY <1>5, UpsertDeviceKeeps
<1>6. ASSUME NEW d \in Devices, RemoveDevice(d) PROVE GraphInv'
  BY <1>6, RemoveDeviceKeeps
<1>7. ASSUME NEW p \in Parameters, UpsertParameter(p) \/ RemoveParameter(p) PROVE GraphInv'
  BY <1>7, ParameterKeeps
<1>8. CASE UNCHANGED vars
  BY <1>8 DEF vars, lists, GraphInv, TypeOK, ListsAgree, NoDangling
<1> QED
  BY <1>1, <1>2, <1>3, <1>4, <1>5, <1>6, <1>7, <1>8 DEF Next

\* Whatever the project and the messages about it, the tables and the lists agree.
THEOREM GraphCorrect == Spec => []GraphInv
BY GraphInit, GraphStep, PTL DEF Spec

\* The tables and the lists hold ids of the project, each under the track or the
\* device in the id (upsertClip, upsertDevice, upsertParameter).
THEOREM EngineTypeCorrect == Spec => []TypeOK
<1>1. GraphInv => TypeOK
  BY DEF GraphInv
<1> QED
  BY <1>1, GraphCorrect, PTL

\* The lists of the sections and the table of tracks always name the same tracks
\* (upsertTrackBundle, removeTrackSubtree).
THEOREM ListsAlwaysAgree == Spec => []ListsAgree
<1>1. GraphInv => ListsAgree
  BY DEF GraphInv
<1> QED
  BY <1>1, GraphCorrect, PTL

\* No track or device ever holds an id that is in no table, whatever order the
\* events come in and whichever the mirror has not seen.
THEOREM NothingDangles == Spec => []NoDangling
<1>1. GraphInv => NoDangling
  BY DEF GraphInv
<1> QED
  BY <1>1, GraphCorrect, PTL

-----------------------------------------------------------------------------
(* What the queries show is the tree of the project.                       *)

\* The tree that tables of tracks T and of devices D hold.
Held(T, D) ==
  [t \in DOMAIN T |-> [clips |-> T[t].clips, devices |-> [d \in T[t].devices |-> D[d]]]]

\* valuesInOrder has nothing to drop: the details of the tracks are what the tables
\* of tracks and devices hold, before a step and after it.
LEMMA DetailsHeld ==
  /\ GraphInv => Details = Held(tracks, devices)
  /\ GraphInv' => Details' = Held(tracks', devices')
<1>1. ASSUME GraphInv PROVE Details = Held(tracks, devices)
  <2>1. order \cap DOMAIN tracks = DOMAIN tracks
    BY <1>1 DEF GraphInv, ListsAgree
  <2>2. ASSUME NEW t \in DOMAIN tracks
        PROVE  tracks[t].clips \cap clips = tracks[t].clips
               /\ tracks[t].devices \cap DOMAIN devices = tracks[t].devices
    BY <1>1 DEF GraphInv, NoDangling
  <2>3. ASSUME NEW d \in DOMAIN devices PROVE devices[d] \cap parameters = devices[d]
    BY <1>1 DEF GraphInv, NoDangling
  <2>4. ASSUME NEW t \in DOMAIN tracks
        PROVE  [d \in tracks[t].devices \cap DOMAIN devices |-> devices[d] \cap parameters]
               = [d \in tracks[t].devices |-> devices[d]]
    BY <2>2, <2>3
  <2> QED
    BY <2>1, <2>2, <2>4 DEF Details, Held
<1>2. ASSUME GraphInv' PROVE Details' = Held(tracks', devices')
  <2>1. order' \cap DOMAIN tracks' = DOMAIN tracks'
    BY <1>2 DEF GraphInv, ListsAgree
  <2>2. ASSUME NEW t \in DOMAIN tracks'
        PROVE  tracks'[t].clips \cap clips' = tracks'[t].clips
               /\ tracks'[t].devices \cap DOMAIN devices' = tracks'[t].devices
    BY <1>2 DEF GraphInv, NoDangling
  <2>3. ASSUME NEW d \in DOMAIN devices' PROVE devices'[d] \cap parameters' = devices'[d]
    BY <1>2 DEF GraphInv, NoDangling
  <2>4. ASSUME NEW t \in DOMAIN tracks'
        PROVE  [d \in tracks'[t].devices \cap DOMAIN devices' |-> devices'[d] \cap parameters']
               = [d \in tracks'[t].devices |-> devices'[d]]
    BY <2>2, <2>3
  <2> QED
    BY <2>1, <2>2, <2>4 DEF Details, Held
<1> QED
  BY <1>1, <1>2

\* An engine that starts shows no track.
LEMMA TreeInit == Init => Tree!Init
BY DEF Init, Tree!Init, Details

\* A snapshot is shown as it is.
LEMMA SnapshotShown ==
  ASSUME NEW S \in Snapshots, ApplySnapshot(S)
  PROVE  Held(tracks', devices') = S
<1>1. /\ DOMAIN S \subseteq Tracks
      /\ S = [t \in DOMAIN S |-> S[t]]
      /\ \A t \in DOMAIN S : S[t] \in Bundles[t]
  BY SnapshotType
<1>2. \A t \in DOMAIN S :
        /\ DOMAIN S[t].devices \subseteq DevicesOf(t)
        /\ S[t].devices = [d \in DOMAIN S[t].devices |-> S[t].devices[d]]
        /\ S[t] = [clips |-> S[t].clips, devices |-> S[t].devices]
  BY <1>1, BundleType
<1>3. ASSUME NEW t \in DOMAIN S
      PROVE  [d \in DOMAIN S[t].devices |-> devices'[d]] = S[t].devices
  <2>1. ASSUME NEW d \in DOMAIN S[t].devices PROVE devices'[d] = S[t].devices[d]
    <3>1. TrackOf[d] = t /\ d \in UNION {DOMAIN S[u].devices : u \in DOMAIN S}
      BY <1>2 DEF DevicesOf
    <3> QED
      BY <3>1 DEF ApplySnapshot
  <2> QED
    BY <1>2, <2>1
<1>4. DOMAIN tracks' = DOMAIN S
      /\ \A t \in DOMAIN S : tracks'[t] = [clips |-> S[t].clips, devices |-> DOMAIN S[t].devices]
  BY DEF ApplySnapshot, Holding
<1>5. Held(tracks', devices') = [t \in DOMAIN S |-> [clips |-> S[t].clips, devices |-> S[t].devices]]
  BY <1>3, <1>4 DEF Held
<1> QED
  BY <1>1, <1>2, <1>5

\* A bundle is shown in the place of its track, the other tracks as they were.
LEMMA UpsertTrackShown ==
  ASSUME GraphInv, NEW t \in Tracks, NEW b \in Bundles[t], UpsertTrack(t, b)
  PROVE  Held(tracks', devices') = Put(Held(tracks, devices), t, b)
<1> DEFINE oldDevices == IF t \in DOMAIN tracks THEN tracks[t].devices \ DOMAIN b.devices ELSE {}
<1>1. /\ DOMAIN b.devices \subseteq DevicesOf(t)
      /\ b.devices = [d \in DOMAIN b.devices |-> b.devices[d]]
      /\ b = [clips |-> b.clips, devices |-> b.devices]
  BY BundleType
<1>2. /\ DOMAIN tracks' = DOMAIN tracks \cup {t}
      /\ tracks'[t] = [clips |-> b.clips, devices |-> DOMAIN b.devices]
      /\ \A u \in DOMAIN tracks \ {t} : tracks'[u] = tracks[u]
  BY DEF UpsertTrack, Put, Holding
<1>3. devices' = Join(b.devices, DevicesWithout(oldDevices)) /\ oldDevices \subseteq DevicesOf(t)
  BY DEF UpsertTrack, GraphInv, TypeOK
<1> HIDE DEF oldDevices
<1>4. /\ \A d \in DOMAIN b.devices : devices'[d] = b.devices[d]
      /\ \A d \in DOMAIN devices \ (oldDevices \cup DOMAIN b.devices) : devices'[d] = devices[d]
  BY <1>3, WithoutDevices DEF Join
<1>5. ASSUME NEW u \in DOMAIN tracks \ {t}
      PROVE  [d \in tracks[u].devices |-> devices'[d]] = [d \in tracks[u].devices |-> devices[d]]
  <2>1. \A d \in tracks[u].devices : d \in DOMAIN devices \ (oldDevices \cup DOMAIN b.devices)
    BY <1>1, <1>3 DEF GraphInv, TypeOK, NoDangling, DevicesOf
  <2> QED
    BY <1>4, <2>1
<1>6. [d \in DOMAIN b.devices |-> devices'[d]] = b.devices
  BY <1>1, <1>4
<1> QED
  BY <1>1, <1>2, <1>5, <1>6 DEF Held, Put

\* A removed track is not shown, the others are as they were.
LEMMA RemoveTrackShown ==
  ASSUME GraphInv, NEW t \in Tracks, RemoveTrack(t)
  PROVE  Held(tracks', devices') = Without(Held(tracks, devices), t)
<1>1. CASE t \notin DOMAIN tracks
  BY <1>1 DEF RemoveTrack, Held, Without
<1>2. CASE t \in DOMAIN tracks
  <2>1. /\ DOMAIN tracks' = DOMAIN tracks \ {t}
        /\ \A u \in DOMAIN tracks \ {t} : tracks'[u] = tracks[u]
        /\ devices' = DevicesWithout(tracks[t].devices)
    BY <1>2 DEF RemoveTrack, Without
  <2>2. ASSUME NEW u \in DOMAIN tracks \ {t}
        PROVE  [d \in tracks[u].devices |-> devices'[d]] = [d \in tracks[u].devices |-> devices[d]]
    <3>1. \A d \in tracks[u].devices : d \in DOMAIN devices \ tracks[t].devices
      BY <1>2 DEF GraphInv, TypeOK, NoDangling, DevicesOf
    <3> QED
      BY <2>1, <3>1, WithoutDevices
  <2> QED
    BY <2>1, <2>2 DEF Held, Without
<1> QED
  BY <1>1, <1>2

\* A step on a track's clip is shown there and nowhere else.
LEMMA ClipShown ==
  ASSUME GraphInv, NEW c \in Clips, NEW C, UNCHANGED devices,
         tracks' = IF TrackOf[c] \notin DOMAIN tracks THEN tracks
                   ELSE [tracks EXCEPT ![TrackOf[c]].clips = C]
  PROVE  Held(tracks', devices') =
           IF TrackOf[c] \notin DOMAIN Held(tracks, devices) THEN Held(tracks, devices)
           ELSE [Held(tracks, devices) EXCEPT ![TrackOf[c]].clips = C]
<1>1. \A t \in DOMAIN tracks :
        tracks[t] \in [clips : SUBSET ClipsOf(t), devices : SUBSET DevicesOf(t)]
  BY DEF GraphInv, TypeOK
<1>2. DOMAIN Held(tracks, devices) = DOMAIN tracks
  BY DEF Held
<1>3. CASE TrackOf[c] \notin DOMAIN tracks
  BY <1>2, <1>3
<1>4. CASE TrackOf[c] \in DOMAIN tracks
  <2> DEFINE t == TrackOf[c]
             H == Held(tracks, devices)
             G == Held(tracks', devices')
  <2>1. tracks'[t] = [clips |-> C, devices |-> tracks[t].devices]
    BY <1>1, <1>4
  <2>2. DOMAIN tracks' = DOMAIN tracks /\ \A u \in DOMAIN tracks \ {t} : tracks'[u] = tracks[u]
    BY <1>4
  <2>3. H[t] = [clips |-> tracks[t].clips, devices |-> [d \in tracks[t].devices |-> devices[d]]]
    BY <1>4 DEF Held
  <2>4. G[t] = [clips |-> C, devices |-> [d \in tracks[t].devices |-> devices[d]]]
    BY <1>4, <2>1, <2>2 DEF Held
  <2>5. G[t] = [H[t] EXCEPT !.clips = C]
    BY <2>3, <2>4
  <2>6. \A u \in DOMAIN tracks \ {t} : G[u] = H[u]
    BY <2>2 DEF Held
  <2>7. G = [u \in DOMAIN tracks |-> G[u]] /\ H = [u \in DOMAIN tracks |-> H[u]]
    BY <2>2 DEF Held
  <2> HIDE DEF H, G
  <2>8. G = [H EXCEPT ![t].clips = C]
    BY <1>4, <2>5, <2>6, <2>7
  <2> QED
    BY <1>2, <1>4, <2>8 DEF H, G
<1> QED
  BY <1>3, <1>4

\* A step on a device is shown in its track and nowhere else.
LEMMA DeviceShown ==
  ASSUME GraphInv, NEW d \in Devices, NEW X,
         DOMAIN tracks' = DOMAIN tracks,
         \A u \in DOMAIN tracks :
            tracks'[u] = IF u # TrackOf[d] THEN tracks[u]
                         ELSE [clips |-> tracks[u].clips, devices |-> X],
         \A e \in DOMAIN devices \ {d} : devices'[e] = devices[e]
  PROVE  Held(tracks', devices') =
           IF TrackOf[d] \notin DOMAIN Held(tracks, devices) THEN Held(tracks, devices)
           ELSE [Held(tracks, devices) EXCEPT ![TrackOf[d]].devices = [e \in X |-> devices'[e]]]
<1> DEFINE t == TrackOf[d]
           H == Held(tracks, devices)
           G == Held(tracks', devices')
<1>1. \A u \in DOMAIN tracks :
        tracks[u] \in [clips : SUBSET ClipsOf(u), devices : SUBSET DevicesOf(u)]
  BY DEF GraphInv, TypeOK
<1>2. DOMAIN tracks' = DOMAIN tracks /\ \A u \in DOMAIN tracks \ {t} : tracks'[u] = tracks[u]
  OBVIOUS
<1>3. ASSUME NEW u \in DOMAIN tracks \ {t} PROVE G[u] = H[u]
  <2>1. \A e \in tracks[u].devices : e \in DOMAIN devices \ {d}
    BY <1>1 DEF GraphInv, NoDangling, DevicesOf
  <2>2. [e \in tracks[u].devices |-> devices'[e]] = [e \in tracks[u].devices |-> devices[e]]
    BY <2>1
  <2> QED
    BY <1>2, <2>2 DEF Held
<1>4. G = [u \in DOMAIN tracks |-> G[u]] /\ H = [u \in DOMAIN tracks |-> H[u]]
  BY <1>2 DEF Held
<1>5. CASE t \notin DOMAIN tracks
  <2> HIDE DEF H, G, t
  <2>1. G = H
    BY <1>3, <1>4, <1>5
  <2> QED
    BY <1>4, <1>5, <2>1 DEF H, G, t
<1>6. CASE t \in DOMAIN tracks
  <2>1. tracks'[t] = [clips |-> tracks[t].clips, devices |-> X]
    BY <1>6
  <2>2. H[t] = [clips |-> tracks[t].clips, devices |-> [e \in tracks[t].devices |-> devices[e]]]
    BY <1>6 DEF Held
  <2>3. G[t] = [clips |-> tracks[t].clips, devices |-> [e \in X |-> devices'[e]]]
    BY <1>2, <1>6, <2>1 DEF Held
  <2>4. G[t] = [H[t] EXCEPT !.devices = [e \in X |-> devices'[e]]]
    BY <2>2, <2>3
  <2> HIDE DEF H, G, t
  <2>5. G = [H EXCEPT ![t].devices = [e \in X |-> devices'[e]]]
    BY <1>3, <1>4, <1>6, <2>4
  <2> QED
    BY <1>4, <1>6, <2>5 DEF H, G, t
<1> QED
  BY <1>5, <1>6

\* What a device's track shows of its devices.
LEMMA HeldDevices ==
  ASSUME NEW t \in DOMAIN tracks
  PROVE  /\ DOMAIN Held(tracks, devices) = DOMAIN tracks
         /\ Held(tracks, devices)[t].devices = [e \in tracks[t].devices |-> devices[e]]
BY DEF Held

\* A device that is updated is shown with no parameter.
LEMMA UpsertDeviceShown ==
  ASSUME GraphInv, NEW d \in Devices, UpsertDevice(d)
  PROVE  Held(tracks', devices') =
           IF TrackOf[d] \notin DOMAIN Held(tracks, devices) THEN Held(tracks, devices)
           ELSE [Held(tracks, devices) EXCEPT ![TrackOf[d]].devices = Put(@, d, {})]
<1> DEFINE t == TrackOf[d]
           H == Held(tracks, devices)
           X == tracks[t].devices \cup {d}
<1>1. /\ devices' = Put(devices, d, {})
      /\ DOMAIN tracks' = DOMAIN tracks
      /\ \A u \in DOMAIN tracks :
            tracks'[u] = IF u # t THEN tracks[u] ELSE [clips |-> tracks[u].clips, devices |-> X]
  <2>1. /\ devices' = Put(devices, d, {})
        /\ tracks' = IF t \notin DOMAIN tracks THEN tracks ELSE [tracks EXCEPT ![t].devices = X]
    BY DEF UpsertDevice
  <2>2. \A u \in DOMAIN tracks :
          tracks[u] \in [clips : SUBSET ClipsOf(u), devices : SUBSET DevicesOf(u)]
    BY DEF GraphInv, TypeOK
  <2> HIDE DEF X
  <2> QED
    BY <2>1, <2>2
<1>2. \A e \in DOMAIN devices \ {d} : devices'[e] = devices[e]
  BY <1>1 DEF Put
<1>3. devices'[d] = {}
  BY <1>1 DEF Put
<1>4. Held(tracks', devices') =
        IF t \notin DOMAIN H THEN H ELSE [H EXCEPT ![t].devices = [e \in X |-> devices'[e]]]
  BY <1>1, <1>2, DeviceShown
<1>5. ASSUME t \in DOMAIN tracks
      PROVE  [e \in X |-> devices'[e]] = Put(H[t].devices, d, {})
  <2>1. tracks[t].devices \subseteq DOMAIN devices
    BY <1>5 DEF GraphInv, NoDangling
  <2>2. Put(H[t].devices, d, {}) = [e \in X |-> IF e = d THEN {} ELSE devices[e]]
    BY <1>5, HeldDevices DEF Put
  <2> QED
    BY <1>2, <1>3, <2>1, <2>2
<1>6. DOMAIN H = DOMAIN tracks
  BY DEF Held
<1> QED
  BY <1>4, <1>5, <1>6

\* A device that is removed is not shown, those of its track are as they were.
LEMMA RemoveDeviceShown ==
  ASSUME GraphInv, NEW d \in Devices, RemoveDevice(d)
  PROVE  Held(tracks', devices') =
           IF TrackOf[d] \notin DOMAIN Held(tracks, devices) THEN Held(tracks, devices)
           ELSE [Held(tracks, devices) EXCEPT ![TrackOf[d]].devices = Without(@, d)]
<1> DEFINE t == TrackOf[d]
           H == Held(tracks, devices)
           X == tracks[t].devices \ {d}
<1>1. \A u \in DOMAIN tracks :
        /\ tracks[u] \in [clips : SUBSET ClipsOf(u), devices : SUBSET DevicesOf(u)]
        /\ tracks[u].devices \subseteq DOMAIN devices
  BY DEF GraphInv, TypeOK, NoDangling
<1>2. /\ DOMAIN tracks' = DOMAIN tracks
      /\ \A u \in DOMAIN tracks :
            tracks'[u] = IF u # t THEN tracks[u] ELSE [clips |-> tracks[u].clips, devices |-> X]
  <2>1. CASE d \in DOMAIN devices
    <3>1. tracks' = IF t \notin DOMAIN tracks THEN tracks ELSE [tracks EXCEPT ![t].devices = X]
      BY <2>1 DEF RemoveDevice
    <3> HIDE DEF X
    <3> QED
      BY <1>1, <3>1
  <2>2. CASE d \notin DOMAIN devices
    BY <1>1, <2>2 DEF RemoveDevice
  <2> QED
    BY <2>1, <2>2
<1>3. \A e \in DOMAIN devices \ {d} : devices'[e] = devices[e]
  BY WithoutDevices DEF RemoveDevice
<1>4. Held(tracks', devices') =
        IF t \notin DOMAIN H THEN H ELSE [H EXCEPT ![t].devices = [e \in X |-> devices'[e]]]
  BY <1>2, <1>3, DeviceShown
<1>5. ASSUME t \in DOMAIN tracks
      PROVE  [e \in X |-> devices'[e]] = Without(H[t].devices, d)
  <2>1. Without(H[t].devices, d) = [e \in X |-> devices[e]]
    BY <1>5, HeldDevices DEF Without
  <2> QED
    BY <1>1, <1>3, <1>5, <2>1
<1>6. DOMAIN H = DOMAIN tracks
  BY DEF Held
<1> QED
  BY <1>4, <1>5, <1>6

\* A step on a device's parameter is shown there and nowhere else.
LEMMA ParameterShown ==
  ASSUME GraphInv, NEW p \in Parameters, NEW P, UNCHANGED tracks,
         devices' = IF DeviceOf[p] \notin DOMAIN devices THEN devices
                    ELSE [devices EXCEPT ![DeviceOf[p]] = P]
  PROVE  LET d == DeviceOf[p]
             t == TrackOf[DeviceOf[p]]
             H == Held(tracks, devices)
         IN  Held(tracks', devices') =
               IF ~(t \in DOMAIN H /\ d \in DOMAIN H[t].devices) THEN H
               ELSE [H EXCEPT ![t].devices[d] = P]
<1> DEFINE d == DeviceOf[p]
           t == TrackOf[d]
           H == Held(tracks, devices)
           G == Held(tracks', devices')
           X == tracks[t].devices
<1>1. d \in Devices /\ t \in Tracks
  BY IdAssumption
<1>2. \A u \in DOMAIN tracks :
        /\ tracks[u] = [clips |-> tracks[u].clips, devices |-> tracks[u].devices]
        /\ tracks[u].devices \subseteq DOMAIN devices
        /\ tracks[u].devices \subseteq DevicesOf(u)
  BY DEF GraphInv, TypeOK, NoDangling
<1>3. \A e \in DOMAIN devices \ {d} : devices'[e] = devices[e]
  OBVIOUS
<1>4. /\ DOMAIN tracks' = DOMAIN tracks
      /\ \A u \in DOMAIN tracks :
            tracks'[u] = IF u # t THEN tracks[u] ELSE [clips |-> tracks[u].clips, devices |-> X]
  <2>1. ASSUME NEW u \in DOMAIN tracks
        PROVE  tracks'[u] = IF u # t THEN tracks[u]
                            ELSE [clips |-> tracks[u].clips, devices |-> X]
    <3>1. CASE u = t
      BY <1>2, <3>1
    <3>2. CASE u # t
      BY <3>2
    <3> QED
      BY <3>1, <3>2
  <2>2. DOMAIN tracks' = DOMAIN tracks
    OBVIOUS
  <2> HIDE DEF X, t
  <2> QED
    BY <2>1, <2>2, Zenon
<1>5. G = IF t \notin DOMAIN H THEN H ELSE [H EXCEPT ![t].devices = [e \in X |-> devices'[e]]]
  <2> HIDE DEF d, X
  <2> QED
    BY <1>1, <1>3, <1>4, DeviceShown
<1>6. /\ DOMAIN H = DOMAIN tracks
      /\ \A u \in DOMAIN tracks :
            H[u] = [clips |-> tracks[u].clips, devices |-> [e \in tracks[u].devices |-> devices[e]]]
      /\ H = [u \in DOMAIN H |-> H[u]]
  BY DEF Held
<1>7. CASE t \notin DOMAIN tracks
  BY <1>5, <1>6, <1>7
<1>8. CASE t \in DOMAIN tracks /\ d \notin X
  <2>1. [e \in X |-> devices'[e]] = [e \in X |-> devices[e]]
    BY <1>2, <1>3, <1>8
  <2>2. H[t] = [H[t] EXCEPT !.devices = [e \in X |-> devices'[e]]]
    BY <1>6, <1>8, <2>1
  <2>3. d \notin DOMAIN H[t].devices
    BY <1>6, <1>8
  <2> HIDE DEF H, G, X, t, d
  <2>4. G = H
    BY <1>5, <1>6, <1>8, <2>2
  <2> QED
    BY <2>3, <2>4 DEF H, G, t, d
<1>9. CASE t \in DOMAIN tracks /\ d \in X
  <2>1. devices'[d] = P
    BY <1>2, <1>9
  <2>2. [e \in X |-> devices'[e]] = [[e \in X |-> devices[e]] EXCEPT ![d] = P]
    BY <1>2, <1>3, <1>9, <2>1
  <2>3. H[t].devices = [e \in X |-> devices[e]] /\ t \in DOMAIN H /\ d \in DOMAIN H[t].devices
    BY <1>6, <1>9
  <2> HIDE DEF H, G, X, t, d
  <2>4. G = [H EXCEPT ![t].devices[d] = P]
    BY <1>5, <2>2, <2>3
  <2> QED
    BY <2>3, <2>4 DEF H, G, t, d
<1> QED
  BY <1>7, <1>8, <1>9

\* An updated clip is shown in its track.
LEMMA UpsertClipShown ==
  ASSUME GraphInv, NEW c \in Clips, UpsertClip(c)
  PROVE  Held(tracks', devices') =
           IF TrackOf[c] \notin DOMAIN Held(tracks, devices) THEN Held(tracks, devices)
           ELSE [Held(tracks, devices) EXCEPT ![TrackOf[c]].clips = @ \cup {c}]
<1> DEFINE t == TrackOf[c]
           C == tracks[t].clips \cup {c}
<1>1. /\ UNCHANGED devices
      /\ tracks' = IF t \notin DOMAIN tracks THEN tracks ELSE [tracks EXCEPT ![t].clips = C]
  BY DEF UpsertClip
<1>2. /\ DOMAIN Held(tracks, devices) = DOMAIN tracks
      /\ t \in DOMAIN tracks => Held(tracks, devices)[t].clips = tracks[t].clips
  BY DEF Held
<1> HIDE DEF t
<1>3. Held(tracks', devices') =
        IF t \notin DOMAIN Held(tracks, devices) THEN Held(tracks, devices)
        ELSE [Held(tracks, devices) EXCEPT ![t].clips = C]
  <2> HIDE DEF C
  <2> QED
    BY <1>1, ClipShown DEF t
<1> QED
  BY <1>2, <1>3 DEF t

\* A removed clip is not shown.
LEMMA RemoveClipShown ==
  ASSUME GraphInv, NEW c \in Clips, RemoveClip(c)
  PROVE  Held(tracks', devices') =
           IF TrackOf[c] \notin DOMAIN Held(tracks, devices) THEN Held(tracks, devices)
           ELSE [Held(tracks, devices) EXCEPT ![TrackOf[c]].clips = @ \ {c}]
<1> DEFINE t == TrackOf[c]
           H == Held(tracks, devices)
           C == tracks[t].clips \ {c}
<1>1. /\ DOMAIN H = DOMAIN tracks
      /\ t \in DOMAIN tracks => H[t].clips = tracks[t].clips
      /\ H = [u \in DOMAIN H |-> H[u]]
      /\ t \in DOMAIN tracks => H[t] = [clips |-> H[t].clips, devices |-> H[t].devices]
  BY DEF Held
<1>2. CASE c \in clips
  <2>1. /\ UNCHANGED devices
        /\ tracks' = IF t \notin DOMAIN tracks THEN tracks ELSE [tracks EXCEPT ![t].clips = C]
    BY <1>2 DEF RemoveClip
  <2>2. Held(tracks', devices') = IF t \notin DOMAIN H THEN H ELSE [H EXCEPT ![t].clips = C]
    <3> HIDE DEF C
    <3> QED
      BY <2>1, ClipShown
  <2> HIDE DEF t, H
  <2>3. Held(tracks', devices') = IF t \notin DOMAIN H THEN H ELSE [H EXCEPT ![t].clips = @ \ {c}]
    BY <1>1, <2>2
  <2> QED
    BY <2>3 DEF t, H
<1>3. CASE c \notin clips
  <2>1. UNCHANGED <<devices, tracks>>
    BY <1>3 DEF RemoveClip
  <2>2. t \in DOMAIN tracks => H[t].clips = H[t].clips \ {c}
    BY <1>1, <1>3 DEF GraphInv, NoDangling
  <2> HIDE DEF t, H
  <2>3. t \in DOMAIN H => H = [H EXCEPT ![t].clips = @ \ {c}]
    BY <1>1, <2>2
  <2> QED
    BY <2>1, <2>3 DEF t, H
<1> QED
  BY <1>2, <1>3

\* An updated parameter is shown in its device.
LEMMA UpsertParameterShown ==
  ASSUME GraphInv, NEW p \in Parameters, UpsertParameter(p)
  PROVE  LET d == DeviceOf[p]
             t == TrackOf[DeviceOf[p]]
             H == Held(tracks, devices)
         IN  Held(tracks', devices') =
               IF ~(t \in DOMAIN H /\ d \in DOMAIN H[t].devices) THEN H
               ELSE [H EXCEPT ![t].devices[d] = @ \cup {p}]
<1> DEFINE d == DeviceOf[p]
           t == TrackOf[d]
           H == Held(tracks, devices)
           P == devices[d] \cup {p}
<1>1. /\ UNCHANGED tracks
      /\ devices' = IF d \notin DOMAIN devices THEN devices ELSE [devices EXCEPT ![d] = P]
  BY DEF UpsertParameter
<1>2. Held(tracks', devices') =
        IF ~(t \in DOMAIN H /\ d \in DOMAIN H[t].devices) THEN H
        ELSE [H EXCEPT ![t].devices[d] = P]
  <2> HIDE DEF P
  <2> QED
    BY <1>1, ParameterShown
<1>3. t \in DOMAIN H /\ d \in DOMAIN H[t].devices => H[t].devices[d] = devices[d]
  BY DEF Held
<1> HIDE DEF d, t, H
<1>4. Held(tracks', devices') =
        IF ~(t \in DOMAIN H /\ d \in DOMAIN H[t].devices) THEN H
        ELSE [H EXCEPT ![t].devices[d] = @ \cup {p}]
  BY <1>2, <1>3
<1> QED
  BY <1>4 DEF d, t, H

\* A removed parameter is not shown.
LEMMA RemoveParameterShown ==
  ASSUME GraphInv, NEW p \in Parameters, RemoveParameter(p)
  PROVE  LET d == DeviceOf[p]
             t == TrackOf[DeviceOf[p]]
             H == Held(tracks, devices)
         IN  Held(tracks', devices') =
               IF ~(t \in DOMAIN H /\ d \in DOMAIN H[t].devices) THEN H
               ELSE [H EXCEPT ![t].devices[d] = @ \ {p}]
<1> DEFINE d == DeviceOf[p]
           t == TrackOf[d]
           H == Held(tracks, devices)
           P == devices[d] \ {p}
           shown == t \in DOMAIN H /\ d \in DOMAIN H[t].devices
<1>1. /\ shown => H[t].devices[d] = devices[d] /\ d \in DOMAIN devices
      /\ H = [u \in DOMAIN H |-> H[u]]
      /\ shown => H[t] = [clips |-> H[t].clips, devices |-> H[t].devices]
      /\ shown => H[t].devices = [e \in DOMAIN H[t].devices |-> H[t].devices[e]]
  BY DEF Held, GraphInv, NoDangling
<1>2. CASE p \in parameters
  <2>1. /\ UNCHANGED tracks
        /\ devices' = IF d \notin DOMAIN devices THEN devices ELSE [devices EXCEPT ![d] = P]
    BY <1>2 DEF RemoveParameter
  <2>2. Held(tracks', devices') = IF ~shown THEN H ELSE [H EXCEPT ![t].devices[d] = P]
    <3> HIDE DEF P
    <3> QED
      BY <2>1, ParameterShown
  <2> HIDE DEF d, t, H
  <2>3. Held(tracks', devices') = IF ~shown THEN H ELSE [H EXCEPT ![t].devices[d] = @ \ {p}]
    BY <1>1, <2>2
  <2> QED
    BY <2>3 DEF d, t, H
<1>3. CASE p \notin parameters
  <2>1. UNCHANGED <<devices, tracks>>
    BY <1>3 DEF RemoveParameter
  <2>2. shown => H[t].devices[d] = H[t].devices[d] \ {p}
    BY <1>1, <1>3 DEF GraphInv, NoDangling
  <2> HIDE DEF d, t, H
  <2>3. shown => H = [H EXCEPT ![t].devices[d] = @ \ {p}]
    BY <1>1, <2>2
  <2> QED
    BY <2>1, <2>3 DEF d, t, H
<1> QED
  BY <1>2, <1>3

\* Every message does to what is shown what it says.
LEMMA TreeStep == GraphInv /\ GraphInv' /\ [Next]_vars => [Tree!Next]_(Tree!vars)
<1> SUFFICES ASSUME GraphInv, GraphInv', [Next]_vars PROVE [Tree!Next]_(Tree!vars)
  OBVIOUS
<1>1. Details = Held(tracks, devices) /\ Details' = Held(tracks', devices')
  BY DetailsHeld
<1>0. /\ \A f, k, v : Put(f, k, v) = Tree!Put(f, k, v)
      /\ \A f, k : Without(f, k) = Tree!Without(f, k)
  BY DEF Put, Tree!Put, Without, Tree!Without
<1> HIDE DEF Details
<1>2. ASSUME NEW S \in Snapshots, ApplySnapshot(S) PROVE Tree!Next
  <2>1. Tree!Replace(S)
    BY <1>1, <1>2, SnapshotShown DEF ApplySnapshot, Tree!Replace
  <2>2. S \in Tree!Snapshots
    BY <1>2 DEF Snapshots, Tree!Snapshots, Bundles, Tree!Bundles, ClipsOf, Tree!ClipsOf,
                DevicesOf, Tree!DevicesOf, ParametersOf, Tree!ParametersOf
  <2> QED
    BY <2>1, <2>2 DEF Tree!Next
<1>3. ASSUME NEW t \in Tracks, RemoveTrack(t) PROVE Tree!Next
  <2>1. Tree!DropTrack(t)
    BY <1>0, <1>1, <1>3, RemoveTrackShown DEF RemoveTrack, Tree!DropTrack
  <2> QED
    BY <2>1 DEF Tree!Next
<1>4. ASSUME NEW t \in Tracks, NEW b \in Bundles[t], UpsertTrack(t, b) PROVE Tree!Next
  <2>1. Tree!PutTrack(t, b)
    <3>1. op' = <<"track", t, b>>
      BY <1>4 DEF UpsertTrack
    <3> QED
      BY <1>0, <1>1, <1>4, <3>1, UpsertTrackShown DEF Tree!PutTrack
  <2>2. b \in Tree!Bundles[t]
    BY <1>4 DEF Bundles, Tree!Bundles, ClipsOf, Tree!ClipsOf,
                DevicesOf, Tree!DevicesOf, ParametersOf, Tree!ParametersOf
  <2> QED
    BY <2>1, <2>2 DEF Tree!Next
<1>5. ASSUME NEW c \in Clips, UpsertClip(c) PROVE Tree!Next
  <2>1. Tree!PutClip(c)
    BY <1>1, <1>5, UpsertClipShown DEF UpsertClip, Tree!PutClip
  <2> QED
    BY <2>1 DEF Tree!Next
<1>6. ASSUME NEW c \in Clips, RemoveClip(c) PROVE Tree!Next
  <2>1. Tree!DropClip(c)
    BY <1>1, <1>6, RemoveClipShown DEF RemoveClip, Tree!DropClip
  <2> QED
    BY <2>1 DEF Tree!Next
<1>7. ASSUME NEW d \in Devices, UpsertDevice(d) PROVE Tree!Next
  <2>1. Tree!PutDevice(d)
    <3>1. op' = <<"device", d>>
      BY <1>7 DEF UpsertDevice
    <3>2. Details' = IF TrackOf[d] \notin DOMAIN Details THEN Details
                     ELSE [Details EXCEPT ![TrackOf[d]].devices = Put(@, d, {})]
      BY <1>1, <1>7, UpsertDeviceShown
    <3>3. Details' = IF TrackOf[d] \notin DOMAIN Details THEN Details
                     ELSE [Details EXCEPT ![TrackOf[d]].devices = Tree!Put(@, d, {})]
      BY <1>0, <3>2
    <3> QED
      BY <3>1, <3>3 DEF Tree!PutDevice
  <2> QED
    BY <2>1 DEF Tree!Next
<1>8. ASSUME NEW d \in Devices, RemoveDevice(d) PROVE Tree!Next
  <2>1. Tree!DropDevice(d)
    <3>1. op' = <<"no device", d>>
      BY <1>8 DEF RemoveDevice
    <3>2. Details' = IF TrackOf[d] \notin DOMAIN Details THEN Details
                     ELSE [Details EXCEPT ![TrackOf[d]].devices = Without(@, d)]
      BY <1>1, <1>8, RemoveDeviceShown
    <3>3. Details' = IF TrackOf[d] \notin DOMAIN Details THEN Details
                     ELSE [Details EXCEPT ![TrackOf[d]].devices = Tree!Without(@, d)]
      BY <1>0, <3>2
    <3> QED
      BY <3>1, <3>3 DEF Tree!DropDevice
  <2> QED
    BY <2>1 DEF Tree!Next
<1>9. ASSUME NEW p \in Parameters, UpsertParameter(p) PROVE Tree!Next
  <2>1. Tree!PutParameter(p)
    BY <1>1, <1>9, UpsertParameterShown DEF UpsertParameter, Tree!PutParameter, Tree!HasDevice
  <2> QED
    BY <2>1 DEF Tree!Next
<1>10. ASSUME NEW p \in Parameters, RemoveParameter(p) PROVE Tree!Next
  <2>1. Tree!DropParameter(p)
    BY <1>1, <1>10, RemoveParameterShown DEF RemoveParameter, Tree!DropParameter, Tree!HasDevice
  <2> QED
    BY <2>1 DEF Tree!Next
<1>11. CASE UNCHANGED vars
  BY <1>11 DEF vars, lists, Tree!vars, Details
<1> QED
  BY <1>2, <1>3, <1>4, <1>5, <1>6, <1>7, <1>8, <1>9, <1>10, <1>11 DEF Next

\* getTrackDetails shows, for every project and whatever the messages say of it in
\* whatever order, the tree that the messages describe.
THEOREM EngineImplementsTree == Spec => ImplementsTree
<1>1. Init => Tree!Init
  BY TreeInit
<1>2. GraphInv /\ GraphInv' /\ [Next]_vars => [Tree!Next]_(Tree!vars)
  BY TreeStep
<1> QED
  BY <1>1, <1>2, GraphCorrect, PTL DEF Spec, ImplementsTree, Tree!Spec

=============================================================================
