----------------------------- MODULE ProjectShape -----------------------------
(***************************************************************************)
(* The ids of a project's tracks, clips, devices and parameters, and what  *)
(* a message may say of a track or of the whole project.                   *)
(*                                                                         *)
(* The id of a clip, a device or a parameter is built from the id of what  *)
(* it belongs to, and that of a track from its section, so that an id says *)
(* where its entity is.                                                    *)
(***************************************************************************)
CONSTANTS Tracks, Clips, Devices, Parameters,  \* the ids
          TrackOf,   \* the track in the id of each clip and each device
          DeviceOf,  \* the device in the id of each parameter
          Section    \* the section in the id of each track

ASSUME IdAssumption ==
  /\ TrackOf \in [Clips \cup Devices -> Tracks]
  /\ DeviceOf \in [Parameters -> Devices]
  /\ Section \in [Tracks -> {"visible", "return", "master"}]
  /\ \A t, u \in Tracks : Section[t] = "master" /\ Section[u] = "master" => t = u

ClipsOf(t) == {c \in Clips : TrackOf[c] = t}
DevicesOf(t) == {d \in Devices : TrackOf[d] = t}
ParametersOf(d) == {p \in Parameters : DeviceOf[p] = d}
OfSection(T, s) == {t \in T : Section[t] = s}

\* What a message may say of a track: its clips, its devices, their parameters.
Bundles ==
  [t \in Tracks |->
     [clips : SUBSET ClipsOf(t),
      devices : {D \in UNION {[E -> SUBSET Parameters] : E \in SUBSET DevicesOf(t)} :
                   \A d \in DOMAIN D : D[d] \subseteq ParametersOf(d)}]]

\* What a snapshot may say: which tracks there are, and the bundle of each.
Snapshots ==
  UNION {{S \in [T -> UNION {Bundles[t] : t \in T}] : \A t \in T : S[t] \in Bundles[t]} :
           T \in SUBSET Tracks}

\* f with k given the value v, f without k, and f over g.
Put(f, k, v) == [x \in DOMAIN f \cup {k} |-> IF x = k THEN v ELSE f[x]]
Without(f, k) == [x \in DOMAIN f \ {k} |-> f[x]]
Join(f, g) == [x \in DOMAIN f \cup DOMAIN g |-> IF x \in DOMAIN f THEN f[x] ELSE g[x]]
=============================================================================
