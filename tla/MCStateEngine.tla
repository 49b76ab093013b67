---------------------------- MODULE MCStateEngine ----------------------------
(***************************************************************************)
(* The instances of StateEngine that TLC checks: a visible track with a    *)
(* clip and two devices, one of them with two parameters, a return track   *)
(* with a clip, and the master.                                            *)
(***************************************************************************)
EXTENDS StateEngine

CONSTANTS drums, reverb, main, kick, tail, rack, eq, macro, drive

ThreeTracks == {drums, reverb, main}
TwoClips == {kick, tail}
TwoDevices == {rack, eq}
TwoParameters == {macro, drive}

Owner == [x \in TwoClips \cup TwoDevices |-> IF x = tail THEN reverb ELSE drums]
DeviceOwner == [p \in TwoParameters |-> rack]
Sections == [t \in ThreeTracks |-> CASE t = drums -> "visible"
                                     [] t = reverb -> "return"
                                     [] t = main -> "master"]

\* What the session gives the engine: snapshots, and the events of mapBridgeEvent.
BridgeKinds == {"snapshot", "track", "clip"}
=============================================================================
