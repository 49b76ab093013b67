--------------------------- MODULE MCBridgeSession ---------------------------
(***************************************************************************)
(* The instances of BridgeSession that TLC checks: a slice whose every     *)
(* change is told (the tempo and play state, by transport.changed), one    *)
(* that has no events (the selection), and enough connections and calls    *)
(* for a call to meet what a failed one or a lost connection left behind.  *)
(***************************************************************************)
EXTENDS BridgeSession

CONSTANTS transport, selection

TransportAndSelection == <<transport, selection>>
Told == {transport}
Selection == {selection}

Once == [s \in {transport, selection} |-> 1]
TransportTwice == [s \in {transport, selection} |-> IF s = transport THEN 2 ELSE 0]
=============================================================================
