------------------------- MODULE MCSidecarPlacement -------------------------
(***************************************************************************)
(* A visible track and a return; a library with the sidecar in the deepest *)
(* folder that is opened, in one below it, or nowhere.                     *)
(***************************************************************************)
EXTENDS SidecarPlacement

CONSTANTS lead, echo

TwoTracks == {lead, echo}
OneVisible == {lead}
TwoRoots == <<"drums", "user_library">>
Scores == [r \in {"drums", "user_library"} |-> IF r = "user_library" THEN 0 ELSE 4]
Library(sidecars) ==
  [items |-> [p \in {"drums", "user_library", "packs", "presets", "max", "old", "device", "backup"} |->
                CASE p = "user_library" -> <<"packs", "presets">>
                  [] p = "presets" -> <<"max">>
                  [] p = "max" -> <<"device", "old">>
                  [] p = "old" -> <<"backup">>
                  [] OTHER -> <<>>],
   folders |-> {"packs", "presets", "max", "old"},
   sidecars |-> sidecars]
Libraries == {Library({"device", "backup"}), Library({"backup"}), Library({})}
=============================================================================
