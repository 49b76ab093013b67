----------------------------- MODULE ToolCatalog -----------------------------
(***************************************************************************)
(* The tools of the MCP server, each as the steps its execute makes, in    *)
(* their order.  ToolPipeline runs them.  A step that edits names the      *)
(* aspects of the set that it may change and those it removes something    *)
(* from.  A tool with alternatives (an option, a workflow's name) is a     *)
(* set of plans.                                                           *)
(***************************************************************************)
EXTENDS Sequences

Aspects == {"song", "selection", "tracks", "scenes", "clips", "notes",
            "envelopes", "playback", "mixer", "devices", "desktop"}

Step(kind) == [kind |-> kind, changes |-> {}, removes |-> {}]

\* Checks of the arguments; Given is one that includes the id of a target,
\* Unchecked an id that is passed on without a check.
Check == Step("check")
Given == Step("given")
Unchecked == Step("unchecked")
Confirm == Step("confirm")
Allowed == Step("allowed")

\* Reads of the mirror, and of the other side of the socket.
Project == Step("read")
Arrangement == Step("read")
Tracks == Step("read")
Context == Step("ask")
Ask == Step("ask")
Refresh == Step("refresh")

\* Names and values looked up in the mirror.
Find == Step("lookup")
Track == Step("track")
Send == Step("lookup")
Parameter == Step("parameter")
Value == Step("check")
Routing == Step("lookup")

\* Edits of Live.  EditWet is skipped by a dry run; EditEach is a loop of
\* lookups and edits.
Edit(aspects) == [kind |-> "edit", changes |-> aspects, removes |-> {}]
Remove(aspects) == [kind |-> "edit", changes |-> aspects, removes |-> aspects]
EditWet(aspects) == [kind |-> "edit_wet", changes |-> aspects, removes |-> {}]
EditEach(aspects) == [kind |-> "edit_each", changes |-> aspects, removes |-> {}]
IsArrangementClip == Step("check")

\* Sidecar and interface automation.
Active == Step("setup")
SelectedClip == Step("selected_clip")
ClipNotes == Step("clip_notes")
Device == Step("device")
SnapshotDevice == Step("snapshot_device")
PlaceSidecar == [kind |-> "place", changes |-> {"selection", "devices", "desktop"}, removes |-> {}]
Helper(aspects) == [kind |-> "helper", changes |-> aspects, removes |-> {}]
-----------------------------------------------------------------------------
(* Reads. *)
get_project_summary == {<<Project>>}
get_arrangement_summary == {<<Arrangement>>}
get_arrangement_track_details == {<<Check, Find>>}
get_selected_context == {<<Context>>}
list_tracks == {<<Tracks>>}
list_mixer_tracks == {<<Tracks>>}
list_return_tracks == {<<Tracks>>}
get_master_track == {<<Find>>}
get_track_details == {<<Check, Find>>}
get_device_tree == {<<Check, Find>>}
get_component_status == {<<Ask>>}
get_browser_tree == {<<Ask>>}
get_browser_items == {<<Ask>>}
get_clip_envelopes == {<<Given, Ask>>}
list_sidecar_workflows == {<<Tracks>>}
list_ui_workflows == {<<>>}
refresh_state == {<<Refresh>>}
get_capabilities == {<<Ask>>}

(* The song. *)
\* Mutant of set_tempo: the snapshot is taken before the edit.
SetTempoRefreshFirst == {<<Check, Allowed, Project, Refresh, Edit({"song"})>>}

set_tempo == {<<Check, Allowed, Project, Edit({"song"}), Refresh>>}
set_arrangement_transport == {<<Check, Allowed, Arrangement, Edit({"song"}), Refresh>>}
play_transport == {<<Allowed, Project, Edit({"song"}), Refresh>>}
stop_transport == {<<Allowed, Project, Edit({"song"}), Refresh>>}

\* The clip is selected before its kind is known.
jump_to_arrangement_clip ==
  {<<Given, Allowed, Arrangement, Edit({"selection"}), IsArrangementClip>> \o transport \o <<Refresh>> :
     transport \in {<<EditWet({"song"})>>, <<EditWet({"song"}), EditWet({"song"})>>}}

(* Tracks, scenes and clips. *)
select_clip == {<<Given, Allowed, Project, Edit({"selection"}), Refresh>>}
create_track == {<<Allowed, Project, Edit({"tracks"}), Refresh>>}
create_return_track == {<<Allowed, Project, Edit({"tracks"}), Refresh>>}
create_scene == {<<Allowed, Project, Edit({"scenes"}), Refresh>>}
create_clip == {<<Given, Allowed, Project, Edit({"clips"}), Refresh>>}
create_arrangement_clip == {<<Given, Allowed, Arrangement, Edit({"clips"}), Refresh>>}
rename_clip == {<<Given, Allowed, Project, Edit({"clips"}), Refresh>>}
rename_arrangement_clip == {<<Given, Allowed, Arrangement, Edit({"clips"}), Refresh>>}
duplicate_clip == {<<Given, Confirm, Allowed, Project, Edit({"clips"}), Refresh>>}
duplicate_clip_to_arrangement == {<<Given, Allowed, Arrangement, Edit({"clips"}), Refresh>>}
duplicate_arrangement_clip == {<<Given, Allowed, Arrangement, Edit({"clips"}), Refresh>>}
move_arrangement_clip == {<<Given, Allowed, Arrangement, Edit({"clips"}), Refresh>>}
set_arrangement_clip_bounds == {<<Given, Allowed, Arrangement, Edit({"clips"}), Refresh>>}
split_arrangement_clip == {<<Given, Allowed, Arrangement, Edit({"clips"}), Refresh>>}
move_session_clip == {<<Given, Allowed, Project, Edit({"clips"}), Refresh>>}
set_clip_loop_or_length == {<<Given, Allowed, Project, Edit({"clips"}), Refresh>>}
\* Mutants of delete_clip: nothing asks for the confirmation; or it asks too late.
DeleteUnconfirmed == {<<Given, Allowed, Project, Remove({"clips"}), Refresh>>}
DeleteThenConfirm == {<<Given, Allowed, Project, Remove({"clips"}), Confirm, Refresh>>}

delete_clip == {<<Given, Confirm, Allowed, Project, Remove({"clips"}), Refresh>>}
delete_arrangement_clip == {<<Given, Confirm, Allowed, Arrangement, Remove({"clips"}), Refresh>>}
insert_notes == {<<Given, Allowed, Project, Edit({"notes"}), Refresh>>}
replace_notes == {<<Given, Allowed, Project, Remove({"notes"}), Refresh>>}

(* Envelopes.  Writing one clears it first unless the caller says not to. *)
show_clip_envelope == {<<Given, Allowed, Context, Edit({"selection"}), Refresh>>}
hide_clip_envelope == {<<Given, Allowed, Context, Edit({"selection"}), Refresh>>}
select_clip_envelope_parameter == {<<Given, Allowed, Context, Edit({"selection"}), Refresh>>}
clear_clip_envelope == {<<Given, Confirm, Allowed, Project, Remove({"envelopes"}), Refresh>>}
clear_all_clip_envelopes == {<<Given, Confirm, Allowed, Project, Remove({"envelopes"}), Refresh>>}
set_clip_envelope ==
  {<<Given, Allowed, Project, write, Refresh>> :
     write \in {Edit({"envelopes", "selection"}),
                [Edit({"envelopes", "selection"}) EXCEPT !.removes = {"envelopes"}]}}

(* Playback. *)
launch_clip == {<<Given, Allowed, Project, Edit({"playback"}), Refresh>>}
launch_scene == {<<Check, Allowed, Project, Edit({"playback"}), Refresh>>}
stop_track_clips == {<<Given, Allowed, Project, Edit({"playback"}), Refresh>>}
stop_all_clips == {<<Allowed, Project, Edit({"playback"}), Refresh>>}

(* The mixer and the devices: by id or by name. *)
set_track_volume == {<<Track, Value, Allowed, Project, Edit({"mixer"}), Refresh>>}
set_track_panning == {<<Track, Value, Allowed, Project, Edit({"mixer"}), Refresh>>}
set_send_level == {<<Track, Send, Value, Allowed, Project, Edit({"mixer"}), Refresh>>}
set_monitor_state == {<<Track, Value, Allowed, Project, Edit({"mixer"}), Refresh>>}
set_track_routing == {<<Check, Track, Find, Allowed, Project, Routing, Edit({"mixer"}), Refresh>>}
set_parameter == {<<Check, Parameter, Value, Allowed, Project, Edit({"devices"}), Refresh>>}
load_browser_item == {<<Given, Allowed, Project, Edit({"devices"}), Refresh>>}
-----------------------------------------------------------------------------
(* The sidecar's workflows, and the tools around them. *)
snapshotSelectionContext == <<Active, Context>>
transformSelectedClip == <<Active, Check, SelectedClip, ClipNotes, Remove({"notes"})>>
replaceClipNotes == <<Active, Remove({"notes"})>>
observeDeviceParameters == <<Active, Context, Find>>
captureDeviceSnapshot == <<Active, Device>>
applyDeviceSnapshot == <<Active, Check, SnapshotDevice, EditEach({"devices"})>>
ensureOnTrack == <<PlaceSidecar>>

ensure_sidecar_on_track == {<<Given, Allowed, Project>> \o ensureOnTrack \o <<Refresh>>}
sidecar_snapshot_selection_context == {snapshotSelectionContext}
sidecar_transform_selected_clip == {<<Allowed, Project>> \o transformSelectedClip \o <<Refresh>>}
sidecar_replace_clip_notes == {<<Given, Allowed, Project>> \o replaceClipNotes \o <<Refresh>>}
sidecar_capture_device_snapshot == {captureDeviceSnapshot}
sidecar_apply_device_snapshot == {<<Allowed, Project>> \o applyDeviceSnapshot \o <<Refresh>>}
sidecar_observe_device_parameters == {observeDeviceParameters}

\* By name, with no policy and no refresh; an unknown name is refused.
run_sidecar_workflow ==
  {snapshotSelectionContext, <<Unchecked>> \o replaceClipNotes, transformSelectedClip,
   observeDeviceParameters, captureDeviceSnapshot, applyDeviceSnapshot,
   <<Given>> \o ensureOnTrack, <<Check>>}

(* Interface automation: no policy, no confirmation, no preview, no refresh. *)
ui_capture_context == {<<Helper({})>>}
ui_focus_section == {<<Check, Helper({"desktop"})>>}
ui_browser_search_and_load == {<<Check, Helper({"desktop", "devices"})>>}
ui_export_audio_video == {<<Helper({"desktop"})>>}
ui_export_with_preset == {<<Check, Helper({"desktop"})>>}
run_ui_workflow == {<<Helper({"desktop", "devices"})>>}
-----------------------------------------------------------------------------
\* The registry: a plan, or several, for each name.
Catalogue ==
  [get_project_summary |-> get_project_summary, get_arrangement_summary |-> get_arrangement_summary,
   get_arrangement_track_details |-> get_arrangement_track_details, get_selected_context |-> get_selected_context,
   select_clip |-> select_clip, list_tracks |-> list_tracks,
   list_mixer_tracks |-> list_mixer_tracks, list_return_tracks |-> list_return_tracks,
   get_master_track |-> get_master_track, get_track_details |-> get_track_details,
   get_device_tree |-> get_device_tree, get_component_status |-> get_component_status,
   get_browser_tree |-> get_browser_tree, get_browser_items |-> get_browser_items,
   set_tempo |-> set_tempo, set_arrangement_transport |-> set_arrangement_transport,
   jump_to_arrangement_clip |-> jump_to_arrangement_clip, play_transport |-> play_transport,
   stop_transport |-> stop_transport, create_track |-> create_track,
   create_return_track |-> create_return_track, create_scene |-> create_scene,
   create_clip |-> create_clip, create_arrangement_clip |-> create_arrangement_clip,
   rename_clip |-> rename_clip, rename_arrangement_clip |-> rename_arrangement_clip,
   duplicate_clip |-> duplicate_clip, duplicate_clip_to_arrangement |-> duplicate_clip_to_arrangement,
   duplicate_arrangement_clip |-> duplicate_arrangement_clip, move_arrangement_clip |-> move_arrangement_clip,
   set_arrangement_clip_bounds |-> set_arrangement_clip_bounds, split_arrangement_clip |-> split_arrangement_clip,
   move_session_clip |-> move_session_clip, set_clip_loop_or_length |-> set_clip_loop_or_length,
   delete_clip |-> delete_clip, delete_arrangement_clip |-> delete_arrangement_clip,
   insert_notes |-> insert_notes, replace_notes |-> replace_notes,
   get_clip_envelopes |-> get_clip_envelopes, show_clip_envelope |-> show_clip_envelope,
   hide_clip_envelope |-> hide_clip_envelope, select_clip_envelope_parameter |-> select_clip_envelope_parameter,
   clear_clip_envelope |-> clear_clip_envelope, clear_all_clip_envelopes |-> clear_all_clip_envelopes,
   set_clip_envelope |-> set_clip_envelope, launch_clip |-> launch_clip,
   launch_scene |-> launch_scene, stop_track_clips |-> stop_track_clips,
   stop_all_clips |-> stop_all_clips, set_track_volume |-> set_track_volume,
   set_track_panning |-> set_track_panning, set_send_level |-> set_send_level,
   set_monitor_state |-> set_monitor_state, set_track_routing |-> set_track_routing,
   set_parameter |-> set_parameter, load_browser_item |-> load_browser_item,
   list_sidecar_workflows |-> list_sidecar_workflows, ensure_sidecar_on_track |-> ensure_sidecar_on_track,
   sidecar_snapshot_selection_context |-> sidecar_snapshot_selection_context,
   sidecar_transform_selected_clip |-> sidecar_transform_selected_clip,
   sidecar_replace_clip_notes |-> sidecar_replace_clip_notes,
   sidecar_capture_device_snapshot |-> sidecar_capture_device_snapshot,
   sidecar_apply_device_snapshot |-> sidecar_apply_device_snapshot,
   sidecar_observe_device_parameters |-> sidecar_observe_device_parameters,
   run_sidecar_workflow |-> run_sidecar_workflow, list_ui_workflows |-> list_ui_workflows,
   ui_capture_context |-> ui_capture_context, ui_focus_section |-> ui_focus_section,
   ui_browser_search_and_load |-> ui_browser_search_and_load, ui_export_audio_video |-> ui_export_audio_video,
   ui_export_with_preset |-> ui_export_with_preset, run_ui_workflow |-> run_ui_workflow,
   refresh_state |-> refresh_state, get_capabilities |-> get_capabilities]

\* The tools whose schema has dryRun, and, by its parameters, one that passes it on.
WithPreview ==
  {"select_clip", "set_tempo", "set_arrangement_transport", "jump_to_arrangement_clip",
   "play_transport", "stop_transport", "create_track", "create_return_track",
   "create_scene", "create_clip", "create_arrangement_clip", "rename_clip",
   "rename_arrangement_clip", "duplicate_clip", "duplicate_clip_to_arrangement",
   "duplicate_arrangement_clip", "move_arrangement_clip", "set_arrangement_clip_bounds",
   "split_arrangement_clip", "move_session_clip", "set_clip_loop_or_length",
   "delete_clip", "delete_arrangement_clip", "insert_notes", "replace_notes",
   "show_clip_envelope", "hide_clip_envelope", "select_clip_envelope_parameter",
   "clear_clip_envelope", "clear_all_clip_envelopes", "set_clip_envelope",
   "launch_clip", "launch_scene", "stop_track_clips", "stop_all_clips",
   "set_track_volume", "set_track_panning", "set_send_level", "set_monitor_state",
   "set_track_routing", "set_parameter", "load_browser_item", "ensure_sidecar_on_track",
   "sidecar_transform_selected_clip", "sidecar_replace_clip_notes",
   "sidecar_apply_device_snapshot", "run_sidecar_workflow"}

\* The results that buildMutationResult makes: with the versions before and after.
WithVersions == (WithPreview \ {"run_sidecar_workflow"}) \cup {"refresh_state"}
=============================================================================
