-------------------------- MODULE ToolCatalogProofs --------------------------
(***************************************************************************)
(* Of the server's own tools: their plans have the form that the pipeline  *)
(* needs, so that what ToolPipelineProofs proves of any such catalogue is  *)
(* true of this one, for every set of objects, names and rearrangements.   *)
(***************************************************************************)
EXTENDS ToolPipelineProofs, ToolCatalog

\* ConfirmedFirst, ChecksFirst and RefreshedLast, of one plan of a tool.
Formed(tool, plan) ==
  /\ \A i \in DOMAIN plan :
       /\ "clips" \in plan[i].removes => \E j \in 1..i - 1 : plan[j].kind = "confirm"
       /\ plan[i].kind \in Refusing =>
            \A j \in 1..i : plan[j].changes \subseteq Tolerated(tool, plan)
  /\ tool \in WithVersions /\ plan # <<>> => plan[Len(plan)].kind = "refresh"

AllFormed(tool, plans) == \A plan \in plans : Formed(tool, plan)

\* A step that edits nothing.
Look(step) == step.changes = {} /\ step.removes = {}

\* Every step but the edits, the placement and the helper.
LEMMA LookFacts ==
  /\ Look(Check) /\ Look(Given) /\ Look(Unchecked) /\ Look(Confirm) /\ Look(Allowed)
  /\ Look(Project) /\ Look(Arrangement) /\ Look(Tracks) /\ Look(Context) /\ Look(Ask)
  /\ Look(Refresh) /\ Look(Find) /\ Look(Track) /\ Look(Send) /\ Look(Parameter)
  /\ Look(Value) /\ Look(Routing) /\ Look(IsArrangementClip) /\ Look(Active)
  /\ Look(SelectedClip) /\ Look(ClipNotes) /\ Look(Device) /\ Look(SnapshotDevice)
<1>1. ASSUME NEW kind PROVE Look(Step(kind))
  BY DEF Look, Step
<1> QED
  BY <1>1 DEF Check, Given, Unchecked, Confirm, Allowed, Project, Arrangement, Tracks, Context, Ask,
     Refresh, Find, Track, Send, Parameter, Value, Routing, IsArrangementClip, Active, SelectedClip,
     ClipNotes, Device, SnapshotDevice

LEMMA KindFacts ==
  /\ Confirm.kind = "confirm" /\ Refresh.kind = "refresh" /\ Allowed.kind = "allowed"
  /\ Project.kind = "read" /\ Arrangement.kind = "read" /\ Unchecked.kind = "unchecked"
  /\ Active.kind = "setup" /\ SelectedClip.kind = "selected_clip"
  /\ PlaceSidecar.kind = "place"
BY DEF Confirm, Refresh, Allowed, Project, Arrangement, Unchecked, Active, SelectedClip,
  PlaceSidecar, Step

LEMMA EditFacts ==
  ASSUME NEW aspects
  PROVE  /\ Edit(aspects).kind = "edit" /\ Edit(aspects).changes = aspects
         /\ Edit(aspects).removes = {}
         /\ Remove(aspects).kind = "edit" /\ Remove(aspects).changes = aspects
         /\ Remove(aspects).removes = aspects
         /\ EditWet(aspects).kind = "edit_wet" /\ EditWet(aspects).removes = {}
         /\ EditEach(aspects).kind = "edit_each" /\ EditEach(aspects).changes = aspects
         /\ EditEach(aspects).removes = {}
         /\ Helper(aspects).kind = "helper" /\ Helper(aspects).removes = {}
         /\ PlaceSidecar.removes = {}
BY DEF Edit, Remove, EditWet, EditEach, Helper, PlaceSidecar

\* Looks up to the n-th step, and no refusal after it.
Careful(plan, n) ==
  /\ DOMAIN plan = 1..Len(plan) /\ Len(plan) \in Nat
  /\ \A i \in DOMAIN plan : IF i <= n THEN Look(plan[i]) ELSE plan[i].kind \notin Refusing
  /\ \A i \in DOMAIN plan : i > n /\ "clips" \in plan[i].removes =>
       \E j \in 1..n : plan[j].kind = "confirm"

LEMMA CarefulFormed ==
  ASSUME NEW tool, NEW plan, NEW n \in Nat, Careful(plan, n),
         tool \in WithVersions /\ plan # <<>> => plan[Len(plan)].kind = "refresh"
  PROVE  Formed(tool, plan)
<1>1. ASSUME NEW i \in DOMAIN plan, "clips" \in plan[i].removes
      PROVE  \E j \in 1..i - 1 : plan[j].kind = "confirm"
  <2>1. i > n /\ i \in Nat
    BY <1>1 DEF Careful, Look
  <2>2. PICK j \in 1..n : plan[j].kind = "confirm"
    BY <1>1, <2>1 DEF Careful
  <2> QED
    BY <2>1, <2>2
<1>2. ASSUME NEW i \in DOMAIN plan, plan[i].kind \in Refusing, NEW j \in 1..i
      PROVE  plan[j].changes \subseteq Tolerated(tool, plan)
  <2>1. i <= n /\ i \in 1..Len(plan) /\ Len(plan) \in Nat
    BY <1>2 DEF Careful
  <2>2. j \in DOMAIN plan /\ j <= n
    BY <2>1 DEF Careful
  <2>3. plan[j].changes = {}
    BY <2>2 DEF Careful, Look
  <2> QED
    BY <2>3
<1> QED
  BY <1>1, <1>2 DEF Formed
-----------------------------------------------------------------------------
(* The form of nearly every tool that edits: looks, an edit, and a snapshot. *)

\* An edit that deletes no clip.
Mild(step) == step.kind = "edit" /\ "clips" \notin step.removes

LEMMA TwoLooks ==
  ASSUME NEW tool, NEW edit, Mild(edit), NEW a, NEW b,
         Look(a), Look(b)
  PROVE  AllFormed(tool, {<<a, b, edit, Refresh>>})
<1> DEFINE plan == <<a, b, edit, Refresh>>
<1>1. Careful(plan, 2)
  BY LookFacts, KindFacts DEF Careful, Look, Mild, Refusing
<1>2. plan[Len(plan)].kind = "refresh"
  BY KindFacts
<1> QED
  BY <1>1, <1>2, CarefulFormed DEF AllFormed

LEMMA ThreeLooks ==
  ASSUME NEW tool, NEW edit, Mild(edit), NEW a, NEW b, NEW c,
         Look(a), Look(b), Look(c)
  PROVE  AllFormed(tool, {<<a, b, c, edit, Refresh>>})
<1> DEFINE plan == <<a, b, c, edit, Refresh>>
<1>1. Careful(plan, 3)
  BY LookFacts, KindFacts DEF Careful, Look, Mild, Refusing
<1>2. plan[Len(plan)].kind = "refresh"
  BY KindFacts
<1> QED
  BY <1>1, <1>2, CarefulFormed DEF AllFormed

LEMMA FourLooks ==
  ASSUME NEW tool, NEW edit, Mild(edit), NEW a, NEW b, NEW c, NEW d,
         Look(a), Look(b), Look(c), Look(d)
  PROVE  AllFormed(tool, {<<a, b, c, d, edit, Refresh>>})
<1> DEFINE plan == <<a, b, c, d, edit, Refresh>>
<1>1. Careful(plan, 4)
  BY LookFacts, KindFacts DEF Careful, Look, Mild, Refusing
<1>2. plan[Len(plan)].kind = "refresh"
  BY KindFacts
<1> QED
  BY <1>1, <1>2, CarefulFormed DEF AllFormed

LEMMA FiveLooks ==
  ASSUME NEW tool, NEW edit, Mild(edit), NEW a, NEW b, NEW c, NEW d, NEW e,
         Look(a), Look(b), Look(c), Look(d), Look(e)
  PROVE  AllFormed(tool, {<<a, b, c, d, e, edit, Refresh>>})
<1> DEFINE plan == <<a, b, c, d, e, edit, Refresh>>
<1>1. Careful(plan, 5)
  BY LookFacts, KindFacts DEF Careful, Look, Mild, Refusing
<1>2. plan[Len(plan)].kind = "refresh"
  BY KindFacts
<1> QED
  BY <1>1, <1>2, CarefulFormed DEF AllFormed

LEMMA SixLooks ==
  ASSUME NEW tool, NEW edit, Mild(edit), NEW a, NEW b, NEW c, NEW d, NEW e, NEW f,
         Look(a), Look(b), Look(c), Look(d), Look(e), Look(f)
  PROVE  AllFormed(tool, {<<a, b, c, d, e, f, edit, Refresh>>})
<1> DEFINE plan == <<a, b, c, d, e, f, edit, Refresh>>
<1>1. Careful(plan, 6)
  BY LookFacts, KindFacts DEF Careful, Look, Mild, Refusing
<1>2. plan[Len(plan)].kind = "refresh"
  BY KindFacts
<1> QED
  BY <1>1, <1>2, CarefulFormed DEF AllFormed

LEMMA ConfirmedLooks ==
  ASSUME NEW tool, NEW edit, edit.kind = "edit", NEW a, NEW b, NEW c, Look(a), Look(b), Look(c)
  PROVE  AllFormed(tool, {<<a, Confirm, b, c, edit, Refresh>>})
<1> DEFINE plan == <<a, Confirm, b, c, edit, Refresh>>
<1>1. Careful(plan, 4)
  BY LookFacts, KindFacts DEF Careful, Refusing
<1>2. plan[Len(plan)].kind = "refresh"
  BY KindFacts
<1> QED
  BY <1>1, <1>2, CarefulFormed DEF AllFormed

LEMMA MildFacts ==
  /\ \A aspects : Mild(Edit(aspects))
  /\ Mild(Remove({"notes"}))
BY EditFacts DEF Mild
-----------------------------------------------------------------------------
(* The tools. *)

\* The reads name no version.
LEMMA ReadFormed ==
  ASSUME NEW tool, tool \notin WithVersions, NEW a, NEW b, Look(a), Look(b)
  PROVE  AllFormed(tool, {<<a>>}) /\ AllFormed(tool, {<<a, b>>}) /\ AllFormed(tool, {<<>>})
BY DEF AllFormed, Formed, Look

\* Writing an envelope, with the clearing that may come first.
LEMMA EnvelopeWrite == AllFormed("set_clip_envelope", set_clip_envelope)
<1> DEFINE plain == Edit({"envelopes", "selection"})
           cleared == [plain EXCEPT !.removes = {"envelopes"}]
<1>1. Mild(plain) /\ Mild(cleared)
  BY DEF Mild, Edit
<1>2. \A write \in {plain, cleared} :
        AllFormed("set_clip_envelope", {<<Given, Allowed, Project, write, Refresh>>})
  <2> HIDE DEF plain, cleared
  <2> QED
    BY <1>1, ThreeLooks, LookFacts
<1> QED
  BY <1>2 DEF set_clip_envelope, AllFormed

\* A jump selects the clip and may then refuse it: only the selection has changed.
LEMMA JumpTool == AllFormed("jump_to_arrangement_clip", jump_to_arrangement_clip)
<1> DEFINE tool == "jump_to_arrangement_clip"
           select == Edit({"selection"})
           start == EditWet({"song"})
           short == <<Given, Allowed, Arrangement, select, IsArrangementClip, start, Refresh>>
           long == <<Given, Allowed, Arrangement, select, IsArrangementClip, start, start, Refresh>>
<1>1. /\ select.changes = {"selection"} /\ select.removes = {}
      /\ start.kind = "edit_wet" /\ start.removes = {}
      /\ Given.kind = "given" /\ IsArrangementClip.kind = "check" /\ select.kind = "edit"
  BY DEF Edit, EditWet, Given, IsArrangementClip, Step
<1>2. jump_to_arrangement_clip = {short, long}
  BY DEF jump_to_arrangement_clip
<1> HIDE DEF select, start
<1>3. Tolerated(tool, short) = {"selection"} /\ Tolerated(tool, long) = {"selection"}
  BY <1>1, KindFacts DEF Tolerated, Kinds
<1>4. Formed(tool, short)
  BY <1>1, <1>3, LookFacts, KindFacts DEF Formed, Look, Refusing
<1>5. Formed(tool, long)
  BY <1>1, <1>3, LookFacts, KindFacts DEF Formed, Look, Refusing
<1> QED
  BY <1>2, <1>4, <1>5 DEF AllFormed

\* A snapshot's parameters are looked up while it is applied: only devices have changed.
LEMMA SnapshotTool ==
  /\ AllFormed("sidecar_apply_device_snapshot", sidecar_apply_device_snapshot)
  /\ Formed("run_sidecar_workflow", applyDeviceSnapshot)
<1> DEFINE each == EditEach({"devices"})
           plan == <<Allowed, Project, Active, Check, SnapshotDevice, each, Refresh>>
           inner == <<Active, Check, SnapshotDevice, each>>
<1>1. each.kind = "edit_each" /\ each.changes = {"devices"} /\ each.removes = {}
  BY EditFacts
<1>2. /\ sidecar_apply_device_snapshot = {plan} /\ applyDeviceSnapshot = inner
      /\ "run_sidecar_workflow" \notin WithVersions
  BY DEF sidecar_apply_device_snapshot, applyDeviceSnapshot, WithVersions
<1> HIDE DEF each
<1>3. \A tool : Tolerated(tool, plan) = {"devices"} /\ Tolerated(tool, inner) = {"devices"}
  <2>1. plan[6] = each /\ 6 \in DOMAIN plan /\ inner[4] = each /\ 4 \in DOMAIN inner
    OBVIOUS
  <2> QED
    BY <1>1, <2>1 DEF Tolerated, Kinds
<1>4. Formed("sidecar_apply_device_snapshot", plan)
  BY <1>1, <1>3, LookFacts, KindFacts DEF Formed, Look
<1>5. Formed("run_sidecar_workflow", inner)
  BY <1>1, <1>2, <1>3, LookFacts DEF Formed, Look
<1> QED
  BY <1>2, <1>4, <1>5 DEF AllFormed

\* The rest of the sidecar's tools.
LEMMA SidecarTools ==
  /\ AllFormed("ensure_sidecar_on_track", ensure_sidecar_on_track)
  /\ AllFormed("sidecar_snapshot_selection_context", sidecar_snapshot_selection_context)
  /\ AllFormed("sidecar_transform_selected_clip", sidecar_transform_selected_clip)
  /\ AllFormed("sidecar_replace_clip_notes", sidecar_replace_clip_notes)
  /\ AllFormed("sidecar_capture_device_snapshot", sidecar_capture_device_snapshot)
  /\ AllFormed("sidecar_observe_device_parameters", sidecar_observe_device_parameters)
<1> DEFINE replace == Remove({"notes"})
           ensure == <<Given, Allowed, Project, PlaceSidecar, Refresh>>
           transform == <<Allowed, Project, Active, Check, SelectedClip, ClipNotes, replace, Refresh>>
           write == <<Given, Allowed, Project, Active, replace, Refresh>>
<1>1. /\ ensure_sidecar_on_track = {ensure}
      /\ sidecar_transform_selected_clip = {transform} /\ sidecar_replace_clip_notes = {write}
  BY DEF ensure_sidecar_on_track, ensureOnTrack, sidecar_transform_selected_clip,
     transformSelectedClip, sidecar_replace_clip_notes, replaceClipNotes
<1>2. replace.kind = "edit" /\ "clips" \notin replace.removes
  BY EditFacts
<1>3. PlaceSidecar.kind = "place" /\ PlaceSidecar.removes = {}
  BY EditFacts, KindFacts
<1> HIDE DEF replace
<1>4. Formed("ensure_sidecar_on_track", ensure)
  <2>1. Careful(ensure, 3) /\ ensure[Len(ensure)] = Refresh
    BY <1>3, LookFacts, KindFacts DEF Careful, Look, Refusing
  <2> QED
    BY <2>1, KindFacts, CarefulFormed
<1>5. Formed("sidecar_transform_selected_clip", transform)
  <2>1. Careful(transform, 6) /\ transform[Len(transform)] = Refresh
    BY <1>2, LookFacts, KindFacts DEF Careful, Look, Refusing
  <2> QED
    BY <2>1, KindFacts, CarefulFormed
<1>6. Formed("sidecar_replace_clip_notes", write)
  <2>1. Careful(write, 4) /\ write[Len(write)] = Refresh
    BY <1>2, LookFacts, KindFacts DEF Careful, Look, Refusing
  <2> QED
    BY <2>1, KindFacts, CarefulFormed
<1>7. \A tool : tool \notin WithVersions =>
        /\ Formed(tool, snapshotSelectionContext) /\ Formed(tool, captureDeviceSnapshot)
        /\ Formed(tool, observeDeviceParameters)
  BY LookFacts DEF Formed, Look, snapshotSelectionContext, captureDeviceSnapshot,
     observeDeviceParameters
<1>8. {"sidecar_snapshot_selection_context", "sidecar_capture_device_snapshot",
       "sidecar_observe_device_parameters"} \cap WithVersions = {}
  BY DEF WithVersions, WithPreview
<1> QED
  BY <1>1, <1>4, <1>5, <1>6, <1>7, <1>8
  DEF AllFormed, sidecar_snapshot_selection_context, sidecar_capture_device_snapshot,
      sidecar_observe_device_parameters

\* By name: the same workflows, whose results name no version.
LEMMA WorkflowTool == AllFormed("run_sidecar_workflow", run_sidecar_workflow)
<1> DEFINE tool == "run_sidecar_workflow"
           replace == Remove({"notes"})
           write == <<Unchecked, Active, replace>>
           transform == <<Active, Check, SelectedClip, ClipNotes, replace>>
           ensure == <<Given, PlaceSidecar>>
<1>1. tool \notin WithVersions
  BY DEF WithVersions
<1>2. run_sidecar_workflow = {snapshotSelectionContext, write, transform, observeDeviceParameters,
                              captureDeviceSnapshot, applyDeviceSnapshot, ensure, <<Check>>}
  BY DEF run_sidecar_workflow, replaceClipNotes, transformSelectedClip, ensureOnTrack
<1>3. /\ replace.kind = "edit" /\ "clips" \notin replace.removes
      /\ PlaceSidecar.kind = "place" /\ PlaceSidecar.removes = {}
  BY EditFacts, KindFacts
<1> HIDE DEF replace
<1>4. Careful(write, 2) /\ Careful(transform, 4) /\ Careful(ensure, 1)
  BY <1>3, LookFacts, KindFacts DEF Careful, Look, Refusing
<1>5. Formed(tool, write) /\ Formed(tool, transform) /\ Formed(tool, ensure)
  BY <1>1, <1>4, CarefulFormed
<1>6. /\ Formed(tool, snapshotSelectionContext) /\ Formed(tool, captureDeviceSnapshot)
      /\ Formed(tool, observeDeviceParameters) /\ Formed(tool, <<Check>>)
  BY <1>1, LookFacts DEF Formed, Look, snapshotSelectionContext, captureDeviceSnapshot,
     observeDeviceParameters
<1> QED
  BY <1>2, <1>5, <1>6, SnapshotTool DEF AllFormed

\* The tools that automate the interface have nothing to refuse once they begin.
LEMMA HelperTools ==
  /\ AllFormed("ui_capture_context", ui_capture_context)
  /\ AllFormed("ui_focus_section", ui_focus_section)
  /\ AllFormed("ui_browser_search_and_load", ui_browser_search_and_load)
  /\ AllFormed("ui_export_audio_video", ui_export_audio_video)
  /\ AllFormed("ui_export_with_preset", ui_export_with_preset)
  /\ AllFormed("run_ui_workflow", run_ui_workflow)
<1>1. {"ui_capture_context", "ui_focus_section", "ui_browser_search_and_load",
       "ui_export_audio_video", "ui_export_with_preset", "run_ui_workflow"} \cap WithVersions = {}
  BY DEF WithVersions, WithPreview
<1>2. ASSUME NEW tool, tool \notin WithVersions, NEW aspects
      PROVE  AllFormed(tool, {<<Helper(aspects)>>}) /\ AllFormed(tool, {<<Check, Helper(aspects)>>})
  <2>1. Careful(<<Helper(aspects)>>, 0) /\ Careful(<<Check, Helper(aspects)>>, 1)
    BY LookFacts, EditFacts DEF Careful, Refusing
  <2> QED
    BY <1>2, <2>1, CarefulFormed DEF AllFormed
<1> QED
  BY <1>1, <1>2 DEF ui_capture_context, ui_focus_section, ui_browser_search_and_load,
     ui_export_audio_video, ui_export_with_preset, run_ui_workflow
-----------------------------------------------------------------------------
\* Every tool of the registry has plans of the form.
LEMMA CatalogueFormed == \A tool \in DOMAIN Catalogue : AllFormed(tool, Catalogue[tool])
\* The reads, and a snapshot that is asked for.
<1>1. {"get_project_summary", "get_arrangement_summary", "get_arrangement_track_details",
       "get_selected_context", "list_tracks", "list_mixer_tracks", "list_return_tracks",
       "get_master_track", "get_track_details", "get_device_tree", "get_component_status",
       "get_browser_tree", "get_browser_items", "get_clip_envelopes", "list_sidecar_workflows",
       "list_ui_workflows", "get_capabilities"} \cap WithVersions = {}
  BY DEF WithVersions, WithPreview
<1>2. /\ AllFormed("get_project_summary", get_project_summary)
      /\ AllFormed("get_arrangement_summary", get_arrangement_summary)
      /\ AllFormed("get_arrangement_track_details", get_arrangement_track_details)
      /\ AllFormed("get_selected_context", get_selected_context)
      /\ AllFormed("list_tracks", list_tracks)
      /\ AllFormed("list_mixer_tracks", list_mixer_tracks)
  BY <1>1, ReadFormed, LookFacts DEF get_project_summary, get_arrangement_summary,
     get_arrangement_track_details, get_selected_context, list_tracks, list_mixer_tracks
<1>3. /\ AllFormed("list_return_tracks", list_return_tracks)
      /\ AllFormed("get_master_track", get_master_track)
      /\ AllFormed("get_track_details", get_track_details)
      /\ AllFormed("get_device_tree", get_device_tree)
      /\ AllFormed("get_component_status", get_component_status)
      /\ AllFormed("get_browser_tree", get_browser_tree)
  BY <1>1, ReadFormed, LookFacts DEF list_return_tracks, get_master_track, get_track_details,
     get_device_tree, get_component_status, get_browser_tree
<1>4. /\ AllFormed("get_browser_items", get_browser_items)
      /\ AllFormed("get_clip_envelopes", get_clip_envelopes)
      /\ AllFormed("list_sidecar_workflows", list_sidecar_workflows)
      /\ AllFormed("list_ui_workflows", list_ui_workflows)
      /\ AllFormed("get_capabilities", get_capabilities)
  BY <1>1, ReadFormed, LookFacts DEF get_browser_items, get_clip_envelopes,
     list_sidecar_workflows, list_ui_workflows, get_capabilities
<1>5. AllFormed("refresh_state", refresh_state)
  <2>1. Careful(<<Refresh>>, 1) /\ <<Refresh>>[Len(<<Refresh>>)] = Refresh
    BY LookFacts DEF Careful
  <2> QED
    BY <2>1, KindFacts, CarefulFormed DEF refresh_state, AllFormed
\* The song, tracks and scenes.
<1>6. /\ AllFormed("set_tempo", set_tempo)
      /\ AllFormed("set_arrangement_transport", set_arrangement_transport)
      /\ AllFormed("select_clip", select_clip)
  BY ThreeLooks, LookFacts, MildFacts DEF set_tempo, set_arrangement_transport, select_clip
<1>7. /\ AllFormed("play_transport", play_transport)
      /\ AllFormed("stop_transport", stop_transport)
      /\ AllFormed("create_track", create_track)
      /\ AllFormed("create_return_track", create_return_track)
      /\ AllFormed("create_scene", create_scene)
  BY TwoLooks, LookFacts, MildFacts DEF play_transport, stop_transport, create_track,
     create_return_track, create_scene
\* Clips and notes.
<1>8. /\ AllFormed("create_clip", create_clip)
      /\ AllFormed("create_arrangement_clip", create_arrangement_clip)
      /\ AllFormed("rename_clip", rename_clip)
      /\ AllFormed("rename_arrangement_clip", rename_arrangement_clip)
      /\ AllFormed("duplicate_clip_to_arrangement", duplicate_clip_to_arrangement)
      /\ AllFormed("duplicate_arrangement_clip", duplicate_arrangement_clip)
      /\ AllFormed("move_arrangement_clip", move_arrangement_clip)
      /\ AllFormed("set_arrangement_clip_bounds", set_arrangement_clip_bounds)
  BY ThreeLooks, LookFacts, MildFacts DEF create_clip, create_arrangement_clip, rename_clip,
     rename_arrangement_clip, duplicate_clip_to_arrangement, duplicate_arrangement_clip,
     move_arrangement_clip, set_arrangement_clip_bounds
<1>9. /\ AllFormed("split_arrangement_clip", split_arrangement_clip)
      /\ AllFormed("move_session_clip", move_session_clip)
      /\ AllFormed("set_clip_loop_or_length", set_clip_loop_or_length)
      /\ AllFormed("insert_notes", insert_notes)
      /\ AllFormed("replace_notes", replace_notes)
  BY ThreeLooks, LookFacts, MildFacts DEF split_arrangement_clip, move_session_clip,
     set_clip_loop_or_length, insert_notes, replace_notes
<1>10. /\ AllFormed("duplicate_clip", duplicate_clip)
       /\ AllFormed("delete_clip", delete_clip)
       /\ AllFormed("delete_arrangement_clip", delete_arrangement_clip)
  BY ConfirmedLooks, LookFacts, EditFacts DEF duplicate_clip, delete_clip,
     delete_arrangement_clip
\* Envelopes and playback.
<1>11. /\ AllFormed("show_clip_envelope", show_clip_envelope)
       /\ AllFormed("hide_clip_envelope", hide_clip_envelope)
       /\ AllFormed("select_clip_envelope_parameter", select_clip_envelope_parameter)
       /\ AllFormed("launch_clip", launch_clip)
       /\ AllFormed("launch_scene", launch_scene)
       /\ AllFormed("stop_track_clips", stop_track_clips)
  BY ThreeLooks, LookFacts, MildFacts DEF show_clip_envelope, hide_clip_envelope,
     select_clip_envelope_parameter, launch_clip, launch_scene, stop_track_clips
<1>12. /\ AllFormed("clear_clip_envelope", clear_clip_envelope)
       /\ AllFormed("clear_all_clip_envelopes", clear_all_clip_envelopes)
  BY ConfirmedLooks, LookFacts, EditFacts DEF clear_clip_envelope, clear_all_clip_envelopes
<1>13. AllFormed("stop_all_clips", stop_all_clips)
  BY TwoLooks, LookFacts, MildFacts DEF stop_all_clips
\* The mixer and the devices.
<1>14. /\ AllFormed("set_track_volume", set_track_volume)
       /\ AllFormed("set_track_panning", set_track_panning)
       /\ AllFormed("set_monitor_state", set_monitor_state)
  BY FourLooks, LookFacts, MildFacts DEF set_track_volume, set_track_panning, set_monitor_state
<1>15. /\ AllFormed("set_send_level", set_send_level)
       /\ AllFormed("set_parameter", set_parameter)
  BY FiveLooks, LookFacts, MildFacts DEF set_send_level, set_parameter
<1>16. AllFormed("set_track_routing", set_track_routing)
  BY SixLooks, LookFacts, MildFacts DEF set_track_routing
<1>17. AllFormed("load_browser_item", load_browser_item)
  BY ThreeLooks, LookFacts, MildFacts DEF load_browser_item
<1> QED
  BY <1>2, <1>3, <1>4, <1>5, <1>6, <1>7, <1>8, <1>9, <1>10, <1>11, <1>12, <1>13, <1>14, <1>15, <1>16, <1>17,
     EnvelopeWrite, JumpTool, SnapshotTool, SidecarTools, WorkflowTool, HelperTools
  DEF Catalogue

\* The conditions of ToolPipeline's theorems hold of the registry.
LEMMA RegistryForm ==
  ASSUME Plans = Catalogue, Versioned = WithVersions
  PROVE  ConfirmedFirst /\ ChecksFirst /\ RefreshedLast
<1>1. \A tool \in Tools : \A plan \in Plans[tool] : Formed(tool, plan)
  BY CatalogueFormed DEF Tools, AllFormed
<1>2. ConfirmedFirst
  BY <1>1 DEF ConfirmedFirst, AllPlans, Formed
<1>3. ChecksFirst
  BY <1>1 DEF ChecksFirst, Formed
<1>4. RefreshedLast
  BY <1>1 DEF RefreshedLast, Formed
<1> QED
  BY <1>2, <1>3, <1>4

(* The server's tools delete no clip that the caller did not confirm, and a
   preview of any of them changes nothing. *)
THEOREM ToolsAskFirst == Plans = Catalogue /\ Versioned = WithVersions => (Spec => []Consent)
<1> SUFFICES ASSUME Plans = Catalogue, Versioned = WithVersions PROVE Spec => []Consent
  OBVIOUS
<1>1. ConfirmedFirst
  BY RegistryForm
<1> QED
  BY <1>1, NothingWithoutConsent, PTL

(* A tool of the server that is refused by the server has changed nothing, but
   for the selection a jump has made and the parameters a snapshot has set. *)
THEOREM ToolsCheckFirst ==
  Plans = Catalogue /\ Versioned = WithVersions => (Spec => []RefusalChangesNothing)
<1> SUFFICES ASSUME Plans = Catalogue, Versioned = WithVersions
             PROVE  Spec => []RefusalChangesNothing
  OBVIOUS
<1>1. ChecksFirst
  BY RegistryForm
<1> QED
  BY <1>1, RefusalsChangeNothing, PTL

(* The version that a tool of the server answers is of a mirror that shows what
   the tool changed. *)
THEOREM ToolsShowTheirWork ==
  Plans = Catalogue /\ Versioned = WithVersions => (Spec => []SuccessIsShown)
<1> SUFFICES ASSUME Plans = Catalogue, Versioned = WithVersions PROVE Spec => []SuccessIsShown
  OBVIOUS
<1>1. RefreshedLast
  BY RegistryForm
<1> QED
  BY <1>1, SuccessShows, PTL
=============================================================================
