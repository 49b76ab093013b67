---------------------------- MODULE ToolPipeline ----------------------------
(***************************************************************************)
(* A tool's call, step by step: each step awaits something, and between    *)
(* two steps the user may rearrange the set.  An id is a position: what a  *)
(* caller, or a lookup, took from the mirror names whatever Live has at    *)
(* that position when the edit arrives.                                    *)
(*                                                                         *)
(* Kept of the set: the order of the objects tools can target, and which   *)
(* aspects a call has changed.  The socket and the sessions behind a read  *)
(* are BridgeSession's: here a read may find the mirror replaced, and any  *)
(* exchange may fail.                                                      *)
(***************************************************************************)
EXTENDS NameResolution

CONSTANTS
  Targets,       \* the objects: tracks, with the clips and devices at them
  NameOf,        \* the name of each
  Returns,       \* those that are return tracks, which have indexes of their own
  InitialOrder,  \* their order in Live
  MaxEdits,      \* how often the user rearranges the set
  Plans,         \* the plans of each tool: ToolCatalog
  Previewable,   \* the tools that take dryRun
  Versioned      \* the tools whose result names the state after the call

ASSUME TargetAssumption ==
  /\ \A t \in Targets : NameOf[t] # <<>>
  /\ InitialOrder \in Seq(Targets)
  /\ MaxEdits \in Nat

VARIABLES
  live,      \* the objects in Live, in their order
  mirror,    \* as of the last snapshot
  edits,     \* rearrangements made
  call,      \* the call: its tool, plan and arguments
  at,        \* the step of the plan that is next
  pos,       \* the position the call acts on; 0 while it has none
  drift,     \* Live was not as the mirror had it, at some time in the call
  changed,   \* aspects of the set this call has changed
  removed,   \* aspects it has removed something from
  shown,     \* what of changed the last snapshot of the call has read
  reply      \* "idle", "running", "ok", or the code of an error

vars == <<live, mirror, edits, call, at, pos, drift, changed, removed, shown, reply>>
setVars == <<live, mirror, edits, drift>>
effectVars == <<changed, removed, shown>>

Tools == DOMAIN Plans
AllPlans == UNION {Plans[tool] : tool \in Tools}
Present(order) == {order[i] : i \in DOMAIN order}
Kinds(plan) == {plan[i].kind : i \in DOMAIN plan}
TargetKinds == {"given", "unchecked", "track", "parameter", "selected_clip", "device", "snapshot_device"}
Targeted(plan) == Kinds(plan) \cap TargetKinds # {}

\* By id: a position of the mirror.  By name: any alias of an object that is there.
ById == {[by |-> "id", pos |-> i, name |-> <<>>, want |-> {mirror[i]}] : i \in DOMAIN mirror}
ByName == UNION {{[by |-> "name", pos |-> 0, name |-> n, want |-> {o}] :
                    n \in Aliases(NameOf[o])} : o \in Present(live)}
Untargeted == {[by |-> "none", pos |-> 0, name |-> <<>>, want |-> {}]}

\* An index counts the tracks of one section: it is a visible track's, and a return's.
\* The master, which has none, is not among the targets.
IndexOf(order, i) == Cardinality({j \in 1..i - 1 : (order[j] \in Returns) = (order[i] \in Returns)})
WithIndex(order, index) == {i \in DOMAIN order : IndexOf(order, i) = index}
ByIndex == {[by |-> "index", pos |-> index, name |-> <<>>,
             want |-> {mirror[i] : i \in WithIndex(mirror, index)}] : index \in 0..Len(mirror)}

Arguments(plan) ==
  LET resolves(kinds) == Kinds(plan) \cap kinds # {}
  IN UNION {Untargeted,
            IF Targeted(plan) THEN ById ELSE {},
            IF resolves({"track", "parameter", "device", "snapshot_device"}) THEN ByName ELSE {},
            IF resolves({"parameter"}) THEN ByIndex ELSE {}}

\* What every plan is: a step removes only what it changes; the desktop is
\* automated by tools that name no target.
ASSUME PlanAssumption ==
  \A plan \in AllPlans :
    /\ plan \in Seq({plan[i] : i \in DOMAIN plan})
    /\ \A i \in DOMAIN plan :
         /\ DOMAIN plan[i] = {"kind", "changes", "removes"}
         /\ plan[i].removes \subseteq plan[i].changes
         /\ plan[i].kind = "place" => plan[i].removes = {}
         /\ plan[i].kind = "helper" => ~Targeted(plan)

NoCall == [tool |-> "none", plan |-> <<>>, dry |-> FALSE, confirm |-> FALSE,
           by |-> "none", pos |-> 0, name |-> <<>>, want |-> {}]

Init ==
  /\ live = InitialOrder /\ mirror = InitialOrder
  /\ edits = 0
  /\ call = NoCall /\ reply = "idle"
  /\ at = 1 /\ pos = 0 /\ drift = FALSE
  /\ changed = {} /\ removed = {} /\ shown = {}

\* The server serves one call at a time.
Call(tool) ==
  /\ reply = "idle"
  /\ \E plan \in Plans[tool],
        dry \in IF tool \in Previewable THEN BOOLEAN ELSE {FALSE} :
       \E confirm \in IF "confirm" \in Kinds(plan) THEN BOOLEAN ELSE {FALSE},
          args \in Arguments(plan) :
         /\ call' = [tool |-> tool, plan |-> plan, dry |-> dry, confirm |-> confirm,
                     by |-> args.by, pos |-> args.pos, name |-> args.name, want |-> args.want]
         /\ pos' = IF args.by = "id" THEN args.pos ELSE 0
         /\ reply' = IF plan = <<>> THEN "ok" ELSE "running"
  /\ at' = 1
  /\ drift' = (mirror # live)
  /\ changed' = {} /\ removed' = {} /\ shown' = {}
  /\ UNCHANGED <<live, mirror, edits>>

\* The result, or the error, goes to the caller.
Return ==
  /\ reply \notin {"idle", "running"}
  /\ call' = NoCall /\ reply' = "idle"
  /\ at' = 1 /\ pos' = 0 /\ drift' = FALSE
  /\ changed' = {} /\ removed' = {} /\ shown' = {}
  /\ UNCHANGED <<live, mirror, edits>>
-----------------------------------------------------------------------------
(* How a step ends. *)
StepIs(kinds) == reply = "running" /\ call.plan[at].kind \in kinds

Advance ==
  /\ at' = at + 1
  /\ reply' = IF at = Len(call.plan) THEN "ok" ELSE "running"
  /\ UNCHANGED call

Throw(code) == reply' = code /\ UNCHANGED <<call, at>>

Quiet == UNCHANGED <<pos, setVars, effectVars>>
-----------------------------------------------------------------------------
(* Steps that touch neither Live nor the mirror. *)
CheckArguments ==
  /\ StepIs({"check", "given", "unchecked"})
  /\ \/ Advance /\ (call.plan[at].kind = "given" => call.by # "none")
     \/ call.plan[at].kind # "unchecked" /\ Throw("invalid_request")
  /\ Quiet

RequireConfirmation ==
  /\ StepIs({"confirm"})
  /\ IF call.dry \/ call.confirm THEN Advance ELSE Throw("confirmation_required")
  /\ Quiet

\* The policy that the command line installs allows everything.
AssertAllowed == StepIs({"allowed"}) /\ Advance /\ Quiet

RequireSidecar == StepIs({"setup"}) /\ (Advance \/ Throw("setup_required")) /\ Quiet

\* A read waits for a connection, whose first act is a new snapshot.
ReadMirror ==
  /\ StepIs({"read", "lookup"})
  /\ mirror' \in {mirror, live}
  /\ \/ Advance
     \/ Throw("internal_error")
     \/ /\ call.plan[at].kind = "lookup"
        /\ \E code \in {"not_found", "ambiguous_target", "invalid_request"} : Throw(code)
  /\ UNCHANGED <<live, edits, drift, pos, effectVars>>

AskLive == StepIs({"ask"}) /\ (Advance \/ Throw("internal_error")) /\ Quiet

\* The notes of the clip that is selected now, if one is and it has any.
AskNotes ==
  /\ StepIs({"clip_notes"})
  /\ \/ Advance /\ pos # 0
     \/ \E code \in {"invalid_request", "internal_error"} : Throw(code)
  /\ Quiet
-----------------------------------------------------------------------------
(* Steps that find the target. *)

\* resolveTrackCandidate over the mirror: the id if there is one, or the name.
Resolve(order) ==
  LET candidates == DOMAIN order
      nameAt == [i \in candidates |-> NameOf[order[i]]]
  IN IF call.by = "id"
     THEN IF call.pos \in candidates THEN Advance /\ pos' = call.pos
                                     ELSE Throw("not_found") /\ UNCHANGED pos
     ELSE IF call.by # "name" THEN Throw("invalid_request") /\ UNCHANGED pos
     ELSE LET code == PickCode(candidates, nameAt, call.name)
          IN IF code = "found"
             THEN Advance /\ pos' = Picked(candidates, nameAt, call.name)
             ELSE Throw(code) /\ UNCHANGED pos

ResolveTrack ==
  /\ StepIs({"track"})
  /\ mirror' \in {mirror, live}
  /\ \/ Resolve(mirror')
     \/ Throw("internal_error") /\ UNCHANGED pos
  /\ UNCHANGED <<live, edits, drift, effectVars>>

\* resolveParameterReference: the parameter's own id is a position, as the track's is;
\* an index, or no track at all, leaves several tracks, and what else is given of the
\* device and the parameter decides between them, or is refused.
ResolveParameter ==
  /\ StepIs({"parameter"})
  /\ mirror' \in {mirror, live}
  /\ \/ call.by \in {"id", "name"} /\ Resolve(mirror')
     \/ call.by = "index" /\ Advance /\ pos' \in WithIndex(mirror', call.pos)
     \/ call.by = "none" /\ Advance /\ pos' \in DOMAIN mirror'
     \/ /\ \E code \in {"invalid_request", "not_found", "ambiguous_target", "internal_error"} : Throw(code)
        /\ UNCHANGED pos
  /\ UNCHANGED <<live, edits, drift, effectVars>>

\* The selection is read from Live; its ids are positions too.
ReadSelectedClip ==
  /\ StepIs({"selected_clip"})
  /\ \/ Advance /\ pos' \in 0..Len(live)
     \/ Throw("internal_error") /\ UNCHANGED pos
  /\ UNCHANGED <<setVars, effectVars>>

\* resolveDeviceSnapshotTarget: an id first, the snapshot's when the snapshot is
\* being applied; then what is selected; a name last.
ResolveDevice ==
  /\ StepIs({"device", "snapshot_device"})
  /\ mirror' \in {mirror, live}
  /\ \/ IF call.by = "id" THEN Resolve(mirror')
        ELSE IF call.plan[at].kind = "snapshot_device"
             THEN Advance /\ pos' \in DOMAIN mirror'
             ELSE \/ Advance /\ pos' \in 1..Len(live)
                  \/ Resolve(mirror')
     \/ /\ \E code \in {"not_found", "ambiguous_target", "internal_error"} : Throw(code)
        /\ UNCHANGED pos
  /\ UNCHANGED <<live, edits, drift, effectVars>>
-----------------------------------------------------------------------------
(* Steps that edit Live. *)
TargetThere == Targeted(call.plan) /\ ~call.dry => pos \in DOMAIN live

\* Mutant of Apply: the preview is not asked of the edits that remove something.
ApplyWetRemoval(step) ==
  /\ changed' = changed \cup (IF call.dry THEN {} ELSE step.changes)
  /\ removed' = removed \cup step.removes
  /\ UNCHANGED <<shown, pos, setVars>>

Apply(step) ==
  /\ changed' = changed \cup (IF call.dry THEN {} ELSE step.changes)
  /\ removed' = removed \cup (IF call.dry THEN {} ELSE step.removes)
  /\ UNCHANGED <<shown, pos, setVars>>

\* An error from Live, or a link lost or an answer too late: the edit may be made.
EditLive ==
  /\ StepIs({"edit", "edit_wet"})
  /\ ~(call.dry /\ call.plan[at].kind = "edit_wet")
  /\ \/ TargetThere /\ Apply(call.plan[at]) /\ (Advance \/ Throw("internal_error"))
     \/ Throw("internal_error") /\ Quiet

SkipEdit ==
  /\ StepIs({"edit_wet"}) /\ call.dry
  /\ Advance /\ Quiet

\* One request per parameter of the snapshot that differs, each looked up first.
EditParameters ==
  /\ StepIs({"edit_each"})
  /\ \/ TargetThere /\ Apply(call.plan[at])
     \/ Quiet
  /\ \/ Advance
     \/ \E code \in {"not_found", "ambiguous_target", "internal_error"} : Throw(code)

\* SidecarPlacement, seen from the tool: how far it came.
Place ==
  /\ StepIs({"place"})
  /\ \/ /\ TargetThere
        /\ \E made \in SUBSET call.plan[at].changes :
             Apply([call.plan[at] EXCEPT !.changes = made])
     \/ Quiet
  /\ \/ Advance
     \/ \E code \in {"setup_required", "internal_error"} : Throw(code)

RunHelper ==
  /\ StepIs({"helper"})
  /\ \/ Apply(call.plan[at]) /\ (Advance \/ Throw("internal_error"))
     \/ Throw("setup_required") /\ Quiet

RefreshState ==
  /\ StepIs({"refresh"})
  /\ \/ Advance /\ mirror' = live /\ shown' = changed
     \/ Throw("internal_error") /\ UNCHANGED <<mirror, shown>>
  /\ UNCHANGED <<live, edits, drift, pos, changed, removed>>
-----------------------------------------------------------------------------
(* The user deletes an object, or puts one in, at any position. *)
Inserted(order, i, o) == SubSeq(order, 1, i - 1) \o <<o>> \o SubSeq(order, i, Len(order))
Deleted(order, i) == SubSeq(order, 1, i - 1) \o SubSeq(order, i + 1, Len(order))

UserRearranges ==
  /\ edits < MaxEdits
  /\ \/ \E i \in DOMAIN live : live' = Deleted(live, i)
     \/ \E o \in Targets \ Present(live), i \in 1..Len(live) + 1 : live' = Inserted(live, i, o)
  /\ edits' = edits + 1
  /\ drift' = (reply # "idle")
  /\ UNCHANGED <<mirror, call, at, pos, changed, removed, shown, reply>>

Next ==
  \/ \E tool \in Tools : Call(tool)
  \/ Return
  \/ CheckArguments \/ RequireConfirmation \/ AssertAllowed \/ RequireSidecar
  \/ ReadMirror \/ AskLive \/ AskNotes
  \/ ResolveTrack \/ ResolveParameter \/ ReadSelectedClip \/ ResolveDevice
  \/ EditLive \/ SkipEdit \/ EditParameters \/ Place \/ RunHelper \/ RefreshState
  \/ UserRearranges

Spec == Init /\ [][Next]_vars
-----------------------------------------------------------------------------
Codes == {"idle", "running", "ok", "invalid_request", "confirmation_required", "not_found",
          "ambiguous_target", "setup_required", "internal_error"}

\* Types, and the place in the plan: a call that runs has a next step.
TypeOK ==
  /\ live \in Seq(Targets) /\ mirror \in Seq(Targets)
  /\ edits \in 0..MaxEdits /\ drift \in BOOLEAN
  /\ call.want \subseteq Targets /\ call.by \in {"id", "name", "index", "none"}
  /\ call.dry \in BOOLEAN /\ call.confirm \in BOOLEAN
  /\ pos \in Nat /\ at \in 1..Len(call.plan) + 1
  /\ removed \subseteq changed /\ shown \subseteq changed
  /\ reply \in Codes
  /\ reply = "running" => at <= Len(call.plan)

\* The tools that take their target from Live's selection or from a snapshot.
Selecting == {"selected_clip", "device", "snapshot_device"}

(* While nobody rearranges the set, an edit reaches the object whose id, or
   one of whose names, the caller gave: resolveTrackCandidate and
   pickUniqueMatch never settle for another one.  An index, which
   resolveParameterReference takes, is that of two tracks at most, and the edit
   reaches one of them. *)
ActsOnNamed ==
  /\ Kinds(call.plan) \cap Selecting = {}
  /\ call.by # "none" /\ changed # {} /\ ~drift
  => pos \in DOMAIN live /\ live[pos] \in call.want /\ (call.by # "index" => call.want = {live[pos]})

(* "Optional target track name override." (the schema of
   sidecar_apply_device_snapshot): a snapshot applied to a named target goes to
   that target.  applyDeviceSnapshot asks for the snapshot's own ids first. *)
NamedTargetHonoured ==
  /\ Kinds(call.plan) \cap Selecting = {"snapshot_device"}
  /\ call.by = "name" /\ changed # {} /\ ~drift
  => {live[pos]} = call.want

(* A result that names the version after the call comes from a mirror read
   after everything the call changed: no tool refreshes too early or not at
   all, whatever its plan. *)
SuccessIsShown ==
  reply = "ok" /\ call.tool \in Versioned => changed = shown

Refusals == {"invalid_request", "confirmation_required", "not_found", "ambiguous_target"}

(* An error that the server itself raises leaves the set as it was: every
   check of a tool comes before its edits.  Two exceptions in the code: a jump
   selects the clip before it knows its kind, and a snapshot is looked up
   parameter by parameter while it is applied. *)
RefusalChangesNothing ==
  reply \in Refusals =>
    changed \subseteq IF "edit_each" \in Kinds(call.plan) THEN {"devices"}
                      ELSE IF call.tool = "jump_to_arrangement_clip" THEN {"selection"}
                      ELSE {}

(* A preview changes nothing, in any aspect, to the end of the call; and a clip
   is deleted only by a caller who confirmed it. *)
Consent ==
  /\ call.dry => changed = {}
  /\ "clips" \in removed => call.confirm
=============================================================================
