------------------------- MODULE ToolPipelineProofs -------------------------
(***************************************************************************)
(* Of the tools' calls, for every set of objects, names and plans: an edit *)
(* reaches what the caller named, and what a call may do without consent.  *)
(***************************************************************************)
EXTENDS ToolPipeline, SequenceTheorems, TLAPS

-----------------------------------------------------------------------------
(* Names. *)

\* An object that has the name exactly is what pickUniqueMatch finds, when it finds one.
LEMMA ExactIsPicked ==
  ASSUME NEW candidates, NEW nameOf, NEW requested, NEW c \in candidates,
         requested \in Aliases(nameOf[c]),
         PickCode(candidates, nameOf, requested) = "found"
  PROVE  Picked(candidates, nameOf, requested) = c
<1>1. c \in ExactMatches(candidates, nameOf, requested)
  BY DEF ExactMatches
<1>2. Matches(candidates, nameOf, requested) = ExactMatches(candidates, nameOf, requested)
  BY <1>1 DEF Matches
<1>3. \A d \in Matches(candidates, nameOf, requested) : d = c
  BY <1>1, <1>2 DEF PickCode
<1>4. Picked(candidates, nameOf, requested) \in Matches(candidates, nameOf, requested)
  BY <1>1, <1>2 DEF Picked
<1> QED
  BY <1>3, <1>4

\* The user's edits keep a list of objects a list of objects.
LEMMA InsertedType ==
  ASSUME NEW order \in Seq(Targets), NEW i \in 1..Len(order) + 1, NEW o \in Targets
  PROVE  Inserted(order, i, o) \in Seq(Targets)
<1>1. SubSeq(order, 1, i - 1) \in Seq(Targets) /\ SubSeq(order, i, Len(order)) \in Seq(Targets)
  BY SubSeqProperties, LenProperties
<1>2. <<o>> \in Seq(Targets)
  OBVIOUS
<1> QED
  BY <1>1, <1>2, ConcatProperties DEF Inserted

LEMMA DeletedType ==
  ASSUME NEW order \in Seq(Targets), NEW i \in DOMAIN order
  PROVE  Deleted(order, i) \in Seq(Targets)
<1>1. i \in 1..Len(order) /\ Len(order) \in Nat
  BY LenProperties
<1>2. SubSeq(order, 1, i - 1) \in Seq(Targets) /\ SubSeq(order, i + 1, Len(order)) \in Seq(Targets)
  BY <1>1, SubSeqProperties
<1> QED
  BY <1>2, ConcatProperties DEF Deleted
-----------------------------------------------------------------------------
(* The inductive invariant. *)

Types ==
  /\ live \in Seq(Targets) /\ mirror \in Seq(Targets)
  /\ edits \in 0..MaxEdits /\ drift \in BOOLEAN
  /\ call.plan \in AllPlans \cup {<<>>}
  /\ call.want \subseteq Targets /\ call.by \in {"id", "name", "index", "none"}
  /\ call.dry \in BOOLEAN /\ call.confirm \in BOOLEAN
  /\ pos \in Nat /\ at \in 1..Len(call.plan) + 1
  /\ removed \subseteq changed /\ shown \subseteq changed
  /\ reply \in Codes
  /\ reply = "running" => at \in DOMAIN call.plan

\* A call whose target is what the caller named, in a set that nobody touches.
Naming == call.by # "none" /\ Kinds(call.plan) \cap Selecting = {} /\ ~drift

FoundById == pos = call.pos /\ pos \in DOMAIN live /\ call.want = {live[pos]}
FoundByName ==
  \E o \in Present(live) :
    /\ call.want = {o} /\ call.name \in Aliases(NameOf[o])
    /\ pos # 0 => pos \in DOMAIN live /\ live[pos] = o
FoundByIndex ==
  /\ call.want = {live[i] : i \in WithIndex(live, call.pos)}
  /\ pos # 0 => pos \in WithIndex(live, call.pos)

Found ==
  /\ call.by # "none" => Targeted(call.plan) /\ reply # "idle"
  /\ reply # "idle" /\ ~drift => mirror = live
  /\ Naming /\ call.by = "id" => FoundById
  /\ Naming /\ call.by = "name" => FoundByName
  /\ Naming /\ call.by = "index" => FoundByIndex
  /\ Naming /\ changed # {} => pos \in DOMAIN live

Harmless == call.dry => changed = {}

CallInv == Types /\ Found /\ Harmless

\* What a call's plan is.
LEMMA PlanType ==
  ASSUME NEW plan \in AllPlans \cup {<<>>}
  PROVE  /\ Len(plan) \in Nat /\ DOMAIN plan = 1..Len(plan)
         /\ plan # <<>> => Len(plan) > 0
         /\ \A i \in DOMAIN plan : /\ plan[i].removes \subseteq plan[i].changes
                                   /\ DOMAIN plan[i] = {"kind", "changes", "removes"}
                                   /\ plan[i].kind = "place" => plan[i].removes = {}
                                   /\ plan[i].kind = "helper" => ~Targeted(plan)
<1>1. CASE plan \in AllPlans
  <2>1. plan \in Seq({plan[i] : i \in DOMAIN plan})
    BY <1>1, PlanAssumption
  <2> QED
    BY <1>1, <2>1, PlanAssumption, LenProperties, EmptySeq
<1>2. CASE plan = <<>>
  BY <1>2
<1> QED
  BY <1>1, <1>2

LEMMA InitInv == Init => CallInv
<1> SUFFICES ASSUME Init PROVE CallInv
  OBVIOUS
<1>0. call = NoCall /\ at = 1 /\ 1 \in 1..Len(<<>>) + 1
  BY DEF Init
<1>1. Types
  <2>1. /\ call.plan = <<>> /\ call.want = {} /\ call.by = "none"
        /\ call.dry = FALSE /\ call.confirm = FALSE
    BY <1>0 DEF NoCall
  <2>2. live \in Seq(Targets) /\ mirror \in Seq(Targets) /\ edits \in 0..MaxEdits
    BY TargetAssumption DEF Init
  <2> QED
    BY <1>0, <2>1, <2>2 DEF Init, Types, Codes
<1>2. Found /\ Harmless
  BY DEF Init, NoCall, Found, Naming, Harmless
<1> QED
  BY <1>1, <1>2 DEF CallInv

\* An order of objects has no position 0.
LEMMA NoZero ==
  ASSUME NEW order \in Seq(Targets)
  PROVE  0 \notin DOMAIN order /\ DOMAIN order = 1..Len(order)
BY LenProperties

LEMMA SameIndex ==
  ASSUME UNCHANGED <<live, call, pos>>
  PROVE  FoundByIndex' = FoundByIndex
BY DEF FoundByIndex, WithIndex, IndexOf

LEMMA CallStep ==
  ASSUME CallInv, NEW tool \in Tools, Call(tool)
  PROVE  CallInv'
<1> USE DEF CallInv
<1>1. PICK plan \in Plans[tool] : \E dry \in BOOLEAN, confirm \in BOOLEAN, args \in Arguments(plan) :
        /\ call' = [tool |-> tool, plan |-> plan, dry |-> dry, confirm |-> confirm,
                    by |-> args.by, pos |-> args.pos, name |-> args.name, want |-> args.want]
        /\ pos' = IF args.by = "id" THEN args.pos ELSE 0
        /\ reply' = IF plan = <<>> THEN "ok" ELSE "running"
  BY DEF Call
<1>0. PICK dry \in BOOLEAN, confirm \in BOOLEAN, args \in Arguments(plan) :
        /\ call' = [tool |-> tool, plan |-> plan, dry |-> dry, confirm |-> confirm,
                    by |-> args.by, pos |-> args.pos, name |-> args.name, want |-> args.want]
        /\ pos' = IF args.by = "id" THEN args.pos ELSE 0
        /\ reply' = IF plan = <<>> THEN "ok" ELSE "running"
  BY <1>1
<1>2. plan \in AllPlans
  BY <1>1 DEF AllPlans
<1>3. /\ UNCHANGED <<live, mirror, edits>> /\ at' = 1
      /\ changed' = {} /\ removed' = {} /\ shown' = {} /\ drift' = (mirror # live)
  BY DEF Call
<1>4. /\ \/ /\ args.by = "id" /\ args.pos \in DOMAIN mirror /\ args.want = {mirror[args.pos]}
            /\ Targeted(plan)
         \/ /\ args.by = "name" /\ args.pos = 0 /\ Targeted(plan)
            /\ \E o \in Present(live) : args.want = {o} /\ args.name \in Aliases(NameOf[o])
         \/ /\ args.by = "index" /\ args.pos \in 0..Len(mirror) /\ Targeted(plan)
            /\ args.want = {mirror[i] : i \in WithIndex(mirror, args.pos)}
         \/ args.by = "none" /\ args.pos = 0 /\ args.want = {}
  <2>1. \/ args \in Untargeted
        \/ Targeted(plan) /\ args \in ById
        \/ Targeted(plan) /\ args \in ByName
        \/ Targeted(plan) /\ args \in ByIndex
    BY <1>0 DEF Arguments, Targeted, TargetKinds
  <2> QED
    BY <2>1 DEF ById, ByName, ByIndex, Untargeted
<1>5. /\ live \in Seq(Targets) /\ mirror \in Seq(Targets)
      /\ Present(live) \subseteq Targets /\ Present(mirror) \subseteq Targets
  BY NoZero, ElementOfSeq DEF Types, Present
<1>6. args.pos \in Nat /\ args.want \subseteq Targets
  BY <1>4, <1>5, NoZero DEF Present, WithIndex
<1>7. Types'
  BY <1>0, <1>2, <1>3, <1>4, <1>5, <1>6, PlanType DEF Types, Codes
<1>8. Found'
  <2>1. CASE args.by = "index"
    <3>1. Naming' => live' = mirror
      BY <1>3 DEF Naming
    <3>2. pos' = 0 /\ call'.pos = args.pos /\ call'.want = args.want
      BY <1>0, <2>1
    <3>3. WithIndex(live, call.pos)' = WithIndex(live', args.pos)
      BY <3>2 DEF WithIndex, IndexOf
    <3>4. Naming' => FoundByIndex'
      BY <1>4, <2>1, <3>1, <3>2, <3>3 DEF FoundByIndex
    <3> QED
      BY <1>0, <1>3, <1>4, <2>1, <3>4 DEF Found, Naming
  <2>2. CASE args.by # "index"
    BY <1>0, <1>3, <1>4, <2>2 DEF Found, Naming, FoundById, FoundByName, Present
  <2> QED
    BY <2>1, <2>2
<1>9. Harmless'
  BY <1>3 DEF Harmless
<1> QED
  BY <1>7, <1>8, <1>9

LEMMA ReturnStep ==
  ASSUME CallInv, Return
  PROVE  CallInv'
<1> USE DEF CallInv
<1>0. call' = NoCall /\ at' = 1 /\ 1 \in 1..Len(<<>>) + 1
  BY DEF Return
<1>1. Types'
  <2>1. /\ call'.plan = <<>> /\ call'.want = {} /\ call'.by = "none"
        /\ call'.dry = FALSE /\ call'.confirm = FALSE
    BY <1>0 DEF NoCall
  <2> QED
    BY <1>0, <2>1 DEF Return, Types, Codes
<1>2. Found' /\ Harmless'
  BY DEF Return, NoCall, Found, Naming, Harmless
<1> QED
  BY <1>1, <1>2

LEMMA UserStep ==
  ASSUME CallInv, UserRearranges
  PROVE  CallInv'
<1> USE DEF CallInv
<1>1. live' \in Seq(Targets)
  <2>1. CASE \E i \in DOMAIN live : live' = Deleted(live, i)
    BY <2>1, DeletedType DEF Types
  <2>2. CASE \E o \in Targets \ Present(live), i \in 1..Len(live) + 1 : live' = Inserted(live, i, o)
    BY <2>2, InsertedType DEF Types
  <2> QED
    BY <2>1, <2>2 DEF UserRearranges
<1>2. edits' \in 0..MaxEdits
  BY TargetAssumption DEF UserRearranges, Types
<1>3. Types'
  BY <1>1, <1>2 DEF Types, UserRearranges
<1>4. Found' /\ Harmless'
  BY DEF Found, Naming, Harmless, UserRearranges, Types
<1> QED
  BY <1>3, <1>4
-----------------------------------------------------------------------------
(* The steps of a plan. *)

Ends == {"invalid_request", "confirmation_required", "not_found", "ambiguous_target",
         "setup_required", "internal_error"}

Continues == Advance \/ \E code \in Ends : Throw(code)

LEMMA ContinuesType ==
  ASSUME Types, reply = "running", Continues
  PROVE  /\ call' = call /\ at' \in 1..Len(call'.plan) + 1
         /\ reply' \in Codes \ {"idle"}
         /\ reply' = "running" => at' \in DOMAIN call'.plan
<1>1. Len(call.plan) \in Nat /\ DOMAIN call.plan = 1..Len(call.plan)
  BY PlanType DEF Types
<1> QED
  BY <1>1 DEF Types, Continues, Advance, Throw, Ends, Codes

\* A step that edits nothing, and may find the mirror replaced.
LEMMA QuietStep ==
  ASSUME CallInv, reply = "running", Continues, mirror' \in {mirror, live},
         UNCHANGED <<live, edits, drift, pos, changed, removed>>, shown' \in {shown, changed}
  PROVE  CallInv'
<1> USE DEF CallInv
<1>1. Types'
  BY ContinuesType DEF Types
<1>2. Found' /\ Harmless'
  BY ContinuesType, SameIndex DEF Found, Naming, FoundById, FoundByName, Harmless, Present
<1> QED
  BY <1>1, <1>2

\* A step that edits, once it has its target.
LEMMA ApplyStep ==
  ASSUME CallInv, reply = "running", Continues, NEW step, step.removes \subseteq step.changes,
         Apply(step), call.by = "none" \/ TargetThere
  PROVE  CallInv'
<1> USE DEF CallInv
<1>1. Types'
  BY ContinuesType DEF Types, Apply, setVars
<1>2. Found' /\ Harmless'
  BY ContinuesType, SameIndex DEF Found, Naming, FoundById, FoundByName, Harmless, Present, Apply, setVars,
     TargetThere
<1> QED
  BY <1>1, <1>2

\* resolveTrackCandidate, and a call that ends without a target.
LEMMA ResolveStep ==
  ASSUME CallInv, reply = "running", mirror' \in {mirror, live},
         Resolve(mirror') \/ \E code \in Ends : Throw(code) /\ UNCHANGED pos,
         UNCHANGED <<live, edits, drift, changed, removed, shown>>
  PROVE  CallInv'
<1> USE DEF CallInv
<1>1. Continues
  BY DEF Resolve, Continues, Ends, PickCode
<1>2. mirror' \in Seq(Targets)
  BY DEF Types
<1>3. CASE UNCHANGED pos
  BY <1>1, <1>3, QuietStep
<1>4. CASE pos' # pos /\ call.by = "id"
  <2>1. pos' = call.pos /\ pos' \in DOMAIN mirror'
    BY <1>4 DEF Resolve
  <2>2. Types'
    BY <1>1, <1>2, <2>1, NoZero, ContinuesType DEF Types
  <2>3. ~Naming
    BY <1>4, <2>1 DEF Found, FoundById
  <2>4. Found' /\ Harmless'
    BY <1>1, <1>4, <2>3, ContinuesType DEF Found, Naming, Harmless
  <2> QED
    BY <2>2, <2>4
<1>5. CASE pos' # pos /\ call.by # "id"
  <2> DEFINE candidates == DOMAIN mirror'
             nameAt == [i \in candidates |-> NameOf[mirror'[i]]]
  <2>1. /\ call.by = "name" /\ PickCode(candidates, nameAt, call.name) = "found"
        /\ pos' = Picked(candidates, nameAt, call.name)
    BY <1>5 DEF Resolve, Types
  <2>2. pos' \in DOMAIN mirror'
    BY <2>1 DEF PickCode, Picked, Matches, ExactMatches, PartialMatches
  <2>3. Types'
    BY <1>1, <1>2, <2>2, NoZero, ContinuesType DEF Types
  <2>4. ASSUME Naming PROVE FoundByName'
    <3>1. mirror' = live /\ FoundByName
      BY <2>1, <2>4 DEF Found, Naming
    <3>2. PICK o \in Present(live) : call.want = {o} /\ call.name \in Aliases(NameOf[o])
      BY <3>1 DEF FoundByName
    <3>3. PICK i \in candidates : mirror'[i] = o
      BY <3>1, <3>2 DEF Present
    <3>4. call.name \in Aliases(nameAt[i])
      BY <3>2, <3>3
    <3>5. pos' = i
      <4> HIDE DEF candidates, nameAt
      <4> QED
        BY <2>1, <3>3, <3>4, ExactIsPicked
    <3> QED
      BY <1>1, <3>1, <3>2, <3>3, <3>5, ContinuesType DEF FoundByName, Present
  <2>5. Found' /\ Harmless'
    BY <1>1, <2>1, <2>2, <2>4, ContinuesType DEF Found, Naming, Harmless
  <2> QED
    BY <2>3, <2>5
<1> QED
  BY <1>3, <1>4, <1>5

\* The plan's step that is next, as PlanAssumption has it.
LEMMA NextStepOf ==
  ASSUME CallInv, reply = "running"
  PROVE  /\ call.plan[at].removes \subseteq call.plan[at].changes
         /\ DOMAIN call.plan[at] = {"kind", "changes", "removes"}
         /\ call.plan[at].kind = "place" => call.plan[at].removes = {}
         /\ call.plan[at].kind = "helper" => call.by = "none"
BY PlanType DEF CallInv, Types, Found

\* No plan that has one of these steps is one whose target the caller named.
LEMMA SelectingStep ==
  ASSUME CallInv, StepIs(Selecting)
  PROVE  Kinds(call.plan) \cap Selecting # {}
BY DEF StepIs, Kinds, CallInv, Types

\* The selection, or a snapshot's ids, take the place of a target that was named.
LEMMA SelectionStep ==
  ASSUME CallInv, StepIs(Selecting), Continues, mirror' \in {mirror, live}, pos' \in Nat,
         UNCHANGED <<live, edits, drift, changed, removed, shown>>
  PROVE  CallInv'
<1> USE DEF CallInv
<1>1. reply = "running"
  BY DEF StepIs
<1>2. Types'
  BY <1>1, ContinuesType DEF Types
<1>3. Found' /\ Harmless'
  BY <1>1, SelectingStep, ContinuesType DEF Found, Naming, Harmless
<1> QED
  BY <1>2, <1>3

LEMMA CheckingSteps ==
  ASSUME CallInv,
         \/ CheckArguments \/ RequireConfirmation \/ AssertAllowed \/ RequireSidecar
         \/ ReadMirror \/ AskLive \/ AskNotes \/ SkipEdit \/ RefreshState
  PROVE  CallInv'
<1>1. reply = "running"
  BY DEF CheckArguments, RequireConfirmation, AssertAllowed, RequireSidecar, ReadMirror, AskLive,
     AskNotes, SkipEdit, RefreshState, StepIs
<1>2. Continues
  BY DEF CheckArguments, RequireConfirmation, AssertAllowed, RequireSidecar, ReadMirror, AskLive,
     AskNotes, SkipEdit, RefreshState, Continues, Ends
<1>3. /\ mirror' \in {mirror, live} /\ shown' \in {shown, changed}
      /\ UNCHANGED <<live, edits, drift, pos, changed, removed>>
  BY DEF CheckArguments, RequireConfirmation, AssertAllowed, RequireSidecar, ReadMirror, AskLive,
     AskNotes, SkipEdit, RefreshState, Quiet, setVars, effectVars
<1> QED
  BY <1>1, <1>2, <1>3, QuietStep

\* resolveParameterReference, where several tracks are meant: one of them is found.
LEMMA AmongStep ==
  ASSUME CallInv, reply = "running", mirror' \in {mirror, live}, Advance,
         \/ call.by = "index" /\ pos' \in WithIndex(mirror', call.pos)
         \/ call.by = "none" /\ pos' \in DOMAIN mirror',
         UNCHANGED <<live, edits, drift, changed, removed, shown>>
  PROVE  CallInv'
<1> USE DEF CallInv
<1>1. Continues
  BY DEF Continues
<1>2. mirror' \in Seq(Targets) /\ pos' \in DOMAIN mirror'
  BY DEF Types, WithIndex
<1>3. Types'
  BY <1>1, <1>2, NoZero, ContinuesType DEF Types
<1>4. Naming => call.by = "index" /\ pos' \in WithIndex(live, call.pos) /\ pos' \in DOMAIN live
  BY <1>2 DEF Found, Naming
<1>5. call' = call /\ reply' # "idle"
  BY <1>1, ContinuesType
<1>6. Naming' = Naming
  BY <1>5 DEF Naming
<1>7. WithIndex(live, call.pos)' = WithIndex(live, call.pos)
  BY <1>5 DEF WithIndex, IndexOf
<1>8. Naming => FoundByIndex'
  BY <1>4, <1>5, <1>7 DEF Found, FoundByIndex
<1>9. Found' /\ Harmless'
  BY <1>4, <1>5, <1>6, <1>8 DEF Found, Naming, Harmless
<1> QED
  BY <1>3, <1>9

LEMMA FindingSteps ==
  ASSUME CallInv, ResolveTrack \/ ResolveParameter \/ ReadSelectedClip \/ ResolveDevice
  PROVE  CallInv'
<1>1. CASE ResolveTrack
  <2>1. /\ reply = "running" /\ mirror' \in {mirror, live}
        /\ UNCHANGED <<live, edits, drift, changed, removed, shown>>
        /\ Resolve(mirror') \/ \E code \in Ends : Throw(code) /\ UNCHANGED pos
    BY <1>1 DEF ResolveTrack, StepIs, effectVars, Ends
  <2> QED
    BY <2>1, ResolveStep
<1>2. CASE ReadSelectedClip
  <2>1. /\ StepIs(Selecting) /\ Continues /\ mirror' = mirror
        /\ UNCHANGED <<live, edits, drift, changed, removed, shown>>
    BY <1>2 DEF ReadSelectedClip, StepIs, Selecting, Continues, Ends, setVars, effectVars
  <2>2. pos' \in Nat
    BY <1>2, LenProperties DEF ReadSelectedClip, CallInv, Types
  <2> QED
    BY <2>1, <2>2, SelectionStep
<1>3. CASE ResolveDevice
  <2>1. /\ StepIs(Selecting) /\ reply = "running" /\ mirror' \in {mirror, live}
        /\ UNCHANGED <<live, edits, drift, changed, removed, shown>>
    BY <1>3 DEF ResolveDevice, StepIs, Selecting, effectVars
  <2>2. CASE Resolve(mirror') \/ \E code \in Ends : Throw(code) /\ UNCHANGED pos
    BY <2>1, <2>2, ResolveStep
  <2>3. CASE Advance /\ (pos' \in DOMAIN mirror' \/ pos' \in 1..Len(live))
    <3>1. pos' \in Nat
      <4>1. mirror' \in Seq(Targets) /\ live \in Seq(Targets)
        BY <2>1 DEF CallInv, Types
      <4> QED
        BY <4>1, <2>3, NoZero, LenProperties
    <3> QED
      BY <2>1, <2>3, <3>1, SelectionStep DEF Continues
  <2> QED
    BY <1>3, <2>2, <2>3 DEF ResolveDevice, Ends
<1>4. CASE ResolveParameter
  <2>1. /\ reply = "running" /\ mirror' \in {mirror, live}
        /\ UNCHANGED <<live, edits, drift, changed, removed, shown>>
        /\ \/ Resolve(mirror') \/ \E code \in Ends : Throw(code) /\ UNCHANGED pos
           \/ /\ Advance
              /\ \/ call.by = "index" /\ pos' \in WithIndex(mirror', call.pos)
                 \/ call.by = "none" /\ pos' \in DOMAIN mirror'
    BY <1>4 DEF ResolveParameter, StepIs, effectVars, Ends
  <2> QED
    BY <2>1, ResolveStep, AmongStep
<1> QED
  BY <1>1, <1>2, <1>3, <1>4

LEMMA EditingSteps ==
  ASSUME CallInv, EditLive \/ EditParameters \/ Place \/ RunHelper
  PROVE  CallInv'
<1>1. reply = "running" /\ Continues
  BY DEF EditLive, EditParameters, Place, RunHelper, StepIs, Continues, Ends
<1>2. CASE Quiet
  BY <1>1, <1>2, QuietStep DEF Quiet, setVars, effectVars
<1>3. CASE Apply(call.plan[at]) /\ (TargetThere \/ call.by = "none")
  BY <1>1, <1>3, NextStepOf, ApplyStep
<1>4. CASE Place /\ ~Quiet
  <2>1. PICK made \in SUBSET call.plan[at].changes : Apply([call.plan[at] EXCEPT !.changes = made])
    BY <1>4 DEF Place
  <2> DEFINE step == [call.plan[at] EXCEPT !.changes = made]
  <2>2. step.removes \subseteq step.changes
    <3>1. call.plan[at].kind = "place"
      BY <1>4 DEF Place, StepIs
    <3> QED
      BY <1>1, <3>1, NextStepOf
  <2>3. TargetThere
    BY <1>4 DEF Place
  <2> HIDE DEF step
  <2> QED
    BY <1>1, <2>1, <2>2, <2>3, ApplyStep DEF step
<1>5. RunHelper => call.by = "none"
  BY <1>1, NextStepOf DEF RunHelper, StepIs
<1> QED
  BY <1>2, <1>3, <1>4, <1>5 DEF EditLive, EditParameters, RunHelper

LEMMA NextStep == CallInv /\ [Next]_vars => CallInv'
<1> SUFFICES ASSUME CallInv, [Next]_vars PROVE CallInv'
  OBVIOUS
<1>1. CASE \E tool \in Tools : Call(tool)
  BY <1>1, CallStep
<1>2. CASE UNCHANGED vars
  BY <1>2, SameIndex DEF vars, CallInv, Types, Found, Naming, FoundById, FoundByName, Harmless, Present
<1> QED
  BY <1>1, <1>2, ReturnStep, UserStep, CheckingSteps, FindingSteps, EditingSteps DEF Next
-----------------------------------------------------------------------------
(* The inductive invariant of a call: where its target is, for as long as the
   set is as the caller saw it. *)
THEOREM CallIsFollowed == Spec => []CallInv
BY InitInv, NextStep, PTL DEF Spec

(* A call keeps to its plan, and what it removed or has shown to what it changed. *)
THEOREM PipelineTypeCorrect == Spec => []TypeOK
<1>1. CallInv => TypeOK
  <2> SUFFICES ASSUME CallInv PROVE TypeOK
    OBVIOUS
  <2>1. reply = "running" => at <= Len(call.plan)
    BY PlanType DEF CallInv, Types
  <2> QED
    BY <2>1 DEF CallInv, Types, TypeOK
<1> QED
  BY <1>1, CallIsFollowed, PTL

(* Whatever the names of the objects, an edit reaches the one that the caller
   named, by id or by name, or one with the index that was given, unless the set
   was rearranged meanwhile. *)
THEOREM EditsReachWhatWasNamed == Spec => []ActsOnNamed
<1>1. CallInv => ActsOnNamed
  <2> SUFFICES ASSUME CallInv, Naming, changed # {}
               PROVE  /\ pos \in DOMAIN live /\ live[pos] \in call.want
                      /\ call.by # "index" => call.want = {live[pos]}
    BY DEF ActsOnNamed, Naming
  <2>1. pos \in DOMAIN live /\ pos # 0
    BY NoZero DEF CallInv, Types, Found
  <2>2. CASE call.by = "id"
    BY <2>1, <2>2 DEF CallInv, Found, FoundById
  <2>3. CASE call.by = "name"
    BY <2>1, <2>3 DEF CallInv, Found, FoundByName
  <2>4. CASE call.by = "index"
    BY <2>1, <2>4 DEF CallInv, Found, FoundByIndex
  <2> QED
    BY <2>1, <2>2, <2>3, <2>4 DEF CallInv, Types, Naming
<1> QED
  BY <1>1, CallIsFollowed, PTL
-----------------------------------------------------------------------------
(* What holds of plans of a certain form, as all of the catalogue are. *)

\* What removes clips comes after a request for confirmation.
ConfirmedFirst ==
  \A plan \in AllPlans : \A i \in DOMAIN plan :
    "clips" \in plan[i].removes => \E j \in 1..i - 1 : plan[j].kind = "confirm"

\* A plan whose result names a version ends with a snapshot.
RefreshedLast ==
  \A tool \in Tools \cap Versioned : \A plan \in Plans[tool] :
    plan # <<>> => plan[Len(plan)].kind = "refresh"

Confirmed ==
  /\ \A j \in 1..at - 1 : call.plan[j].kind = "confirm" => call.dry \/ call.confirm
  /\ "clips" \in removed => call.confirm

LEMMA ApplyConfirmed ==
  ASSUME ConfirmedFirst, CallInv, Confirmed, reply = "running", NEW step, Apply(step),
         step.removes \subseteq call.plan[at].removes, UNCHANGED call
  PROVE  "clips" \in removed' => call'.confirm
<1> SUFFICES ASSUME "clips" \in removed', "clips" \notin removed PROVE call.confirm
  BY DEF Confirmed
<1>1. ~call.dry /\ "clips" \in step.removes
  BY DEF Apply
<1>2. at \in DOMAIN call.plan /\ call.plan \in AllPlans
  BY DEF CallInv, Types
<1>3. \E j \in 1..at - 1 : call.plan[j].kind = "confirm"
  BY <1>1, <1>2 DEF ConfirmedFirst
<1> QED
  BY <1>1, <1>3 DEF Confirmed, CallInv, Types

\* The steps that may come next keep to the plan; only one asks for confirmation.
LEMMA OnwardConfirmed ==
  ASSUME CallInv, Confirmed, reply = "running", Continues,
         Advance /\ call.plan[at].kind = "confirm" => call.dry \/ call.confirm
  PROVE  \A j \in 1..at' - 1 : call'.plan[j].kind = "confirm" => call'.dry \/ call'.confirm
<1>1. at \in Nat
  BY PlanType DEF CallInv, Types
<1>2. CASE Advance
  BY <1>1, <1>2 DEF Advance, Confirmed
<1>3. CASE \E code \in Ends : Throw(code)
  BY <1>3 DEF Throw, Confirmed
<1> QED
  BY <1>2, <1>3 DEF Continues

LEMMA ConfirmedStep ==
  ASSUME ConfirmedFirst, CallInv, Confirmed, [Next]_vars
  PROVE  Confirmed'
<1>1. CASE \/ CheckArguments \/ AssertAllowed \/ RequireSidecar \/ ReadMirror \/ AskLive \/ AskNotes
           \/ ResolveTrack \/ ResolveParameter \/ ReadSelectedClip \/ ResolveDevice \/ SkipEdit \/ RefreshState
           \/ RequireConfirmation
  <2>1. reply = "running" /\ Continues /\ removed' = removed /\ call' = call
    BY <1>1 DEF CheckArguments, RequireConfirmation, AssertAllowed, RequireSidecar, ReadMirror,
       AskLive, AskNotes, SkipEdit, RefreshState, ResolveTrack, ResolveParameter, ReadSelectedClip, ResolveDevice,
       Resolve, PickCode, StepIs, Continues, Ends, Quiet, effectVars, Advance, Throw
  <2>2. Advance /\ call.plan[at].kind = "confirm" => call.dry \/ call.confirm
    BY <1>1, <2>1 DEF CheckArguments, RequireConfirmation, AssertAllowed, RequireSidecar, ReadMirror,
       AskLive, AskNotes, SkipEdit, RefreshState, ResolveTrack, ResolveParameter, ReadSelectedClip, ResolveDevice,
       StepIs, Advance, Throw, CallInv, Types
  <2> QED
    BY <2>1, <2>2, OnwardConfirmed DEF Confirmed
<1>2. CASE EditLive \/ EditParameters \/ Place \/ RunHelper
  <2>1. reply = "running" /\ Continues /\ call' = call /\ call.plan[at].kind # "confirm"
    BY <1>2 DEF EditLive, EditParameters, Place, RunHelper, StepIs, Continues, Ends, Advance, Throw
  <2>2. CASE Apply(call.plan[at])
    BY <2>1, <2>2, ApplyConfirmed, OnwardConfirmed DEF Confirmed
  <2>3. CASE Quiet
    BY <2>1, <2>3, OnwardConfirmed DEF Quiet, effectVars, Confirmed
  <2>4. CASE Place /\ ~Quiet
    <3>1. PICK made \in SUBSET call.plan[at].changes :
            Apply([call.plan[at] EXCEPT !.changes = made])
      BY <2>4 DEF Place
    <3> DEFINE step == [call.plan[at] EXCEPT !.changes = made]
    <3>2. step.removes = call.plan[at].removes
      BY <2>1, NextStepOf
    <3> HIDE DEF step
    <3> QED
      BY <2>1, <3>1, <3>2, ApplyConfirmed, OnwardConfirmed DEF step, Confirmed
  <2> QED
    BY <1>2, <2>2, <2>3, <2>4 DEF EditLive, EditParameters, RunHelper
<1>3. CASE (\E tool \in Tools : Call(tool)) \/ Return
  <2>1. at' = 1 /\ removed' = {}
    BY <1>3 DEF Call, Return
  <2> QED
    BY <2>1 DEF Confirmed
<1>4. CASE UserRearranges \/ UNCHANGED vars
  BY <1>4 DEF UserRearranges, vars, Confirmed
<1> QED
  BY <1>1, <1>2, <1>3, <1>4 DEF Next

(* In a catalogue that asks for confirmation before it deletes clips, no clip is
   deleted without it, and no preview changes anything. *)
THEOREM NothingWithoutConsent == Spec => [](ConfirmedFirst => Consent)
<1> DEFINE Inv == ConfirmedFirst => Confirmed
<1>1. Init => Inv
  BY DEF Init, NoCall, Confirmed
<1>2. CallInv /\ Inv /\ [Next]_vars => Inv'
  <2> SUFFICES ASSUME CallInv, Inv, [Next]_vars, ConfirmedFirst PROVE Confirmed'
    BY DEF ConfirmedFirst
  <2> QED
    BY ConfirmedStep
<1>3. CallInv /\ Inv => (ConfirmedFirst => Consent)
  BY DEF CallInv, Harmless, Confirmed, Consent
<1> QED
  BY <1>1, <1>2, <1>3, CallIsFollowed, PTL DEF Spec
-----------------------------------------------------------------------------
Shown ==
  /\ reply \in {"running", "ok"} => call.tool \in Tools /\ call.plan \in Plans[call.tool]
  /\ SuccessIsShown

LEMMA ShownStep ==
  ASSUME RefreshedLast, CallInv, Shown, [Next]_vars
  PROVE  Shown'
<1>1. CASE reply = "running" /\ Continues /\ call.plan[at].kind # "refresh"
  <2>1. CASE Advance
    <3>1. reply' = "ok" => at = Len(call.plan) /\ call.plan # <<>>
      BY <1>1, <2>1, PlanType DEF Advance, CallInv, Types
    <3>2. reply' = "ok" => call.tool \notin Versioned
      BY <1>1, <3>1 DEF Shown, RefreshedLast
    <3> QED
      BY <1>1, <2>1, <3>2 DEF Advance, Shown, SuccessIsShown
  <2>2. CASE \E code \in Ends : Throw(code)
    <3>1. reply' \notin {"running", "ok"}
      BY <2>2 DEF Throw, Ends
    <3> QED
      BY <3>1 DEF Shown, SuccessIsShown
  <2> QED
    BY <1>1, <2>1, <2>2 DEF Continues
<1>2. CASE RefreshState
  BY <1>2 DEF RefreshState, Advance, Throw, StepIs, Shown, SuccessIsShown
<1>3. CASE \E tool \in Tools : Call(tool)
  <2>1. PICK tool \in Tools : Call(tool)
    BY <1>3
  <2>2. call'.tool \in Tools /\ call'.plan \in Plans[call'.tool] /\ changed' = shown'
    BY <2>1 DEF Call
  <2> QED
    BY <2>2 DEF Shown, SuccessIsShown
<1>4. CASE Return
  BY <1>4 DEF Return, Shown, SuccessIsShown
<1>5. CASE UserRearranges \/ UNCHANGED vars
  BY <1>5 DEF UserRearranges, vars, Shown, SuccessIsShown
<1>6. CASE \/ CheckArguments \/ AssertAllowed \/ RequireSidecar \/ ReadMirror \/ AskLive \/ AskNotes
           \/ ResolveTrack \/ ResolveParameter \/ ReadSelectedClip \/ ResolveDevice \/ SkipEdit \/ RequireConfirmation
  BY <1>6, <1>1
  DEF CheckArguments, RequireConfirmation, AssertAllowed, RequireSidecar, ReadMirror, AskLive,
      AskNotes, SkipEdit, ResolveTrack, ResolveParameter, ReadSelectedClip, ResolveDevice, Resolve, PickCode,
      StepIs, Continues, Ends
<1>7. CASE EditLive \/ EditParameters \/ Place \/ RunHelper
  BY <1>7, <1>1 DEF EditLive, EditParameters, Place, RunHelper, StepIs, Continues, Ends
<1> QED
  BY <1>2, <1>3, <1>4, <1>5, <1>6, <1>7 DEF Next

(* In a catalogue whose versioned plans end with a snapshot, a result that names
   the version comes from a mirror that has everything the call changed. *)
THEOREM SuccessShows == Spec => [](RefreshedLast => SuccessIsShown)
<1> DEFINE Inv == RefreshedLast => Shown
<1>1. Init => Inv
  BY DEF Init, Shown, SuccessIsShown
<1>2. CallInv /\ Inv /\ [Next]_vars => Inv'
  <2> SUFFICES ASSUME CallInv, Inv, [Next]_vars, RefreshedLast PROVE Shown'
    BY DEF RefreshedLast
  <2> QED
    BY ShownStep
<1>3. Inv => (RefreshedLast => SuccessIsShown)
  BY DEF Shown
<1> QED
  BY <1>1, <1>2, <1>3, CallIsFollowed, PTL DEF Spec
-----------------------------------------------------------------------------
(* Refusals. *)

\* The steps that may be refused, and what a tool may have changed by then.
Refusing == {"check", "given", "confirm", "lookup", "clip_notes", "track", "parameter", "device",
             "snapshot_device", "edit_each"}
Tolerated(tool, plan) ==
  IF "edit_each" \in Kinds(plan) THEN {"devices"}
  ELSE IF tool = "jump_to_arrangement_clip" THEN {"selection"} ELSE {}

\* No step may be refused once more than that was to be changed.
ChecksFirst ==
  \A tool \in Tools : \A plan \in Plans[tool] : \A i \in DOMAIN plan :
    plan[i].kind \in Refusing => \A j \in 1..i : plan[j].changes \subseteq Tolerated(tool, plan)

\* What was changed is what the steps up to n change.
Within(n) == \A aspect \in changed : \E j \in 1..n : aspect \in call.plan[j].changes

Checked ==
  /\ reply = "running" => call.tool \in Tools /\ call.plan \in Plans[call.tool] /\ Within(at - 1)
  /\ RefusalChangesNothing

\* A step of the plan that goes on, or is refused and may be.
LEMMA CheckedOnward ==
  ASSUME ChecksFirst, CallInv, Checked, reply = "running", Continues,
         changed' \subseteq changed \cup call.plan[at].changes,
         call.plan[at].kind \in Refusing \/ reply' \notin Refusals
  PROVE  Checked'
<1>1. at \in Nat \ {0} /\ at \in DOMAIN call.plan /\ call' = call
  BY PlanType DEF CallInv, Types, Continues, Advance, Throw
<1>2. /\ call.tool \in Tools /\ call.plan \in Plans[call.tool]
      /\ \A aspect \in changed' : \E j \in 1..at : aspect \in call.plan[j].changes
  BY <1>1 DEF Checked, Within
<1>3. reply' = "running" => at' = at + 1
  BY DEF Continues, Advance, Throw, Ends
<1>4. RefusalChangesNothing'
  <2> SUFFICES ASSUME reply' \in Refusals PROVE changed' \subseteq Tolerated(call.tool, call.plan)
    BY <1>1 DEF RefusalChangesNothing, Tolerated
  <2> QED
    BY <1>1, <1>2 DEF ChecksFirst
<1> QED
  BY <1>1, <1>2, <1>3, <1>4 DEF Checked, Within

LEMMA CheckedStep ==
  ASSUME ChecksFirst, CallInv, Checked, [Next]_vars
  PROVE  Checked'
<1>1. CASE \/ CheckArguments \/ RequireConfirmation \/ AssertAllowed \/ RequireSidecar \/ ReadMirror
           \/ AskLive \/ AskNotes \/ SkipEdit \/ RefreshState
  <2>1. reply = "running" /\ Continues /\ changed' = changed
    BY <1>1 DEF CheckArguments, RequireConfirmation, AssertAllowed, RequireSidecar, ReadMirror,
       AskLive, AskNotes, SkipEdit, RefreshState, StepIs, Continues, Ends, Quiet, effectVars
  <2>2. call.plan[at].kind \in Refusing \/ reply' \notin Refusals
    BY <1>1 DEF CheckArguments, RequireConfirmation, AssertAllowed, RequireSidecar, ReadMirror,
       AskLive, AskNotes, SkipEdit, RefreshState, StepIs, Advance, Throw, Refusing, Refusals
  <2> QED
    BY <2>1, <2>2, CheckedOnward
<1>2. CASE ResolveTrack \/ ResolveParameter \/ ReadSelectedClip \/ ResolveDevice
  <2>1. reply = "running" /\ Continues /\ changed' = changed
    BY <1>2 DEF ResolveTrack, ResolveParameter, ReadSelectedClip, ResolveDevice, Resolve, PickCode, StepIs, Continues,
       Ends, effectVars
  <2>2. call.plan[at].kind \in Refusing \/ reply' \notin Refusals
    BY <1>2 DEF ResolveTrack, ResolveParameter, ReadSelectedClip, ResolveDevice, StepIs, Advance, Throw, Refusing,
       Refusals
  <2> QED
    BY <2>1, <2>2, CheckedOnward
<1>3. CASE EditLive \/ EditParameters \/ Place \/ RunHelper
  <2>1. reply = "running" /\ Continues
    BY <1>3 DEF EditLive, EditParameters, Place, RunHelper, StepIs, Continues, Ends
  <2>2. call.plan[at].kind \in Refusing \/ reply' \notin Refusals
    BY <1>3 DEF EditLive, EditParameters, Place, RunHelper, StepIs, Advance, Throw, Refusing, Refusals
  <2>3. changed' \subseteq changed \cup call.plan[at].changes
    <3>1. CASE Place /\ ~Quiet
      <4>1. PICK made \in SUBSET call.plan[at].changes :
              Apply([call.plan[at] EXCEPT !.changes = made])
        BY <3>1 DEF Place
      <4>2. [call.plan[at] EXCEPT !.changes = made].changes = made
        BY <2>1, NextStepOf
      <4> QED
        BY <4>1, <4>2 DEF Apply
    <3> QED
      BY <1>3, <3>1 DEF EditLive, EditParameters, Place, RunHelper, Apply, Quiet, effectVars
  <2> QED
    BY <2>1, <2>2, <2>3, CheckedOnward
<1>4. CASE \E tool \in Tools : Call(tool)
  <2>1. PICK tool \in Tools : Call(tool)
    BY <1>4
  <2>2. /\ call'.tool \in Tools /\ call'.plan \in Plans[call'.tool] /\ changed' = {}
        /\ reply' \in {"ok", "running"}
    BY <2>1 DEF Call
  <2> QED
    BY <2>2 DEF Checked, Within, RefusalChangesNothing
<1>5. CASE Return
  BY <1>5 DEF Return, Checked, RefusalChangesNothing, Refusals
<1>6. CASE UserRearranges \/ UNCHANGED vars
  BY <1>6 DEF UserRearranges, vars, Checked, Within, RefusalChangesNothing
<1> QED
  BY <1>1, <1>2, <1>3, <1>4, <1>5, <1>6 DEF Next

(* In a catalogue that checks before it edits, a call that the server refuses has
   left the set as it was, but for what ChecksFirst tolerates. *)
THEOREM RefusalsChangeNothing == Spec => [](ChecksFirst => RefusalChangesNothing)
<1> DEFINE Inv == ChecksFirst => Checked
<1>1. Init => Inv
  BY DEF Init, Checked, RefusalChangesNothing, Refusals
<1>2. CallInv /\ Inv /\ [Next]_vars => Inv'
  <2> SUFFICES ASSUME CallInv, Inv, [Next]_vars, ChecksFirst PROVE Checked'
    BY DEF ChecksFirst, Tolerated
  <2> QED
    BY CheckedStep
<1>3. Inv => (ChecksFirst => RefusalChangesNothing)
  BY DEF Checked
<1> QED
  BY <1>1, <1>2, <1>3, CallIsFollowed, PTL DEF Spec
=============================================================================
