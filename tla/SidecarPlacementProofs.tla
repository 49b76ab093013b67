----------------------- MODULE SidecarPlacementProofs -----------------------
(***************************************************************************)
(* Of a placement, for every set of tracks, browser, depth and number of   *)
(* attempts: no load onto a track that has a sidecar but for the reasons   *)
(* that NoDoubleLoad gives, previews that change nothing, and a search     *)
(* that misses nothing within its depth.                                   *)
(***************************************************************************)
EXTENDS SidecarPlacement, FiltersProofs, TLAPS

InPlacement == {"search", "configured", "select", "native", "helper", "workflow"}

Types ==
  /\ placed \in [Tracks -> Nat] /\ pending \in [Tracks -> Nat] /\ mirror \in [Tracks -> Nat]
  /\ selected \in Tracks /\ call.track \in Tracks /\ call.dry \in BOOLEAN
  /\ native \in BOOLEAN /\ unseen \subseteq Tracks
  /\ pc \in InPlacement \cup {"idle", "refresh", "confirm"}

\* A track of which nothing is in doubt: a load that is coming is the call's, which
\* has not ended; what is there shows in the mirror, unless it is the call's or the
\* user's; and the mirror has nothing of the track that the call chose.
Loading(t) == pc \in {"refresh", "confirm"} /\ call.track = t
Choosing(t) == pc \in InPlacement /\ call.track = t

Awaited(t) == pending[t] > 0 => Loading(t)
Mirrored(t) == placed[t] > 0 => t \in unseen \/ Loading(t) \/ (t \in Visible /\ mirror[t] > 0)
Vacant(t) == Choosing(t) /\ t \in Visible => mirror[t] = 0

Settled(t) == Awaited(t) /\ Mirrored(t) /\ Vacant(t)

Undoubted == \A t \in Tracks \ doubt : Settled(t)

\* A preview searches nothing, and so never comes to a load.
PreviewStops ==
  /\ native => ~call.dry
  /\ pc \in {"search", "native", "workflow", "refresh", "confirm"} => ~call.dry

PlacementInv == Types /\ Undoubted /\ PreviewStops

\* What one more load onto u does to the numbers of loads.
LEMMA LoadType ==
  ASSUME NEW f \in [Tracks -> Nat], NEW u \in Tracks
  PROVE  /\ [f EXCEPT ![u] = @ + 1] \in [Tracks -> Nat]
         /\ \A t \in Tracks : [f EXCEPT ![u] = @ + 1][t] = IF t = u THEN f[t] + 1 ELSE f[t]
OBVIOUS

\* Likewise for a load that came, and for a device that was deleted.
LEMMA UnloadType ==
  ASSUME NEW f \in [Tracks -> Nat], NEW u \in Tracks, f[u] > 0
  PROVE  /\ [f EXCEPT ![u] = @ - 1] \in [Tracks -> Nat]
         /\ \A t \in Tracks : [f EXCEPT ![u] = @ - 1][t] = IF t = u THEN f[t] - 1 ELSE f[t]
OBVIOUS

LEMMA InitInv == Init => PlacementInv
<1> SUFFICES ASSUME Init PROVE PlacementInv
  OBVIOUS
<1>1. Types
  BY DEF Init, Types, Nowhere, InPlacement
<1>2. Undoubted
  BY DEF Init, Nowhere, Undoubted, Settled, Awaited, Mirrored, Vacant, Loading, Choosing, InPlacement
<1>3. PreviewStops
  BY DEF Init, PreviewStops
<1> QED
  BY <1>1, <1>2, <1>3 DEF PlacementInv
-----------------------------------------------------------------------------
(* The steps, one by one.                                                  *)

LEMMA StatusFacts ==
  ASSUME Types, UNCHANGED placed, GetStatus
  PROVE  /\ mirror' \in [Tracks -> Nat] /\ unseen' \subseteq Tracks
         /\ ReadMirror \/ UNCHANGED <<mirror, unseen>>
BY DEF Types, GetStatus, ReadMirror, mirrorVars

LEMMA EnsureStep ==
  ASSUME PlacementInv, NEW u \in Tracks, NEW dry \in BOOLEAN, EnsureOnTrack(u, dry)
  PROVE  PlacementInv'
<1> USE DEF PlacementInv
<1>0. /\ mirror' \in [Tracks -> Nat] /\ unseen' \subseteq Tracks
      /\ ReadMirror \/ UNCHANGED <<mirror, unseen>>
  BY StatusFacts DEF EnsureOnTrack, liveVars
<1>1. Types'
  BY <1>0 DEF Types, EnsureOnTrack, End, Goto, InPlacement, liveVars
<1>2. ASSUME NEW t \in Tracks \ doubt' PROVE Settled(t)'
  <2>1. /\ t \notin doubt /\ pc = "idle" /\ call'.track = u
        /\ placed' = placed /\ pending' = pending
        /\ pc' \in {"idle"} \cup InPlacement
    BY <1>2 DEF EnsureOnTrack, End, Goto, liveVars, Dispatched, InPlacement
  <2>2. Settled(t) /\ pending[t] = 0
    BY <2>1 DEF Undoubted, Settled, Awaited, Loading, Types
  <2>3. Vacant(t)'
    BY <1>1, <2>1 DEF EnsureOnTrack, End, Goto, activeInstances, Vacant, Choosing, InPlacement, Types
  <2>4. Mirrored(t)'
    BY <1>0, <2>1, <2>2 DEF ReadMirror, Settled, Mirrored, Loading
  <2> QED
    BY <2>1, <2>2, <2>3, <2>4 DEF Settled, Awaited
<1>3. PreviewStops'
  BY DEF PreviewStops, EnsureOnTrack, End, Goto
<1> QED
  BY <1>1, <1>2, <1>3 DEF Undoubted

\* A step before the load was asked for, or one whose keys went elsewhere: Live and
\* the mirror stay as they are.
LEMMA QuietStep ==
  ASSUME PlacementInv, UNCHANGED <<placed, pending, mirrorVars, call>>,
         pc \in InPlacement, pc' \in InPlacement \cup {"idle", "refresh"}, doubt \subseteq doubt'
  PROVE  Undoubted'
<1> SUFFICES ASSUME NEW t \in Tracks \ doubt' PROVE Settled(t)'
  BY DEF Undoubted
<1>1. Settled(t)
  BY DEF PlacementInv, Undoubted
<1> QED
  BY <1>1 DEF PlacementInv, Types, mirrorVars, Settled, Awaited, Mirrored, Vacant, Loading, Choosing,
     InPlacement

LEMMA SearchStep ==
  ASSUME PlacementInv, SearchBrowser \/ SearchEnds
  PROVE  PlacementInv'
<1> USE DEF PlacementInv
<1>1. Types'
  BY DEF Types, mirrorVars, SearchBrowser, SearchEnds, End, Goto, InPlacement, liveVars, searchVars
<1>2. Undoubted'
  BY QuietStep DEF SearchBrowser, SearchEnds, End, Goto, Dispatched, InPlacement, liveVars
<1>3. PreviewStops'
  BY DEF PreviewStops, SearchBrowser, SearchEnds, End, Goto, searchVars
<1> QED
  BY <1>1, <1>2, <1>3

LEMMA ChoiceStep ==
  ASSUME PlacementInv, RequireSetup \/ SelectTrack \/ RequireHelper
  PROVE  PlacementInv'
<1> USE DEF PlacementInv
<1>1. Types'
  BY DEF Types, mirrorVars, RequireSetup, SelectTrack, RequireHelper, End, Goto, InPlacement, liveVars, searchVars
<1>2. Undoubted'
  BY QuietStep DEF RequireSetup, SelectTrack, RequireHelper, End, Goto, Dispatched, InPlacement,
     liveVars
<1>3. PreviewStops'
  BY DEF PreviewStops, RequireSetup, SelectTrack, RequireHelper, End, Goto, searchVars
<1> QED
  BY <1>1, <1>2, <1>3

\* Both loads: onto the call's track, and then it is awaited; or onto one that is
\* in doubt from then on.
LEMMA LoadStep ==
  ASSUME PlacementInv, NEW u \in Tracks, StartLoad(u), UNCHANGED <<placed, mirrorVars, call>>,
         pc \in InPlacement, pc' \in InPlacement \cup {"idle", "refresh"}, doubt \subseteq doubt',
         u \in doubt' \/ (pc' = "refresh" /\ call.track = u)
  PROVE  Undoubted'
<1> SUFFICES ASSUME NEW t \in Tracks \ doubt' PROVE Settled(t)'
  BY DEF Undoubted
<1>1. Settled(t)
  BY DEF PlacementInv, Undoubted
<1>2. pending'[t] = IF t = u THEN pending[t] + 1 ELSE pending[t]
  BY LoadType DEF PlacementInv, Types, StartLoad
<1> QED
  BY <1>1, <1>2 DEF PlacementInv, Types, mirrorVars, Settled, Awaited, Mirrored, Vacant, Loading,
     Choosing, InPlacement

LEMMA NativeStep ==
  ASSUME PlacementInv, LoadNative
  PROVE  PlacementInv'
<1> USE DEF PlacementInv
<1>1. Types'
  <2>1. pending' \in [Tracks -> Nat]
    BY LoadType DEF LoadNative, Types, StartLoad
  <2> QED
    BY <2>1 DEF Types, mirrorVars, LoadNative, Goto, InPlacement, searchVars
<1>2. Undoubted'
  <2>0. call.track \in Tracks /\ UNCHANGED <<placed, mirrorVars, call>> /\ pc = "native"
        /\ pc' \in {"refresh", "helper"} /\ doubt \subseteq doubt'
    BY DEF LoadNative, Goto, Types
  <2>1. CASE StartLoad(call.track)
    BY <2>0, <2>1, LoadStep DEF LoadNative, Goto, InPlacement
  <2>2. CASE UNCHANGED pending /\ pc' = "helper"
    BY <2>0, <2>2, QuietStep DEF InPlacement
  <2> QED
    BY <2>1, <2>2 DEF LoadNative
<1>3. PreviewStops'
  BY DEF PreviewStops, LoadNative, Goto, searchVars
<1> QED
  BY <1>1, <1>2, <1>3

LEMMA WorkflowStep ==
  ASSUME PlacementInv, RunStep
  PROVE  PlacementInv'
<1> USE DEF PlacementInv
<1>1. Types'
  <2>1. pending' \in [Tracks -> Nat]
    BY LoadType DEF RunStep, Types, StartLoad
  <2> QED
    BY <2>1 DEF Types, mirrorVars, RunStep, InPlacement, searchVars
<1>2. Undoubted'
  <2>1. /\ selected \in Tracks /\ UNCHANGED <<placed, mirrorVars, call>> /\ pc = "workflow"
        /\ pc' \in {"idle", "workflow", "refresh"} /\ doubt \subseteq doubt'
    BY DEF RunStep, Types
  <2>2. StartLoad(selected) \/ UNCHANGED pending
    BY DEF RunStep
  <2>3. CASE UNCHANGED pending
    BY <2>1, <2>3, QuietStep DEF InPlacement
  <2>4. CASE StartLoad(selected) /\ ~UNCHANGED pending
    <3>1. selected \in doubt' \/ (pc' = "refresh" /\ call.track = selected)
      BY <2>4 DEF RunStep
    <3> QED
      BY <2>1, <2>4, <3>1, LoadStep DEF InPlacement
  <2> QED
    BY <2>2, <2>3, <2>4
<1>3. PreviewStops'
  BY DEF PreviewStops, RunStep, searchVars
<1> QED
  BY <1>1, <1>2, <1>3

\* A snapshot shows what was placed when it was read.
LEMMA RefreshStep ==
  ASSUME PlacementInv, Refresh
  PROVE  PlacementInv'
<1> USE DEF PlacementInv
<1>1. Types'
  BY DEF Types, Refresh, ReadMirror, mirrorVars, End, Goto, InPlacement, liveVars, searchVars
<1>2. ASSUME NEW t \in Tracks \ doubt' PROVE Settled(t)'
  <2>1. /\ UNCHANGED <<placed, pending, call>> /\ pc = "refresh" /\ t \notin doubt
        /\ \/ ReadMirror /\ pc' = "confirm"
           \/ UNCHANGED <<mirror, unseen>> /\ pc' = "idle" /\ call.track # t
    BY <1>2 DEF Refresh, mirrorVars, End, Goto, Dispatched, liveVars
  <2>2. Settled(t)
    BY <2>1 DEF Undoubted
  <2> QED
    BY <2>1, <2>2 DEF Types, ReadMirror, Settled, Awaited, Mirrored, Vacant, Loading, Choosing, InPlacement
<1>3. PreviewStops'
  BY DEF PreviewStops, Refresh, End, Goto, searchVars
<1> QED
  BY <1>1, <1>2, <1>3 DEF Undoubted

\* The call ends without a doubt only when the device shows and none is coming.
LEMMA ConfirmStep ==
  ASSUME PlacementInv, Confirm
  PROVE  PlacementInv'
<1> USE DEF PlacementInv
<1>0. /\ mirror' \in [Tracks -> Nat] /\ unseen' \subseteq Tracks
      /\ ReadMirror \/ UNCHANGED <<mirror, unseen>>
  BY StatusFacts DEF Confirm, liveVars
<1>1. Types'
  BY <1>0 DEF Types, Confirm, End, Goto, InPlacement, liveVars, searchVars
<1>2. ASSUME NEW t \in Tracks \ doubt' PROVE Settled(t)'
  <2>1. /\ UNCHANGED <<placed, pending, call>> /\ pc = "confirm" /\ t \notin doubt
        /\ \/ pc' \in {"refresh", "confirm"}
           \/ /\ pc' = "idle"
              /\ call.track # t \/ (t \in Visible /\ mirror'[t] > 0 /\ ~(pending[t] > 0))
    BY <1>2 DEF Confirm, End, Goto, Dispatched, liveVars, activeInstances
  <2>2. Settled(t)
    BY <2>1 DEF Undoubted
  <2> QED
    BY <1>0, <2>1, <2>2 DEF Types, ReadMirror, Settled, Awaited, Mirrored, Vacant, Loading, Choosing,
       InPlacement
<1>3. PreviewStops'
  BY DEF PreviewStops, Confirm, End, Goto, searchVars
<1> QED
  BY <1>1, <1>2, <1>3 DEF Undoubted

LEMMA LoadsStep ==
  ASSUME PlacementInv, NEW u \in Tracks, LiveLoads(u)
  PROVE  PlacementInv'
<1> USE DEF PlacementInv
<1>1. /\ pending' \in [Tracks -> Nat] /\ placed' \in [Tracks -> Nat]
      /\ \A t \in Tracks : /\ pending'[t] = IF t = u THEN pending[t] - 1 ELSE pending[t]
                           /\ placed'[t] = IF t = u THEN placed[t] + 1 ELSE placed[t]
  BY LoadType, UnloadType DEF LiveLoads, Types
<1>2. Types'
  BY <1>1 DEF Types, LiveLoads, mirrorVars, searchVars
<1>3. ASSUME NEW t \in Tracks \ doubt' PROVE Settled(t)'
  <2>1. Settled(t)
    BY <1>3 DEF Undoubted, LiveLoads
  <2>2. pending[u] > 0 /\ UNCHANGED <<mirror, unseen, pc, call>>
    BY DEF LiveLoads, mirrorVars
  <2> QED
    BY <1>1, <2>1, <2>2 DEF Types, Settled, Awaited, Mirrored, Vacant, Loading, Choosing, InPlacement
<1>4. PreviewStops'
  BY DEF PreviewStops, LiveLoads, searchVars
<1> QED
  BY <1>2, <1>3, <1>4 DEF Undoubted

LEMMA UserStep ==
  ASSUME PlacementInv, UserActs
  PROVE  PlacementInv'
<1> USE DEF PlacementInv
<1>1. /\ placed' \in [Tracks -> Nat] /\ unseen' \subseteq Tracks /\ unseen \subseteq unseen'
      /\ \A t \in Tracks : placed'[t] <= placed[t] \/ t \in unseen'
  <2>1. CASE UNCHANGED <<placed, unseen>>
    BY <2>1 DEF Types
  <2>2. CASE UNCHANGED unseen /\ \E u \in Tracks : placed[u] > 0 /\ placed' = [placed EXCEPT ![u] = @ - 1]
    BY <2>2, UnloadType DEF Types
  <2>3. CASE \E u \in Tracks : placed' = [placed EXCEPT ![u] = @ + 1] /\ unseen' = unseen \cup {u}
    BY <2>3, LoadType DEF Types
  <2> QED
    BY <2>1, <2>2, <2>3 DEF UserActs
<1>2. Types'
  BY <1>1 DEF Types, UserActs, searchVars
<1>3. ASSUME NEW t \in Tracks \ doubt' PROVE Settled(t)'
  <2>1. Settled(t)
    BY <1>3 DEF Undoubted, UserActs
  <2>2. UNCHANGED <<pending, mirror, pc, call>>
    BY DEF UserActs
  <2> QED
    BY <1>1, <2>1, <2>2 DEF Types, Settled, Awaited, Mirrored, Vacant, Loading, Choosing,
       InPlacement
<1>4. PreviewStops'
  BY DEF PreviewStops, UserActs, searchVars
<1> QED
  BY <1>2, <1>3, <1>4 DEF Undoubted
-----------------------------------------------------------------------------
LEMMA NextStep == PlacementInv /\ [Next]_vars => PlacementInv'
<1> SUFFICES ASSUME PlacementInv, [Next]_vars PROVE PlacementInv'
  OBVIOUS
<1>1. CASE \E t \in Tracks, dry \in BOOLEAN : EnsureOnTrack(t, dry)
  BY <1>1, EnsureStep
<1>2. CASE CallStep
  BY <1>2, SearchStep, ChoiceStep, NativeStep, WorkflowStep, RefreshStep, ConfirmStep DEF CallStep
<1>3. CASE \E t \in Tracks : LiveLoads(t)
  BY <1>3, LoadsStep
<1>4. CASE UserActs
  BY <1>4, UserStep
<1>5. CASE UNCHANGED vars
  BY <1>5 DEF vars, liveVars, mirrorVars, searchVars, PlacementInv, Types, Undoubted, PreviewStops, Settled,
     Awaited, Mirrored, Vacant, Loading, Choosing
<1> QED
  BY <1>1, <1>2, <1>3, <1>4, <1>5 DEF Next

(* The call, the mirror, what is in doubt and what the user put there unseen
   account for every sidecar in Live and every load that is coming: the inductive
   invariant of ensureOnTrack. *)
THEOREM PlacementIsAccountedFor == Spec => []PlacementInv
BY InitInv, NextStep, PTL DEF Spec

\* Loads are asked for before they are awaited.
LEMMA OnlyLoads ==
  ASSUME PlacementInv, [Next]_vars, NEW t \in Tracks, pending'[t] > pending[t]
  PROVE  pc \in InPlacement
<1> USE DEF PlacementInv
<1>1. CASE \E u \in Tracks : LiveLoads(u)
  BY <1>1, UnloadType DEF LiveLoads, Types
<1>2. CASE LoadNative \/ RunStep
  BY <1>2 DEF LoadNative, RunStep, InPlacement
<1>3. pending[t] \in Nat
  BY DEF Types
<1> QED
  BY <1>1, <1>2, <1>3 DEF Next, CallStep, vars, EnsureOnTrack, SearchBrowser, SearchEnds, RequireSetup,
     SelectTrack, RequireHelper, Refresh, Confirm, UserActs, liveVars

(* A sidecar is loaded onto the call's own track, when one is there or coming, only
   if a load onto it was never confirmed or the user put it there unseen, whatever
   the browser holds, the user does and Live delays. *)
THEOREM NoSecondSidecar == Spec => NoDoubleLoad
<1>1. PlacementInv /\ [Next]_vars =>
        [\A t \in Tracks : pending'[t] > pending[t] /\ placed[t] + pending[t] > 0 =>
           t \in doubt \cup unseen \cup (Tracks \ {call.track})]_vars
  <2> SUFFICES ASSUME PlacementInv, [Next]_vars, NEW t \in Tracks, pending'[t] > pending[t],
                      placed[t] + pending[t] > 0, call.track = t, t \notin doubt, t \notin unseen
               PROVE FALSE
    OBVIOUS
  <2>1. pc \in InPlacement
    BY OnlyLoads
  <2>2. Settled(t) /\ placed[t] \in Nat /\ pending[t] \in Nat
    BY DEF PlacementInv, Undoubted, Types
  <2> QED
    BY <2>1, <2>2 DEF Settled, Awaited, Mirrored, Vacant, Loading, Choosing, InPlacement
<1> QED
  BY <1>1, PlacementIsAccountedFor, PTL DEF Spec, NoDoubleLoad

(* No step of a preview touches Live, the selection or the application in front:
   the dry run is passed on wherever it must be. *)
THEOREM PreviewsChangeNothing == Spec => PreviewChangesNothing
<1>1. PlacementInv => [CallStep /\ call.dry => UNCHANGED liveVars]_vars
  <2> SUFFICES ASSUME PlacementInv, CallStep, call.dry PROVE UNCHANGED liveVars
    OBVIOUS
  <2>1. pc \notin {"search", "native", "workflow", "refresh", "confirm"}
    BY DEF PlacementInv, PreviewStops
  <2> QED
    BY <2>1 DEF CallStep, SearchBrowser, SearchEnds, RequireSetup, SelectTrack, LoadNative,
       RequireHelper, RunStep, Refresh, Confirm, liveVars
<1> QED
  BY <1>1, PlacementIsAccountedFor, PTL DEF PreviewChangesNothing
-----------------------------------------------------------------------------
(* The search.                                                             *)

Paths == DOMAIN browser.items
Entries == [path : Paths, depth : 0..MaxDepth]
FoldersOf(p) == Range(Within(p)) \cap browser.folders

\* A queue in the order of the depths, of which it has at most two.
InOrder(q) == \A i, j \in DOMAIN q : i <= j => /\ q[i].depth <= q[j].depth
                                               /\ q[j].depth <= q[i].depth + 1

\* p is taken care of, at k steps from a root or before.
Reached(rank, p, k) ==
  \/ p \in seen /\ rank[p] <= k
  \/ \E e \in Range(queue) : e.path = p /\ e.depth <= k

\* How deep each path was when it was opened: its folders were queued one step
\* deeper, and nothing was opened before what is nearer.
Ranked(rank) ==
  /\ \A p \in Range(Roots) : Reached(rank, p, 0)
  /\ \A q \in seen : rank[q] < MaxDepth => \A p \in FoldersOf(q) : Reached(rank, p, rank[q] + 1)
  /\ \A q \in seen, e \in Range(queue) : rank[q] <= e.depth

SearchTypes ==
  /\ browser \in Browsers /\ native \in BOOLEAN
  /\ seen \subseteq Paths /\ queue \in Seq(Entries)

Searching ==
  /\ ~native /\ InOrder(queue)
  /\ \A e \in Range(queue) : e.path \in Level[e.depth]
  /\ \A q \in seen : ~Matching(q)
  /\ \E rank \in [seen -> 0..MaxDepth] : Ranked(rank)

SearchInv ==
  /\ SearchTypes
  /\ pc = "search" => Searching
  /\ SearchFindsAll

LEMMA BrowserFacts ==
  ASSUME browser \in Browsers
  PROVE  /\ Range(Roots) \subseteq Paths
         /\ \A p \in Paths : /\ Within(p) \in Seq(Range(Within(p)))
                             /\ FoldersOf(p) \subseteq Paths
BY BrowserAssumption DEF Paths, FoldersOf, Within

\* A trail of k steps to p.
Trail(trail, k, p) ==
  /\ trail \in [0..k -> browser.folders \cup Range(Roots)]
  /\ trail[0] \in Range(Roots) /\ trail[k] = p
  /\ \A i \in 1..k : trail[i] \in browser.folders /\ trail[i] \in Range(Within(trail[i - 1]))

LEMMA LevelIs ==
  ASSUME NEW k \in 0..MaxDepth, NEW p
  PROVE  p \in Level[k] <=> p \in Paths /\ \E trail : Trail(trail, k, p)
BY DEF Level, Trail, Paths

LEMMA LevelZero ==
  ASSUME browser \in Browsers, NEW p
  PROVE  p \in Level[0] <=> p \in Range(Roots)
<1>1. 0 \in 0..MaxDepth
  BY PlacementAssumption
<1>2. ASSUME p \in Level[0] PROVE p \in Range(Roots)
  BY <1>1, <1>2, LevelIs DEF Trail
<1>3. ASSUME p \in Range(Roots) PROVE p \in Level[0]
  <2>1. Trail([i \in 0..0 |-> p], 0, p)
    BY <1>3 DEF Trail
  <2>2. p \in Paths
    BY <1>3, BrowserFacts
  <2> QED
    BY <1>1, <2>1, <2>2, LevelIs
<1> QED
  BY <1>2, <1>3

LEMMA LevelDown ==
  ASSUME browser \in Browsers, NEW k \in 0..MaxDepth - 1, NEW p \in Level[k], NEW c \in FoldersOf(p)
  PROVE  c \in Level[k + 1]
<1>1. k \in 0..MaxDepth /\ k + 1 \in 0..MaxDepth /\ k \in Nat
  BY PlacementAssumption
<1>2. p \in Paths /\ \E trail : Trail(trail, k, p)
  BY <1>1, LevelIs
<1>3. PICK trail : Trail(trail, k, p)
  BY <1>2
<1> DEFINE longer == [i \in 0..k + 1 |-> IF i <= k THEN trail[i] ELSE c]
<1>4. c \in browser.folders /\ c \in Range(Within(p)) /\ c \in Paths
  BY <1>2, BrowserFacts DEF FoldersOf
<1>5. /\ longer[0] = trail[0] /\ longer[k] = p /\ longer[k + 1] = c
      /\ \A i \in 0..k : longer[i] = trail[i]
  BY <1>1, <1>3 DEF Trail
<1>6. longer \in [0..k + 1 -> browser.folders \cup Range(Roots)]
  BY <1>1, <1>3, <1>4 DEF Trail
<1>7. ASSUME NEW i \in 1..k + 1
      PROVE  longer[i] \in browser.folders /\ longer[i] \in Range(Within(longer[i - 1]))
  <2>1. CASE i = k + 1
    BY <1>4, <1>5, <2>1
  <2>2. CASE i \in 1..k
    <3>1. i \in 0..k /\ i - 1 \in 0..k
      BY <2>2, <1>1
    <3> QED
      BY <1>3, <1>5, <2>2, <3>1 DEF Trail
  <2> QED
    BY <2>1, <2>2
<1> HIDE DEF longer
<1>8. Trail(longer, k + 1, c)
  BY <1>3, <1>5, <1>6, <1>7 DEF Trail
<1> QED
  BY <1>1, <1>4, <1>8, LevelIs

LEMMA LevelUp ==
  ASSUME browser \in Browsers, NEW k \in 0..MaxDepth - 1, NEW c \in Level[k + 1]
  PROVE  \E p \in Level[k] : c \in FoldersOf(p)
<1>1. k \in 0..MaxDepth /\ k + 1 \in 0..MaxDepth /\ k \in Nat
  BY PlacementAssumption
<1>2. PICK trail : Trail(trail, k + 1, c)
  BY <1>1, LevelIs
<1> DEFINE shorter == [i \in 0..k |-> trail[i]]
<1>3. c \in FoldersOf(trail[k])
  <2>1. k + 1 \in 1..k + 1 /\ (k + 1) - 1 = k
    BY <1>1
  <2> QED
    BY <1>2, <2>1 DEF Trail, FoldersOf
<1>4. Trail(shorter, k, trail[k])
  <2>1. \A i \in 1..k : i \in 1..k + 1 /\ i \in 0..k /\ i - 1 \in 0..k
    BY <1>1
  <2>2. shorter \in [0..k -> browser.folders \cup Range(Roots)]
    BY <1>1, <1>2 DEF Trail
  <2>3. shorter[0] = trail[0] /\ shorter[k] = trail[k] /\ \A i \in 0..k : shorter[i] = trail[i]
    BY <1>1
  <2> HIDE DEF shorter
  <2> QED
    BY <1>2, <2>1, <2>2, <2>3 DEF Trail
<1>5. trail[k] \in Paths
  <2> DEFINE T == {i \in 0..k : trail[i] \in Paths}
  <2>1. 0 \in T
    BY <1>1, <1>2, BrowserFacts DEF Trail
  <2>2. ASSUME NEW i \in 0..k - 1, i \in T PROVE i + 1 \in T
    <3>1. i + 1 \in 1..k + 1 /\ (i + 1) - 1 = i /\ i + 1 \in 0..k
      BY <1>1
    <3>2. trail[i + 1] \in FoldersOf(trail[i])
      BY <1>2, <3>1 DEF Trail, FoldersOf
    <3> QED
      BY <2>2, <3>1, <3>2, BrowserFacts
  <2>3. T \in SUBSET (0..k)
    OBVIOUS
  <2> HIDE DEF T
  <2>4. T = 0..k
    BY <1>1, <2>1, <2>2, <2>3, Induction
  <2> QED
    BY <1>1, <2>4 DEF T
<1> QED
  BY <1>1, <1>3, <1>4, <1>5, LevelIs

-----------------------------------------------------------------------------
LEMMA FoldersInFacts ==
  ASSUME browser \in Browsers, NEW current \in Entries
  PROVE  /\ FoldersIn(current) \in Seq(Entries)
         /\ \A e \in Range(FoldersIn(current)) :
              /\ e.path \in FoldersOf(current.path) /\ e.depth = current.depth + 1
              /\ current.depth \in 0..MaxDepth - 1
         /\ current.depth < MaxDepth =>
              \A p \in FoldersOf(current.path) :
                \E e \in Range(FoldersIn(current)) : e.path = p /\ e.depth = current.depth + 1
<1>1. current.path \in Paths /\ current.depth \in 0..MaxDepth
  BY DEF Entries
<1>2. CASE current.depth >= MaxDepth
  <2>1. FoldersIn(current) = <<>> /\ ~(current.depth < MaxDepth)
    BY <1>1, <1>2, PlacementAssumption DEF FoldersIn
  <2>2. <<>> \in Seq(Entries) /\ Range(<<>>) = {}
    BY DEF Range
  <2> QED
    BY <2>1, <2>2
<1>3. CASE ~(current.depth >= MaxDepth)
  <2> DEFINE folders == Filter(Within(current.path), browser.folders)
             found == [i \in DOMAIN folders |-> [path |-> folders[i], depth |-> current.depth + 1]]
  <2>1. FoldersIn(current) = found
    BY <1>3 DEF FoldersIn
  <2>2. /\ folders \in Seq(Range(Within(current.path)))
        /\ Range(folders) = FoldersOf(current.path)
    BY <1>1, BrowserFacts, FilterFacts DEF FoldersOf
  <2>3. FoldersOf(current.path) \subseteq Paths
    BY <1>1, BrowserFacts
  <2>4. current.depth \in 0..MaxDepth - 1 /\ current.depth + 1 \in 0..MaxDepth
    BY <1>1, <1>3, PlacementAssumption
  <2>5. \A i \in DOMAIN folders : folders[i] \in FoldersOf(current.path)
    BY <2>2 DEF Range
  <2>6. DOMAIN folders = 1..Len(folders) /\ Len(folders) \in Nat
    BY <2>2
  <2> HIDE DEF folders
  <2>7. found \in Seq(Entries)
    BY <2>3, <2>4, <2>5, <2>6 DEF Entries
  <2>8. \A e \in Range(found) : e.path \in FoldersOf(current.path) /\ e.depth = current.depth + 1
    BY <2>5 DEF Range
  <2>9. ASSUME NEW p \in FoldersOf(current.path)
        PROVE  \E e \in Range(found) : e.path = p /\ e.depth = current.depth + 1
    <3>1. PICK i \in DOMAIN folders : folders[i] = p
      BY <2>2 DEF Range
    <3>2. found[i] \in Range(found)
      BY DEF Range
    <3> QED
      BY <3>1, <3>2
  <2> HIDE DEF found
  <2> QED
    BY <2>1, <2>4, <2>7, <2>8, <2>9
<1> QED
  BY <1>1, <1>2, <1>3

LEMMA PrioritizedFacts ==
  /\ prioritizeBrowserRoots \in Seq(Range(Roots))
  /\ Range(prioritizeBrowserRoots) = Range(Roots)
<1> DEFINE P(k) == {r \in Range(Roots) : Score[r] = k}
<1>1. ASSUME NEW k
      PROVE Scored(k) \in Seq(Range(Roots)) /\ Range(Scored(k)) = P(k)
  <2>1. Range(Scored(k)) = Range(Roots) \cap P(k) /\ Scored(k) \in Seq(Range(Roots))
    BY BrowserAssumption, FilterFacts DEF Scored
  <2> QED
    BY <2>1
<1>2. Range(Roots) = P(0) \cup P(1) \cup P(2) \cup P(3) \cup P(4)
  BY BrowserAssumption
<1> HIDE DEF P
<1> DEFINE S == Range(Roots)
           two == Scored(0) \o Scored(1)
           three == two \o Scored(2)
           four == three \o Scored(3)
<1>3. two \in Seq(S) /\ Range(two) = P(0) \cup P(1)
  BY <1>1, ConcatFacts
<1> HIDE DEF two
<1>4. three \in Seq(S) /\ Range(three) = P(0) \cup P(1) \cup P(2)
  BY <1>1, <1>3, ConcatFacts
<1> HIDE DEF three
<1>5. four \in Seq(S) /\ Range(four) = P(0) \cup P(1) \cup P(2) \cup P(3)
  BY <1>1, <1>4, ConcatFacts
<1> HIDE DEF four
<1>6. four \o Scored(4) \in Seq(S) /\ Range(four \o Scored(4)) = P(0) \cup P(1) \cup P(2) \cup P(3) \cup P(4)
  BY <1>1, <1>5, ConcatFacts
<1>7. prioritizeBrowserRoots = four \o Scored(4)
  BY DEF prioritizeBrowserRoots, two, three, four
<1> QED
  BY <1>2, <1>6, <1>7

LEMMA StartFacts ==
  ASSUME browser \in Browsers
  PROVE  /\ StartQueue \in Seq(Entries) /\ InOrder(StartQueue)
         /\ \A e \in Range(StartQueue) : e.path \in Range(Roots) /\ e.depth = 0
         /\ \A p \in Range(Roots) : \E e \in Range(StartQueue) : e.path = p /\ e.depth = 0
<1> DEFINE roots == prioritizeBrowserRoots
<1>1. /\ roots \in Seq(Range(Roots)) /\ Range(roots) = Range(Roots)
      /\ DOMAIN roots = 1..Len(roots) /\ Len(roots) \in Nat
  BY PrioritizedFacts
<1>2. StartQueue = [i \in DOMAIN roots |-> [path |-> roots[i], depth |-> 0]]
  BY DEF StartQueue
<1> HIDE DEF roots
<1>3. \A i \in DOMAIN roots : roots[i] \in Range(Roots) /\ roots[i] \in Paths
  BY <1>1, BrowserFacts DEF Range
<1>4. 0 \in 0..MaxDepth
  BY PlacementAssumption
<1>5. StartQueue \in Seq(Entries)
  BY <1>1, <1>2, <1>3, <1>4 DEF Entries
<1>6. InOrder(StartQueue)
  BY <1>1, <1>2 DEF InOrder
<1>7. \A e \in Range(StartQueue) : e.path \in Range(Roots) /\ e.depth = 0
  BY <1>2, <1>3 DEF Range
<1>8. ASSUME NEW p \in Range(Roots) PROVE \E e \in Range(StartQueue) : e.path = p /\ e.depth = 0
  <2>1. PICK i \in DOMAIN roots : roots[i] = p
    BY <1>1 DEF Range
  <2>2. StartQueue[i] \in Range(StartQueue)
    BY <1>2, <2>1 DEF Range
  <2> QED
    BY <1>2, <2>1, <2>2
<1> QED
  BY <1>5, <1>6, <1>7, <1>8

\* Taking the first entry from a queue in order, and adding entries one step deeper.
LEMMA TailFacts ==
  ASSUME NEW S, NEW q \in Seq(S), q # <<>>
  PROVE  /\ Head(q) \in S /\ Tail(q) \in Seq(S)
         /\ Range(q) = {Head(q)} \cup Range(Tail(q))
         /\ \A i \in DOMAIN Tail(q) : i + 1 \in DOMAIN q /\ Tail(q)[i] = q[i + 1]
<1>1. /\ Head(q) = q[1] /\ Head(q) \in S /\ Tail(q) \in Seq(S) /\ 1 \in DOMAIN q
      /\ DOMAIN q = 1..Len(q) /\ DOMAIN Tail(q) = 1..Len(q) - 1 /\ Len(q) \in Nat
      /\ \A i \in DOMAIN Tail(q) : i + 1 \in DOMAIN q /\ Tail(q)[i] = q[i + 1]
  OBVIOUS
<1>2. ASSUME NEW i \in DOMAIN q PROVE q[i] \in {Head(q)} \cup Range(Tail(q))
  <2>1. CASE i = 1
    BY <1>1, <2>1
  <2>2. CASE i # 1
    <3>1. i - 1 \in DOMAIN Tail(q) /\ (i - 1) + 1 = i
      BY <1>1, <2>2
    <3>2. Tail(q)[i - 1] = q[i]
      BY <1>1, <3>1
    <3> QED
      BY <3>1, <3>2 DEF Range
  <2> QED
    BY <2>1, <2>2
<1>3. Range(q) \subseteq {Head(q)} \cup Range(Tail(q))
  BY <1>2 DEF Range
<1>4. {Head(q)} \cup Range(Tail(q)) \subseteq Range(q)
  BY <1>1 DEF Range
<1> QED
  BY <1>1, <1>3, <1>4

LEMMA OrderAfterHead ==
  ASSUME NEW q \in Seq(Entries), q # <<>>, InOrder(q)
  PROVE  /\ InOrder(Tail(q))
         /\ \A e \in Range(q) : Head(q).depth <= e.depth /\ e.depth <= Head(q).depth + 1
<1>1. /\ Head(q) = q[1] /\ 1 \in DOMAIN q /\ DOMAIN q = 1..Len(q) /\ Len(q) \in Nat
      /\ DOMAIN Tail(q) = 1..Len(q) - 1
      /\ \A i \in DOMAIN Tail(q) : i + 1 \in DOMAIN q /\ Tail(q)[i] = q[i + 1]
  OBVIOUS
<1>2. ASSUME NEW i \in DOMAIN Tail(q), NEW j \in DOMAIN Tail(q), i <= j
      PROVE  /\ Tail(q)[i].depth <= Tail(q)[j].depth
             /\ Tail(q)[j].depth <= Tail(q)[i].depth + 1
  <2>1. i + 1 \in DOMAIN q /\ j + 1 \in DOMAIN q /\ i + 1 <= j + 1
    BY <1>1, <1>2
  <2>2. q[i + 1].depth <= q[j + 1].depth /\ q[j + 1].depth <= q[i + 1].depth + 1
    BY <2>1 DEF InOrder
  <2> QED
    BY <1>1, <2>2
<1>3. \A i \in DOMAIN q : q[1].depth <= q[i].depth /\ q[i].depth <= q[1].depth + 1
  <2>1. \A i \in DOMAIN q : 1 <= i
    BY <1>1
  <2> QED
    BY <1>1, <2>1 DEF InOrder
<1> QED
  BY <1>1, <1>2, <1>3 DEF InOrder, Range

LEMMA OrderAfterMore ==
  ASSUME NEW a \in Seq(Entries), NEW b \in Seq(Entries), InOrder(a), NEW d \in Nat,
         \A e \in Range(a) : d <= e.depth /\ e.depth <= d + 1,
         \A e \in Range(b) : e.depth = d + 1
  PROVE  InOrder(a \o b)
<1>1. /\ DOMAIN (a \o b) = 1..Len(a) + Len(b)
      /\ \A i \in 1..Len(a) : (a \o b)[i] = a[i] /\ i \in DOMAIN a
      /\ DOMAIN a = 1..Len(a) /\ DOMAIN b = 1..Len(b) /\ Len(a) \in Nat /\ Len(b) \in Nat
  OBVIOUS
<1>2. ASSUME NEW i \in DOMAIN (a \o b), i \notin 1..Len(a)
      PROVE  (a \o b)[i].depth = d + 1
  <2>1. i - Len(a) \in DOMAIN b /\ (a \o b)[i] = b[i - Len(a)]
    BY <1>1, <1>2
  <2> QED
    BY <2>1 DEF Range
<1>3. \A i \in 1..Len(a) : d <= (a \o b)[i].depth /\ (a \o b)[i].depth <= d + 1
  BY <1>1 DEF Range
<1>4. \A i \in DOMAIN (a \o b) : (a \o b)[i].depth \in Int
  <2>1. a \o b \in Seq(Entries)
    OBVIOUS
  <2> HIDE DEF Entries
  <2>2. \A i \in DOMAIN (a \o b) : (a \o b)[i] \in Entries
    BY <2>1
  <2> QED
    BY <2>2 DEF Entries
<1>5. ASSUME NEW i \in DOMAIN (a \o b), NEW j \in DOMAIN (a \o b), i <= j
      PROVE  /\ (a \o b)[i].depth <= (a \o b)[j].depth
             /\ (a \o b)[j].depth <= (a \o b)[i].depth + 1
  <2>1. CASE j \in 1..Len(a)
    <3>1. i \in 1..Len(a)
      BY <1>1, <1>5, <2>1
    <3> QED
      BY <1>1, <1>5, <2>1, <3>1 DEF InOrder
  <2>2. CASE j \notin 1..Len(a)
    BY <1>2, <1>3, <1>4, <2>2
  <2> QED
    BY <2>1, <2>2
<1> QED
  BY <1>5 DEF InOrder
-----------------------------------------------------------------------------
LEMMA SameBrowser ==
  ASSUME browser' = browser
  PROVE  /\ Paths' = Paths /\ Entries' = Entries /\ Level' = Level
         /\ \A p : FoldersOf(p)' = FoldersOf(p) /\ Matching(p)' = Matching(p)
BY DEF Paths, Entries, Level, FoldersOf, Matching, Within

LEMMA SameSearch ==
  ASSUME SearchInv, UNCHANGED <<pc, call, native, queue, seen, browser>>
  PROVE  SearchInv'
<1>1. /\ Paths' = Paths /\ Entries' = Entries /\ Level' = Level
      /\ \A p : FoldersOf(p)' = FoldersOf(p) /\ Matching(p)' = Matching(p)
  BY SameBrowser
<1>2. SearchTypes'
  BY <1>1 DEF SearchInv, SearchTypes
<1>3. SearchFindsAll'
  BY <1>1 DEF SearchInv, SearchFindsAll
<1>4. (pc = "search" => Searching)'
  <2>1. \A rank : Ranked(rank)' = Ranked(rank)
    BY <1>1 DEF Ranked, Reached
  <2> QED
    BY <1>1, <2>1 DEF SearchInv, Searching
<1> QED
  BY <1>2, <1>3, <1>4 DEF SearchInv

\* Where the call is past the search, or has ended.
LEMMA SearchOver ==
  ASSUME SearchInv, UNCHANGED <<native, queue, seen, browser>>, pc' \notin {"search", "configured"}
  PROVE  SearchInv'
<1>1. SearchTypes'
  BY SameBrowser DEF SearchInv, SearchTypes
<1> QED
  BY <1>1 DEF SearchInv, SearchFindsAll

LEMMA StartStep ==
  ASSUME SearchInv, NEW t \in Tracks, NEW dry \in BOOLEAN, EnsureOnTrack(t, dry)
  PROVE  SearchInv'
<1>1. /\ browser' = browser /\ queue' = StartQueue /\ seen' = {} /\ native' = FALSE
      /\ call'.dry = dry /\ pc' \in {"idle", IF dry THEN "configured" ELSE "search"}
  BY DEF EnsureOnTrack, End, Goto, fixed
<1>2. browser \in Browsers
  BY DEF SearchInv, SearchTypes
<1>3. SearchTypes'
  BY <1>1, <1>2, StartFacts, SameBrowser DEF SearchTypes
<1>4. SearchFindsAll'
  BY <1>1 DEF SearchFindsAll
<1>5. Searching'
  <2>1. \A e \in Range(StartQueue) : e.path \in Level[e.depth]
    BY <1>2, StartFacts, LevelZero
  <2>2. InOrder(StartQueue)
    BY <1>2, StartFacts
  <2> DEFINE none == [q \in {} |-> 0]
  <2>3. none \in [{} -> 0..MaxDepth]
    OBVIOUS
  <2>4. Ranked(none)'
    <3>1. \A p \in Range(Roots) : \E e \in Range(StartQueue) : e.path = p /\ e.depth <= 0
      BY <1>2, StartFacts
    <3> HIDE DEF none
    <3> QED
      BY <1>1, <3>1 DEF Ranked, Reached
  <2> HIDE DEF none
  <2> QED
    BY <1>1, <2>1, <2>2, <2>3, <2>4, SameBrowser DEF Searching, InOrder
<1> QED
  BY <1>3, <1>4, <1>5 DEF SearchInv

\* A path that was opened before is not opened again.
LEMMA SkipStep ==
  ASSUME SearchInv, SearchBrowser, Head(queue).path \in seen
  PROVE  SearchInv'
<1>1. /\ queue # <<>> /\ queue' = Tail(queue) /\ pc = "search" /\ pc' = "search"
      /\ UNCHANGED <<seen, native, browser>>
  BY DEF SearchBrowser, Goto, fixed
<1>2. SearchTypes /\ Searching
  BY <1>1 DEF SearchInv
<1>3. /\ Head(queue) \in Entries /\ Tail(queue) \in Seq(Entries) /\ InOrder(Tail(queue))
      /\ Range(queue) = {Head(queue)} \cup Range(Tail(queue))
  BY <1>1, <1>2, TailFacts, OrderAfterHead DEF SearchTypes, Searching
<1>4. SearchTypes'
  BY <1>1, <1>2, <1>3, SameBrowser DEF SearchTypes
<1>5. PICK rank \in [seen -> 0..MaxDepth] : Ranked(rank)
  BY <1>2 DEF Searching
<1>6. ASSUME NEW p, NEW k \in Nat, Reached(rank, p, k) PROVE Reached(rank, p, k)'
  <2>1. CASE p \in seen /\ rank[p] <= k
    BY <1>1, <2>1 DEF Reached
  <2>2. CASE \E e \in Range(queue) : e.path = p /\ e.depth <= k
    <3>1. PICK e \in Range(queue) : e.path = p /\ e.depth <= k
      BY <2>2
    <3>2. CASE e = Head(queue)
      <4>1. p \in seen /\ rank[p] <= e.depth /\ rank[p] \in Int /\ e.depth \in Int
        BY <1>3, <1>5, <3>1, <3>2 DEF Ranked, Entries
      <4> QED
        BY <1>1, <3>1, <4>1 DEF Reached
    <3>3. CASE e \in Range(Tail(queue))
      BY <1>1, <3>1, <3>3 DEF Reached
    <3> QED
      BY <1>3, <3>2, <3>3
  <2> QED
    BY <1>6, <2>1, <2>2 DEF Reached
<1>7. Ranked(rank)'
  <2>1. \A p : FoldersOf(p)' = FoldersOf(p)
    BY <1>1, SameBrowser
  <2>2. \A q \in seen : rank[q] + 1 \in Nat
    OBVIOUS
  <2>3. \A p \in Range(Roots) : Reached(rank, p, 0)'
    BY <1>5, <1>6 DEF Ranked
  <2>4. \A q \in seen : rank[q] < MaxDepth => \A p \in FoldersOf(q) : Reached(rank, p, rank[q] + 1)'
    BY <1>5, <1>6, <2>2 DEF Ranked
  <2>5. \A q \in seen, e \in Range(Tail(queue)) : rank[q] <= e.depth
    BY <1>3, <1>5 DEF Ranked
  <2> QED
    BY <1>1, <2>1, <2>3, <2>4, <2>5 DEF Ranked
<1>8. Searching'
  <2>1. \A e \in Range(Tail(queue)) : e.path \in Level[e.depth]
    BY <1>2, <1>3 DEF Searching
  <2>2. InOrder(queue)'
    BY <1>1, <1>3 DEF InOrder
  <2> QED
    BY <1>1, <1>2, <1>5, <1>7, <2>1, <2>2, SameBrowser DEF Searching
<1> QED
  BY <1>1, <1>4, <1>8 DEF SearchInv, SearchFindsAll

\* A path that holds no sidecar is opened: its rank is how deep it was queued.
LEMMA OpenStep ==
  ASSUME SearchInv, queue # <<>>, pc = "search", NEW current, current = Head(queue),
         current.path \notin seen, ~Matching(current.path),
         queue' = Enqueue(Tail(queue), current), seen' = seen \cup {current.path},
         pc' = "search", UNCHANGED <<native, browser>>
  PROVE  SearchInv'
<1>1. SearchTypes /\ Searching
  BY DEF SearchInv
<1>2. /\ current \in Entries /\ Tail(queue) \in Seq(Entries) /\ InOrder(Tail(queue))
      /\ Range(queue) = {current} \cup Range(Tail(queue))
      /\ \A e \in Range(queue) : current.depth <= e.depth /\ e.depth <= current.depth + 1
  BY <1>1, TailFacts, OrderAfterHead DEF SearchTypes, Searching
<1>3. current.path \in Paths /\ current.depth \in 0..MaxDepth /\ current.depth \in Nat
  BY <1>2 DEF Entries
<1> DEFINE more == FoldersIn(current)
<1>4. /\ more \in Seq(Entries)
      /\ \A e \in Range(more) :
              /\ e.path \in FoldersOf(current.path) /\ e.depth = current.depth + 1
              /\ current.depth \in 0..MaxDepth - 1
      /\ current.depth < MaxDepth =>
              \A p \in FoldersOf(current.path) :
                \E e \in Range(more) : e.path = p /\ e.depth = current.depth + 1
  BY <1>1, <1>2, FoldersInFacts DEF SearchTypes
<1>5. queue' = Tail(queue) \o more
  BY DEF Enqueue
<1> HIDE DEF more
<1>6. queue' \in Seq(Entries) /\ Range(queue') = Range(Tail(queue)) \cup Range(more)
  <2>1. /\ Tail(queue) \o more \in Seq(Entries)
        /\ Range(Tail(queue) \o more) = Range(Tail(queue)) \cup Range(more)
    BY <1>2, <1>4, ConcatFacts
  <2> QED
    BY <1>5, <2>1
<1>7. InOrder(queue')
  BY <1>2, <1>3, <1>4, <1>5, OrderAfterMore
<1>8. SearchTypes'
  BY <1>1, <1>3, <1>6, SameBrowser DEF SearchTypes
<1>9. PICK rank \in [seen -> 0..MaxDepth] : Ranked(rank)
  BY <1>1 DEF Searching
<1> PICK next : next = [q \in seen \cup {current.path} |-> IF q \in seen THEN rank[q] ELSE current.depth]
  OBVIOUS
<1>10. /\ next \in [seen' -> 0..MaxDepth] /\ next[current.path] = current.depth
       /\ \A q \in seen : next[q] = rank[q] /\ rank[q] \in 0..MaxDepth
  BY <1>3
<1>11. ASSUME NEW p, NEW k \in Nat, Reached(rank, p, k) PROVE Reached(next, p, k)'
  <2>1. CASE p \in seen /\ rank[p] <= k
    BY <1>10, <2>1 DEF Reached
  <2>2. CASE \E e \in Range(queue) : e.path = p /\ e.depth <= k
    <3>1. PICK e \in Range(queue) : e.path = p /\ e.depth <= k
      BY <2>2
    <3>2. CASE e = current
      BY <1>10, <3>1, <3>2 DEF Reached
    <3>3. CASE e \in Range(Tail(queue))
      BY <1>6, <3>1, <3>3 DEF Reached
    <3> QED
      BY <1>2, <3>1, <3>2, <3>3
  <2> QED
    BY <1>11, <2>1, <2>2 DEF Reached
<1>12. Ranked(next)'
  <2>1. \A p : FoldersOf(p)' = FoldersOf(p)
    BY SameBrowser
  <2>2. \A p \in Range(Roots) : Reached(next, p, 0)'
    BY <1>9, <1>11 DEF Ranked
  <2>3. ASSUME NEW q \in seen, rank[q] < MaxDepth, NEW p \in FoldersOf(q)
        PROVE  Reached(next, p, next[q] + 1)'
    <3>1. next[q] = rank[q] /\ rank[q] + 1 \in Nat
      BY <1>10
    <3>2. Reached(rank, p, rank[q] + 1)
      BY <1>9, <2>3 DEF Ranked
    <3>3. Reached(next, p, rank[q] + 1)'
      BY <3>1, <3>2, <1>11
    <3> QED
      BY <3>1, <3>3 DEF Reached
  <2>4. ASSUME current.depth < MaxDepth, NEW p \in FoldersOf(current.path)
        PROVE  Reached(next, p, current.depth + 1)'
    <3>1. PICK e \in Range(more) : e.path = p /\ e.depth = current.depth + 1
      BY <1>4, <2>4
    <3> QED
      BY <1>3, <1>6, <3>1 DEF Reached
  <2>5. ASSUME NEW q \in seen', NEW e \in Range(queue') PROVE next[q] <= e.depth
    <3>1. next[q] <= current.depth /\ next[q] \in Int
      BY <1>2, <1>3, <1>9, <1>10 DEF Ranked
    <3>2. current.depth <= e.depth /\ e.depth \in Int
      <4>1. CASE e \in Range(Tail(queue))
        <5>1. e \in Entries
          BY <1>2, <4>1, ListedFacts
        <5> QED
          BY <1>2, <4>1, <5>1 DEF Entries
      <4>2. CASE e \in Range(more)
        BY <1>3, <1>4, <4>2
      <4> QED
        BY <1>6, <4>1, <4>2
    <3> QED
      BY <1>3, <3>1, <3>2
  <2>6. \A q \in seen' : next[q] < MaxDepth =>
           \A p \in FoldersOf(q) : Reached(next, p, next[q] + 1)'
    <3>1. ASSUME NEW q \in seen', next[q] < MaxDepth, NEW p \in FoldersOf(q)
          PROVE  Reached(next, p, next[q] + 1)'
      <4>1. CASE q \in seen
        BY <1>10, <2>3, <3>1, <4>1
      <4>2. CASE q = current.path
        <5>1. Reached(next, p, current.depth + 1)'
          BY <1>10, <2>4, <3>1, <4>2
        <5> QED
          BY <1>10, <4>2, <5>1 DEF Reached
      <4> QED
        BY <4>1, <4>2
    <3> QED
      BY <3>1
  <2> QED
    BY <2>1, <2>2, <2>5, <2>6 DEF Ranked
<1>13. Searching'
  <2>1. ASSUME NEW e \in Range(queue') PROVE e.path \in Level[e.depth]
    <3>1. CASE e \in Range(Tail(queue))
      BY <1>1, <1>2, <3>1 DEF Searching
    <3>2. CASE e \in Range(more)
      <4>1. current.path \in Level[current.depth] /\ browser \in Browsers
        BY <1>1, <1>2 DEF Searching, SearchTypes
      <4>2. e.path \in Level[current.depth + 1]
        BY <1>4, <3>2, <4>1, LevelDown
      <4> QED
        BY <1>4, <3>2, <4>2
    <3> QED
      BY <1>6, <3>1, <3>2
  <2>2. \A q \in seen' : ~Matching(q)
    BY <1>1 DEF Searching
  <2>3. InOrder(queue)'
    BY <1>7 DEF InOrder
  <2> QED
    BY <1>1, <1>10, <1>12, <2>1, <2>2, <2>3, SameBrowser DEF Searching
<1> QED
  BY <1>8, <1>13 DEF SearchInv, SearchFindsAll

LEMMA BrowseStep ==
  ASSUME SearchInv, SearchBrowser
  PROVE  SearchInv'
<1>1. /\ queue # <<>> /\ pc = "search" /\ browser' = browser /\ SearchTypes /\ Searching
  BY DEF SearchInv, SearchBrowser, fixed
<1> DEFINE current == Head(queue)
<1>2. current \in Entries /\ current \in Range(queue)
  BY <1>1, TailFacts DEF SearchTypes
<1>3. CASE current.path \in seen
  BY <1>3, SkipStep
<1>4. CASE current.path \notin seen
  <2>0. seen' = seen \cup {current.path} /\ seen' \subseteq Paths
    BY <1>1, <1>2, <1>4 DEF SearchBrowser, SearchTypes, Entries
  <2>1. CASE pc' = "idle" /\ UNCHANGED <<queue, native>>
    BY <1>1, <2>0, <2>1, SameBrowser DEF SearchInv, SearchTypes, SearchFindsAll
  <2>2. CASE Matching(current.path) /\ native' = TRUE /\ pc' = "configured" /\ UNCHANGED queue
    <3>1. SearchTypes'
      BY <1>1, <2>0, <2>2, SameBrowser DEF SearchTypes
    <3>2. current.path \in Level[current.depth] /\ current.depth \in 0..MaxDepth
      BY <1>1, <1>2 DEF Searching, Entries
    <3>3. SearchFindsAll'
      BY <1>1, <2>2, <3>2, SameBrowser DEF SearchFindsAll
    <3> QED
      BY <2>2, <3>1, <3>3 DEF SearchInv
  <2>3. CASE /\ ~Matching(current.path) /\ queue' = Enqueue(Tail(queue), current)
             /\ pc' = "search" /\ UNCHANGED native
    <3> HIDE DEF current
    <3>1. current = Head(queue)
      BY DEF current
    <3> QED
      BY <1>1, <1>4, <2>0, <2>3, <3>1, OpenStep
  <2> QED
    BY <1>4, <2>1, <2>2, <2>3 DEF SearchBrowser, Goto, End
<1> QED
  BY <1>3, <1>4

\* With the queue empty, what is within the depth has been opened.
LEMMA EndStep ==
  ASSUME SearchInv, SearchEnds
  PROVE  SearchInv'
<1>1. /\ queue = <<>> /\ pc' = "configured" /\ SearchTypes /\ Searching
      /\ UNCHANGED <<native, queue, seen, browser>>
  BY DEF SearchInv, SearchEnds, Goto, fixed, searchVars
<1>2. browser \in Browsers /\ Range(queue) = {}
  BY <1>1 DEF SearchTypes, Range
<1>3. PICK rank \in [seen -> 0..MaxDepth] : Ranked(rank)
  BY <1>1 DEF Searching
<1> DEFINE T == {k \in 0..MaxDepth : \A p \in Level[k] : p \in seen /\ rank[p] <= k}
<1>4. 0 \in T
  BY <1>2, <1>3, LevelZero, PlacementAssumption DEF Ranked, Reached
<1>5. ASSUME NEW k \in 0..MaxDepth - 1, k \in T PROVE k + 1 \in T
  <2>1. k + 1 \in 0..MaxDepth /\ k \in 0..MaxDepth
    BY PlacementAssumption
  <2>2. ASSUME NEW c \in Level[k + 1] PROVE c \in seen /\ rank[c] <= k + 1
    <3>1. PICK p \in Level[k] : c \in FoldersOf(p)
      BY <1>2, LevelUp
    <3>2. p \in seen /\ rank[p] <= k /\ rank[p] \in 0..MaxDepth
      BY <1>5
    <3>3. c \in seen /\ rank[c] <= rank[p] + 1 /\ rank[c] \in 0..MaxDepth
      BY <1>2, <1>3, <3>1, <3>2, PlacementAssumption DEF Ranked, Reached
    <3> QED
      BY <2>1, <3>2, <3>3
  <2> QED
    BY <2>1, <2>2
<1>6. T \in SUBSET (0..MaxDepth)
  OBVIOUS
<1>7. T = 0..MaxDepth
  <2> HIDE DEF T
  <2> QED
    BY <1>4, <1>5, <1>6, Induction, PlacementAssumption
<1>8. \A k \in 0..MaxDepth : \A p \in Level[k] : ~Matching(p)
  BY <1>1, <1>7 DEF Searching
<1>9. native = FALSE
  BY <1>1 DEF SearchTypes, Searching
<1>10. SearchFindsAll'
  <2>1. ~\E k \in 0..MaxDepth : \E p \in Level[k] : Matching(p)
    BY <1>8
  <2> QED
    BY <1>1, <1>9, <2>1, SameBrowser DEF SearchFindsAll
<1>11. SearchTypes'
  BY <1>1, SameBrowser DEF SearchTypes
<1> QED
  BY <1>1, <1>10, <1>11 DEF SearchInv

LEMMA InitSearch == Init => SearchInv
<1> SUFFICES ASSUME Init PROVE SearchInv
  OBVIOUS
<1>1. SearchTypes
  <2>1. <<>> \in Seq(Entries)
    OBVIOUS
  <2> QED
    BY <2>1 DEF Init, SearchTypes
<1> QED
  BY <1>1 DEF Init, SearchInv, SearchFindsAll

LEMMA NextSearch == SearchInv /\ [Next]_vars => SearchInv'
<1> SUFFICES ASSUME SearchInv, [Next]_vars PROVE SearchInv'
  OBVIOUS
<1>1. CASE \E t \in Tracks, dry \in BOOLEAN : EnsureOnTrack(t, dry)
  BY <1>1, StartStep
<1>2. CASE SearchBrowser \/ SearchEnds
  BY <1>2, BrowseStep, EndStep
<1>3. CASE RequireSetup \/ SelectTrack \/ RequireHelper
  BY <1>3, SearchOver DEF RequireSetup, SelectTrack, RequireHelper, Goto, End, fixed, searchVars
<1>4. CASE LoadNative \/ RunStep
  BY <1>4, SearchOver DEF LoadNative, RunStep, Goto, fixed, searchVars
<1>5. CASE Refresh \/ Confirm
  BY <1>5, SearchOver DEF Refresh, Confirm, Goto, End, fixed, searchVars
<1>6. CASE (\E t \in Tracks : LiveLoads(t)) \/ UserActs \/ UNCHANGED vars
  BY <1>6, SameSearch DEF LiveLoads, UserActs, vars, fixed, searchVars
<1> QED
  BY <1>1, <1>2, <1>3, <1>4, <1>5, <1>6 DEF Next, CallStep

(* What was opened has its folders taken care of, and nothing is opened before
   what is nearer to a root: the inductive invariant of findBrowserItem. *)
THEOREM SearchOpensInOrder == Spec => []SearchInv
BY InitSearch, NextSearch, PTL DEF Spec

(* Whatever the browser lists, and in whatever order, the search
   finds a sidecar if and only if one is within its depth. *)
THEOREM SearchIsComplete == Spec => []SearchFindsAll
<1>1. SearchInv => SearchFindsAll
  BY DEF SearchInv
<1> QED
  BY <1>1, SearchOpensInOrder, PTL
-----------------------------------------------------------------------------
(* The types.                                                              *)

\* Before the load was asked for, there is a step of the workflow to run.
Working ==
  /\ front \in {"Live", "other"}
  /\ step.at \in 1..7 /\ (pc \in InPlacement => step.at \in 1..6)
  /\ attempt \in 0..Attempts /\ doubt \subseteq Tracks

LEMMA InitWork == Init => Working
BY PlacementAssumption DEF Init, Working

LEMMA CallWork ==
  ASSUME Working, Types, CallStep
  PROVE  Working'
<1>1. call.track \in Tracks /\ selected \in Tracks
  BY DEF Types
<1>2. CASE SearchBrowser \/ SearchEnds
  BY <1>1, <1>2 DEF Working, SearchBrowser, SearchEnds, Goto, End, Dispatched, InPlacement, liveVars
<1>3. CASE RequireSetup \/ SelectTrack \/ LoadNative \/ RequireHelper
  BY <1>1, <1>3 DEF Working, RequireSetup, SelectTrack, LoadNative, RequireHelper, Goto, End,
     Dispatched, InPlacement, liveVars
<1>4. CASE RunStep
  <2>1. /\ Workflow[1] = "activate_app" /\ Workflow[2] = "menu_click" /\ Workflow[3] = "keystroke"
        /\ Workflow[4] = "type_text" /\ Workflow[5] = "keystroke" /\ Workflow[6] = "load"
    BY DEF Workflow
  <2>2. step.at \in 1..6 /\ pc = "workflow"
    BY <1>4 DEF Working, RunStep, InPlacement
  <2>3. front' \in {"Live", "other"} /\ attempt' = attempt /\ doubt' \subseteq Tracks
    BY <1>1, <1>4 DEF Working, RunStep
  <2>4. \/ /\ step'.at = step.at + 1
           /\ pc' = IF Workflow[step.at] = "load" THEN "refresh" ELSE "workflow"
        \/ pc' = "idle" /\ step' = step
    BY <1>4 DEF RunStep
  <2>5. step.at = 6 \/ (step.at \in 1..5 /\ Workflow[step.at] # "load")
    BY <2>1, <2>2
  <2>6. step'.at \in 1..7 /\ (pc' \in InPlacement => step'.at \in 1..6)
    BY <2>1, <2>2, <2>4, <2>5 DEF InPlacement
  <2> QED
    BY <2>3, <2>6 DEF Working
<1>5. CASE Refresh
  BY <1>1, <1>5 DEF Working, Refresh, Goto, End, Dispatched, InPlacement, liveVars
<1>6. CASE Confirm
  BY <1>1, <1>6, PlacementAssumption DEF Working, Confirm, Goto, End, Dispatched, InPlacement, liveVars
<1> QED
  BY <1>2, <1>3, <1>4, <1>5, <1>6 DEF CallStep

LEMMA NextWork == Working /\ Types /\ [Next]_vars => Working'
<1> SUFFICES ASSUME Working, Types, [Next]_vars PROVE Working'
  OBVIOUS
<1>1. CASE \E t \in Tracks, dry \in BOOLEAN : EnsureOnTrack(t, dry)
  BY <1>1, PlacementAssumption DEF Working, EnsureOnTrack, Goto, End, Dispatched, liveVars
<1>2. CASE CallStep
  BY <1>2, CallWork
<1>3. CASE \E t \in Tracks : LiveLoads(t)
  BY <1>3 DEF Working, LiveLoads
<1>4. CASE UserActs
  BY <1>4 DEF Working, UserActs
<1>5. CASE UNCHANGED vars
  BY <1>5 DEF Working, vars, liveVars
<1> QED
  BY <1>1, <1>2, <1>3, <1>4, <1>5 DEF Next

(* Every variable stays in its range: the search below its depth, the workflow
   among its steps, and the reads of the mirror within their number. *)
THEOREM TypesHold == Spec => []TypeOK
<1>1. PlacementInv => Types
  BY DEF PlacementInv
<1>2. Spec => []Working
  BY <1>1, InitWork, NextWork, PlacementIsAccountedFor, PTL DEF Spec
<1>3. PlacementInv /\ SearchInv /\ Working => TypeOK
  <2> SUFFICES ASSUME Types, SearchTypes, Working PROVE TypeOK
    BY DEF PlacementInv, SearchInv
  <2>1. \A i \in DOMAIN queue : queue[i].depth \in 0..MaxDepth
    <3>1. \A i \in DOMAIN queue : queue[i] \in Entries
      BY DEF SearchTypes
    <3> QED
      BY <3>1 DEF Entries
  <2>2. Len(Workflow) = 6
    BY DEF Workflow
  <2> QED
    BY <2>1, <2>2 DEF Types, SearchTypes, Paths, Working, TypeOK
<1> QED
  BY <1>2, <1>3, PlacementIsAccountedFor, SearchOpensInOrder, PTL
=============================================================================
