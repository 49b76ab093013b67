# laive in TLA+

laive lets an assistant work on an Ableton Live set. A client that speaks MCP
calls tools; the MCP server answers reads from a mirror of the set and sends
writes over a local socket to a Remote Script that runs inside Live. This
directory holds a model of that path, the checks TLC makes of it, and the
theorems TLAPS proves about it.

Five things in the system are hard, and the models are about them:

1. A mutation crosses threads: a worker thread of the Remote Script hands it to
   Live's main thread and stops waiting after five seconds. What was applied,
   how often, in which order, and what was the client told?
2. The mirror is a cache: events, snapshots, lost connections and late mutations
   reach it in every order. Is what a tool reads what Live has?
3. The mirror is a graph in four tables and several lists of ids, changed by
   nine kinds of messages. Do the tables and the lists agree after any of them?
4. A tool is a dozen awaited steps on ids that are positions. Does an edit reach
   what the caller named, and does a call that is refused leave the set alone?
5. The sidecar is loaded by searching Live's browser or by keystrokes, Live
   takes its time, and the user may add one by hand. When can a track end up with two?

## 1. The system

`PY` is `src/packages/live-bridge-remote-script/python/laive`, `P` is `src/packages`.

| component | source | state it keeps | operations | status |
|---|---|---|---|---|
| main-thread task queue | `PY/task_queue.py` | `_queue`, `_draining`, a `response_queue` per request | `submit`, `drain` | modelled |
| control surface | `PY/control_surface.py` | the server, the hub, the queue | `process_request`, `_schedule_on_main_thread`, start, disconnect | partly |
| command server | `PY/server.py` | clients, the topics of each, worker threads | accept, one loop per client, subscribe, unsubscribe, `broadcast_event`, stop | partly |
| listeners | `PY/listeners.py` | the listeners attached to Live's objects | attach, detach, one `_emit_*` per topic | partly |
| Live access | `PY/live_access.py` | none of its own: Live's set | more than fifty reads and edits | not yet |
| clip notes | `PY/clip_notes.py` | none of its own | clear, check, add | not yet |
| protocol, logging (Python) | `PY/protocol.py`, `PY/logging.py` | the rest of an unfinished line | `feed` | not yet |
| bridge client | `P/live-bridge-remote-script/src/bridge/client.js` | the socket, the table of pending requests, the number of the last one | connect, request, subscribe, disconnect | modelled |
| bridge server, fixture runtime | `.../src/bridge/server.js`, `.../src/runtime` | a set in place of Live: song, scenes, tracks, clips, selection | some forty edits with their events; requests are answered at once | partly: the edits and events |
| common package | `P/common/src` | the rest of an unfinished line | messages and their validation | not yet (Framing) |
| state engine | `P/state-engine/src` | tables, lists, selection, scenes, song, dirty paths, `snapshotVersion` | `applySnapshot`, `applyEvent`, `reconcileSubtree`, queries | partly: the graph |
| MCP session | `P/mcp-server/src/session.js` | active session, connecting promise, engine | `ensureConnected`, start, `syncSnapshot`, events, adapters | partly |
| MCP server, command line | `P/mcp-server/src/server.js`, `cli.js` | none between two lines | one request at a time | partly |
| tools | `P/mcp-server/src/default-tools.js` | none between calls; in a call, what its steps found | every tool, step by step: check, confirm, allow, find, edit, refresh | modelled |
| optional adapters | `P/mcp-server/src/optional-adapters.js` | none: Live's browser, the mirror, the desktop | `ensureOnTrack`, `captureDeviceSnapshot`, `applyDeviceSnapshot`, exports | partly |
| interface automation | `P/ui-automation/src` | none: the application in front | guard, then a list of keys and menu clicks | partly: the load |
| sidecar's device, saved-set parser, scripts | | none, or files | | not modelled |

`PROJECT.json` has the same list file by file, with the reason for what is left out.

How they interact:

    MCP client --lines--> MCP server --> tool --> session --request--> worker --submit--> main thread --> Live
                                          |         |                   |                     |
                                          |         |<----response------+                     |
                                          +-reads-->mirror <---------------event--------------+

* Calls: the command line serves one call at a time. A tool reads the mirror
  or awaits one request of the bridge; a write tool then awaits a full snapshot.
* Messages: one socket per session, in both directions. Responses come from the
  worker thread, events from Live's main thread, both into the same socket.
* Shared state: the task queue and `_draining` are used by all workers and by the
  main thread; the sets of clients and topics are too, with no lock.
* Callbacks: Live calls `drain` when it has accepted `schedule_message`, and the
  listeners when the set changes; Node calls the handlers of the socket.

What must hold of each is stated with the modules below; what can go wrong and a
test would hardly reach is listed, with its line, under `hazards` in
`PROJECT.json`. Those without a property name the planned module.

## 2. The modules

| module | models | state, actions |
|---|---|---|
| `TaskQueue` | `task_queue.py`, with `process_request`, `_submit_to_main_thread` and `_schedule_on_main_thread` of `control_surface.py` around it, and the worker loop of `server.py` | program counters of the workers and of the main thread, `_queue`, `_draining`, accepted callbacks, drain's locals, response queues, replies. Worker: `Submit`, `Defer` or `DrainInline`, `Return` or `Timeout`. Main thread: `RunCallback`. Any thread: `CheckDraining`, `EnterDrain`, `Take`, `RunHandler`, `FindEmpty`, `LeaveDrain` |
| `MutationService` | what the Remote Script promises for a mutation | requests accepted, applied, answered |
| `SetView` | what the session promises its tools | versions in Live, versions shown, the call, its answer |
| `BridgeSession` | `session.js`, `client.js`, the tools' shapes, and the other side as they meet it: worker, listeners, broadcast, late mutations | versions of Live's slices, requests and messages on the socket, topics, phase of the session, the batch awaited, the mirror and its version, the call |
| `ProjectShape` | ids and messages: `ids.js`, `normalize.js` | constants only |
| `ProjectTree` | what the engine promises of the structure | a tree of tracks, clips, devices, parameters |
| `StateEngine` | `engine.js`, `queries.js` on tracks, clips, devices, parameters | four tables, four lists, one action per event type, `ApplySnapshot` |
| `NameResolution` | `pickUniqueMatch` and its aliases, which the tools and the adapters share | operators only |
| `ToolCatalog` | `default-tools.js`, tool by tool: the plans a call of each may follow | one definition per tool |
| `ToolPipeline` | the execution of a plan: what each kind of step does, awaits and throws | Live's order of objects, the mirror's, the call, its step and target, what it changed. `Call`, one action per kind of step, `Return`; the user's `UserRearranges` |
| `SidecarPlacement` | `ensureOnTrack`, `findBrowserItem`, `confirmSidecarActiveOnTrack`, with `browserSearchAndLoad` of `ui-automation` | sidecars in Live, being loaded, in the mirror; selection, application in front; the search's queue; the call. One action per awaited step, `LiveLoads`, `UserActs` |
| `FixtureLive` | `fixture-runtime.js` | song, scenes, tracks with their clips, selection, what the last events told. One action per operation |
| `Filters` | `Array.filter`, which the fixture and the search use | one recursive function |
| `TaskQueueProofs`, `StateEngineProofs`, `ToolPipelineProofs`, `ToolCatalogProofs`, `SidecarPlacementProofs`, `FixtureLiveProofs`, `BridgeSessionProofs`, `FiltersProofs` | | theorems, and the lemmas about `Filter` |
| `MCTaskQueue`, `MCBridgeSession`, `MCStateEngine`, `MCToolPipeline`, `MCSidecarPlacement`, `MCFixtureLive` | | instances for TLC |

The `map` of `PROJECT.json` gives the lines of each definition. An operator whose
comment starts with "Mutant of" is not part of a specification: it is a plausible
bug of the definition below it, used to see that a property notices.

### TaskQueue

A step is what the interpreter can interleave: the read of `_draining` and its
write are two steps, because nothing locks them. The handler itself is one step:
it runs on one thread with nobody else in the queue's state. Its effect on the
set is its place in `executed`; its result is `ok` or `error`. The five seconds
are "may have elapsed": `Timeout` is enabled while there is no answer.
`Scheduling` says what `schedule_message` may do: Ableton's defers the callback;
when it raises, or when the class's own stub is in its place, the worker drains
itself (`"inline"`). Two drains at once are then possible, and modelled.

The shortcut for a caller that is the main thread is left out: only unit tests
take it.

### BridgeSession

The set is a few slices with a version each; a snapshot is a `Promise.all` over
the slices. A slice is what Live tells of as one, and `Evented` when every change of it
is told with the new state: that is so for the tempo and the play state
(`listeners.py:19-20`, `transport.changed`). The rest of the song (loop, metronome,
position, signature) has no listener: it changes untold and reaches the mirror with the
next transport event or snapshot. It is no slice of the model, and nothing is
claimed of it. The selection has no event. The events of tracks do not bring the
track's state in the form the session expects; what they do bring is planned as a module of
its own (`LiveMirror`).

All lines of a chunk from the socket are handed out before the continuation of a
promise runs (`jsonl.js:22-34`), and continuations run before the next chunk. So the
client's steps are: the start of a call, the end of a connection attempt, and the handling
of one message or of a close. Chunks matter where an event comes right behind the
last answer of a snapshot: it is put in the mirror first, and the snapshot then
overwrites it. `DeliverLastRead` therefore takes the answer together with any number
of the messages behind it (`DeliverChunk`), and counts the events among them as
overlapped. After any other answer the session only sends requests or writes what has no
events, so that a chunk is the same as its messages one by one. Modelled on the way: a
request of `start` that fails leaves its socket open and subscribed (`leaked`); a call that throws leaves
the rest of its `Promise.all` on the wire (`DeliverUnawaited`); a lost link
rejects what is pending and drops the engine, while a mutation may already be in
the task queue (`late`) and be applied later.

Assumptions. A read of one slice is atomic. A line that is split over chunks
arrives with the last of them. One subscription per slice stands for the four topics. `broadcast_event`
sends to every client when a topic has no subscriber; the other clients that
could be subscribed instead are this session's own leaked connections (`Hears`).

`SetView` is what a tool may count on: a view of the set that is opened for a call, moves on
as Live tells, and is lost. It says what may be shown (`Current`): no version that Live has not
had, and where the call reads the set itself (a refresh, a write, the selection, the
first call of a connection) none that is older than the set was when the call was made,
or than a write that succeeded. The session implements it with `Shown`, the mirror of an
active session; subscriptions, requests, answers and half-read snapshots are
stutters. `asked` is a history for it: the set when the last call was made.

### StateEngine

Ids say where an entity belongs (`TrackOf`, `DeviceOf`, `Section`), as in `ids.js`;
`normalizeTrackBundle` and `buildRuntimeSnapshot` give only parts of the track
they are about (`Bundles`, `Snapshots`). An action is one event with the
whole cascade the code makes: what a bundle no longer names is removed, a removed
device takes its parameters along. Left out: the data of an entity, which an
update replaces as a whole, the order of the lists, and song, selection, scenes
and dirty paths.

`ProjectTree` is the same without tables. `Details` is what `getTrackDetails`
returns for the tracks of `trackList`; the engine implements the tree through it.
`op` records the last message on both levels, so that a step of the engine
must be matched by the same step of the tree and not just by some step.

### ToolCatalog, ToolPipeline, NameResolution

A tool is a plan: a sequence of steps, each of a kind (a check of arguments, a
confirmation, a look-up, a request to Live, a refresh) with the aspects of the set it
changes and those it removes from. A tool with options has several plans, one for
each way through its code. The catalogue is in the order of the calls in the code,
and says of every tool what it is; the pipeline says what every kind of step does.
So a check that is made too late, or a refresh that is made too early, is a matter
of the catalogue, and a wrong target is one of the pipeline.

`set_parameter` finds its target in a way of its own (`ResolveParameter`). Besides an id or a
name of the track it takes a `trackIndex`, which is compared with the index of a visible
track and of a return alike (`IndexOf`), although its schema calls it a "zero-based
visible-track index" (`default-tools.js:2587-2591`); and without any of them it searches the
mixer of every track. What else is given of the device and the parameter decides, or the
call is refused as not found or ambiguous. `ActsOnNamed` says of an index that the edit
reaches one of the tracks that have it.

Of the set `ToolPipeline` keeps the order of the objects that tools target: an id is a
position in it (`track:3`), and a tool that found a position in the mirror acts on
whatever Live has there. `UserRearranges` inserts and deletes between any two steps.
`drift` remembers that the mirror and Live were not the same at some time of the
call. `changed`, `removed` and `shown` are aspects of the set: what the call changed, and
what of it the last snapshot has read. A name is a sequence of words; the aliases
of a name drop leading words of one letter, as `expandLookupAliases` drops `A-`.

A step that asks Live may throw and its edit be made all the same. The session
below is `BridgeSession`'s; here a read may find the mirror replaced by a new one.
`ensureOnTrack` is one step (`Place`) that may come any part of the way; which track
the keys reach is `SidecarPlacement`'s subject.

### SidecarPlacement

One step is what happens between two awaits. Live loads a device some time after it
was told to (`pending`), the user selects another track, changes the application in
front, deletes a sidecar or adds one by hand, as the setup instructions say
(`optional-adapters.js:19`), and the mirror shows what Live had at the last refresh: no
listener tells of devices, and `ensureOnTrack` asks the mirror without a refresh.
`doubt` is history: the tracks on which a load was started and never confirmed to the
caller, or was "confirmed" by another sidecar than the one that was coming. `unseen` is
history too: the tracks where the user added one since the status last showed them. Keys
go to the application in front and the load to the selected track, whatever the call's track is. The 250 ms between two attempts are left out: Live may
load or not between any two steps.

### FixtureLive

Each operation is one action: the runtime is synchronous. The two halves of a
change that the code keeps in two places (the slot that a track plays, and the
clip's own `is_playing`; a clip's id and its index) are both kept. `told` is what
the messages of the last operation speak of, as the session maps them
(`mapBridgeEvent`): the data they bring, or the objects that their dirty paths name
(`track:3` is the track and none of its clips; `song.clips` is no object's); an event whose
topic nobody subscribes to tells nothing. `ChangesAreTold` compares this with what the
mirror would show otherwise: the objects' data, and apart from it what plays, of a track
(`PlayingSlots`) and of a clip (`PlayingClips`).

## 3. What TLC checks

| run | states | shows |
|---|---|---|
| `task_queue_defer` | 172,959, about 20 s | with Ableton's scheduler: all mutations run, over all clients in the order they were queued (`FifoExecution`, `EveryMutationRuns`), and a queued request always has a drain to come (`NoLostWakeup`), though `drain` may return early |
| `task_queue_inline` | 96,734, about 12 s | when scheduling may also fail: no mutation runs twice (`AtMostOnce`) and none is lost: it is queued, in one thread's hands or done (`OnePlace`), an answer is its own handler's and never a late one (`AnswerIsTheHandlers`, `Accounted`), `_draining` is never left set (`FlagHeldByDrainer`), each request is answered, and the whole implements `MutationService` |
| `task_queue_timeout` | violation | a timeout's reply does not mean that the mutation is not applied |
| `bridge_session` | 382,610, about 40 s | a successful write is seen by every later read, across connections (`ReadYourWrites`); nothing in a used mirror predates its connection; a slice whose changes are told (the transport) is Live's once its events are in, unless a snapshot overlapped one of them (`UnracedIsCurrent`); refreshes report newer versions; every call returns; and the whole implements `SetView` (`ImplementsView`) |
| `bridge_session_stale` | violation | the exception in `UnracedIsCurrent` is real: an event applied while a snapshot is read is overwritten, and the mirror stays behind |
| `bridge_session_versions` | violation | after a reconnection state versions start again |
| `state_engine` | 18,027, about 35 s | lists and tables agree, no list holds an id that is in no table, and the queries show the tree the messages describe |
| `tool_pipeline` | 254,236, about 15 s | every tool, with every argument and any failure: an edit reaches the object whose id or name was given, or one with the index given, unless the set was rearranged (`ActsOnNamed`), an error of the server's own leaves the set as it was (`RefusalChangesNothing`), a success that names a version was read after the last change (`SuccessIsShown`), previews change nothing and clips are deleted only when confirmed (`Consent`) |
| `tool_named_target` | violation | a device snapshot applied to a named track or device goes to the ids it was captured from |
| `sidecar_placement` | 1,162,529, about 2 min | no load onto a track that has a sidecar or has one coming, but where a load was never confirmed, where the user added one unseen, or where the keystrokes reach a track the user selected (`NoDoubleLoad`); the search finds an item if and only if one is within its depth (`SearchFindsAll`); previews change nothing, every call ends |
| `fixture_live` | 1,110,415, about 90 s | what plays is recorded the same twice (`PlayingAgrees`), ids of arrangement clips last until a deletion (`NumberingLasts`), moves lose no clip and nothing a clip holds, but in an arrangement with repeated ids, and splits lose no note (`MoveKeepsClips`, `SplitKeepsNotes`), and events tell of every change but those of six operations, and of what plays but in the operations listed (`ChangesAreTold`) |
| `state_engine_orphans` | violation | a track update that keeps a device and drops one of its parameters leaves that parameter in the table the counts and searches read |

Bounds, and why they are enough to be interesting.

* `TaskQueue`: two clients. Two requests of one client are needed for a late
  answer to meet the next request; two clients for two inline drains, or an inline
  drain beside the main thread's. `MaxRequests` is two each, or two and one.
* `BridgeSession`: two slices, the first with events, the second without;
  `MaxLive` allows two changes of the transport, by the user, by a write or by a late
  mutation, so one can race a snapshot and another can follow or come late;
  `MaxConns` and `MaxCalls` are 2, so that the second call meets what the first
  connection left. The actions on the two kinds of slices do not depend on how many
  slices there are.
* `StateEngine`: a track of each section; the visible one has a clip and two
  devices, one of which has two parameters; the return has a clip. The number of
  messages is not bounded: every order of every message is covered.

* `ToolPipeline`: two objects in the set and a third to insert, with names such that
  one is an alias of another's and a part of the third's: exact, partial, ambiguous
  and failing look-ups all happen. `MaxEdits` is 2: one rearrangement between the
  look-up and the edit, and one that undoes it. One call at a time is the server's own
  bound, and a call leaves nothing behind but the mirror and the set, so that calls are
  not bounded.
* `SidecarPlacement`: a visible track and a return; a library that is a tree, as the
  bridge's paths by position make it (`live_access.py:2754-2784`), with the sidecar in the deepest
  folder that is opened, only in one below it, or nowhere;
  with and without an installed file and the helper. `MaxDepth` and `Attempts` are 2 where
  the code has 5 and 8: first, middle and last are different cases. Two calls: the second meets
  what the first left pending. `MaxMoves` is 2: away and back, or removed and added.
* `FixtureLive`: the default set with two slots, three beats, and values on both sides of
  the limits; `MaxCalls` is 3: two operations that prepare and one that goes wrong
  (create, delete, split). A move among repeated ids takes four; there `MoveKeepsClips`
  makes an exception and the theorem covers what is left of it.

`CHECK_DEADLOCK FALSE` is said where calls and requests are bounded: the instance
then stops. `StateEngine` and `ToolPipeline` never do.

Fairness (`FairSpec`).

* `TaskQueue`: each thread that can run runs; Live calls the callbacks it accepted;
  the five seconds pass. A client need not send (`Submit` has no fairness), and the
  choice between answer and timeout is free.
* `BridgeSession`: the worker and Node run while they have something to do, and a
  connection attempt ends. Nothing is assumed of the user, of the caller, of late
  mutations or of the link. The client has no timeout: `EveryCallReturns` rests on
  a worker that answers, as `submit`'s timeout lets it do for mutations.

* `SidecarPlacement`: the call's own steps go on (`WF_vars(CallStep)`): what it awaits is
  answered or fails. Nothing is assumed of Live's loading: `CallEnds` holds although
  the device may never come.

### Findings

Each violation run is a disagreement between the code and a line of the
repository, which `PROJECT.json` quotes: a reply that reports a failure for a mutation
that is applied (`task_queue.py:25`); a snapshot that overwrites a newer event
(`session.js:1352`); state versions that start again (`session.js:1495`);
parameters that outlive their device's list (`engine.js:200`); a snapshot's own ids
that win over the names the caller gives (`optional-adapters.js:616`).

Met on the way, not in a run of their own, and written into the models as the code
has them:

* `replace_notes` and `set_clip_envelope` remove what was there without a
  confirmation, and the interface tools ask for none, where `docs/safety-policy.md`
  names such tools as ones that require it. `Consent` is about clips, which every tool
  that deletes them asks for.
* Tracks that `listTracks` leaves out (returns, the master) never show a sidecar: each
  `ensureOnTrack` on one loads another and answers "dispatched". A sidecar that the user
  has added by hand, as the setup instructions ask, is not seen before the next refresh, and
  `ensureOnTrack` loads a second one. A preview can fail
  with `setup_required` where the call itself would load.
* Steps `set_text_field`, `press_button`, `wait_for_window` and `focus_section` of a
  workflow do nothing and are reported as executed.
* In the fixture: the id of a new arrangement clip repeats one that exists once
  another was deleted, after which deletions act on both, and a split goes by
  an index that is stale; notes that count from the clip's start are taken for the song's when
  none is before the clip; six operations emit no event that brings their change
  (`Silent`); launching a clip or a scene, stopping clips, and deleting or moving the clip that
  plays change what plays of tracks or clips that no event names (`SlotsUntold`,
  `ClipsUntold`); a move among repeated ids puts a copy of the first clip in place of each
  (`fixture-runtime.js:1187-1189`); an envelope cannot follow a volume of 0.

## 4. What is proved

For every value of the constants that satisfies the assumptions, and with no bound
but those that are constants:

| theorem | says |
|---|---|
| `TypeCorrect`, `QueueCorrect` | `TypeOK`; the inductive invariant `QueueInv` |
| `MutationsRunAtMostOnce` | `Spec => []AtMostOnce` |
| `AnswersAreTheHandlers` | `Spec => []AnswerIsTheHandlers` |
| `MutationPathImplementsService` | `TaskQueue` implements `MutationService` |
| `MutationsRunInOrder` | with a scheduler that defers, `[]FifoExecution` |
| `NoRequestIsLeftWaiting` | with a scheduler that defers, `[]NoLostWakeup` |
| `EngineTypeCorrect`, `ListsAlwaysAgree`, `NothingDangles` | `[]TypeOK`, `[]ListsAgree`, `[]NoDangling` of `StateEngine` |
| `EngineImplementsTree` | `StateEngine` implements `ProjectTree` |
| `RequestsAreInOnePlace`, `AnswersAreAccountedFor`, `FlagIsHeldByADrainer` | `[]OnePlace`, `[]Accounted`, `[]FlagHeldByDrainer` of `TaskQueue` |
| `CallIsFollowed`, `PipelineTypeCorrect` | the inductive invariant `CallInv` of `ToolPipeline`, and its `TypeOK` |
| `EditsReachWhatWasNamed` | `[]ActsOnNamed`, for any objects, names and plans |
| `NothingWithoutConsent` | `[](ConfirmedFirst => Consent)` |
| `SuccessShows` | `[](RefreshedLast => SuccessIsShown)` |
| `RefusalsChangeNothing` | `[](ChecksFirst => RefusalChangesNothing)` |
| `ToolsAskFirst`, `ToolsCheckFirst`, `ToolsShowTheirWork` | `[]Consent`, `[]RefusalChangesNothing`, `[]SuccessIsShown` of the tools of `ToolCatalog`, with no further condition |
| `PlacementIsAccountedFor`, `NoSecondSidecar`, `PreviewsChangeNothing` | the inductive invariant `PlacementInv` of `SidecarPlacement`, and of any step `NoDoubleLoad` and `PreviewChangesNothing` |
| `SearchOpensInOrder`, `SearchIsComplete` | the inductive invariant `SearchInv` of the browser's search, and `[]SearchFindsAll`: any browser, any depth |
| `TypesHold` (sidecar) | `[]TypeOK` of `SidecarPlacement` |
| `PlayingAlwaysAgrees` | `[]PlayingAgrees` of `FixtureLive`, with no bound on operations but the constant |
| `AlwaysShaped`, `TypesHold` (fixture) | the inductive invariant `Inv /\ Shape` of `FixtureLive`, and its `[]TypeOK` |
| `NumbersLast`, `MovesKeepClips`, `SplitsKeepNotes`, `ChangesAlwaysTold` | `NumberingLasts`, `MoveKeepsClips`, `SplitKeepsNotes`, `ChangesAreTold`: each of any step |
| `SessionIsFollowed`, `SessionTypeCorrect` | the inductive invariant of `BridgeSession`, in five layers, and its `TypeOK` |
| `WritesAreRead`, `MirrorIsOfThisConnection` | `[]ReadYourWrites` and `[]MirrorPostdatesConnection`, for any slices, with any number of losses, writes and late mutations |
| `EventsKeepTheMirror` | `[]UnracedIsCurrent`: of a slice whose every change is told, an event that no snapshot overlaps is never lost on the mirror |
| `VersionsAdvance` | `[]RefreshAdvances` |
| `SessionImplementsView` | `BridgeSession` implements `SetView`, for any slices and any number of losses and edits |

Assumptions: `ThreadAssumption` (the main thread is no worker; requests are
numbered), `IdAssumption` (an id names one track, one device and one section, and
there is one master), `EngineAssumption` (the kinds of messages are those of the
engine), `TargetAssumption` (names are not empty), `PlanAssumption` (a step removes
only from what it changes; the tools that automate the desktop name no target),
`PlacementAssumption`, `BrowserAssumption` (the roots and each folder that is listed can be
asked for; a score has five values), `SlotAssumption` (slots are numbers), `InputAssumption`
(numbers are numbers; a list of notes is a list of notes), `SessionAssumption` (the
slices that come with the selection have no events; slices are read in some order;
bounds are numbers). TLC evaluates each of them on the instance.

The argument for the queue. `AtMostOnce` is not inductive: a request that is still
in the queue although it has run would run again. `QueueInv` is
`TypeOK /\ OnePlace /\ Accounted`: each request is in the queue, in the hands of one
thread, or done; its outcome is there exactly when it is done; a request still
being served has no answer. `TypeOK` alone is not inductive either, because the
outcome is stored under `current[t]`, which is a request only while `pc[t] = "run"`.
Each action has a lemma; the steps that touch neither queue nor outcomes
share `QuietStep`. The refinement maps `Submit` to `Accept`, `RunHandler` to
`Apply`, `Return` and `Timeout` to `Answer`, and every other step to a stutter.
The order of execution needs `DeferInv` as well: no worker is ever inside drain,
and `_draining` is set exactly while the main thread is past its first two steps.

The argument for the engine. `GraphInv` is `TypeOK /\ ListsAgree /\ NoDangling`, and
inductive: `NoDangling` needs ids to say where they belong, or the removal of one
track could take a device of another. For the refinement the tree is first shown to
be a function of the tables alone (`Held`, `DetailsHeld`): under `GraphInv` the
queries have nothing to drop. Then each action is matched with the tree's.

The argument for a call. `ActsOnNamed` speaks of calls that have changed something;
`CallInv` says why it holds from the first step on. While there was no `drift` the mirror is
Live (`Found`); a call by id has its position from the start, and a call by name has
either none, or that of an object with the name: `ExactIsPicked` says that where an
object has the name as an alias, a search that succeeds has found it, so that a
partial match is never taken instead. A call that names a target and has none cannot
edit (`TargetThere`). The theorems about consent, refusals and versions take the form of
the catalogue as a hypothesis (`ConfirmedFirst`, `ChecksFirst`, `RefreshedLast`): they hold of any
catalogue of that form. Their invariants are `Confirmed` (the confirmations before the present
step were given), `Checked` (before the last step that can refuse, nothing was changed but what
is tolerated) and `Shown` (the plan is one of its tool's).

The argument for the catalogue. `CatalogueFormed` goes through it tool by tool: a plan is
`Careful` up to a step when all steps before are looks, and almost every plan is a
number of looks, one or more edits and a snapshot, so that lemmas about three, four, five or
six looks do for most. Two kinds of tools edit before their last check, in the code too: a
jump selects a clip before it asks for another one, and a device snapshot sets one
parameter after the other. `Tolerated` says what such a refusal may have changed, and nothing else.

The argument for the sidecar. `NoDoubleLoad` is about tracks whose loads were confirmed; the
invariant follows such a track (`Settled`): a load that is pending is the present
call's (`Awaited`); a sidecar that the mirror does not show is the present call's, or the
user put it there unseen (`Mirrored`); and on a track that the call is still to load the mirror
has none (`Vacant`). So there is none, or it is `unseen`; a second call finds the first one's
sidecar in the mirror. A sidecar that the user takes away does no harm: the mirror then shows
too much, and the call loads nothing. `PreviewStops` says that a preview neither searches nor comes to a load.

The argument for the search. `SearchFindsAll` compares what was found with all that is within
the depth, which is defined by recursion (`Level`). The invariant gives every opened path a
rank: its folders are opened, or queued, one step deeper at most; the queue is in order of
depth and spans two depths. So when the queue is empty, what is at a depth is opened, for all
depths in turn, and an item that was missed would have been in an opened folder. The theorem
takes any browser, one that lists a folder twice included; this bridge's are trees, since
a path names the position at each level, and there a path has one depth.

The argument for the fixture. A track is `Sound` when the slot it records as playing is
the one it records as fired, and is that of the one clip that is on, or none. Each operation
either leaves those three alone on every track (`Aside`), adds a clip that is off, replaces
a clip in place, empties a slot and with it the record of that slot, or launches a slot
that has a clip; a clip that is looked up by its id is one of its track's.
`Shape` adds what later proofs need of every set that can be reached: which fields a clip
has, that a slot holds one clip, that the tracks are numbered from 1 and have a send to each
return. Then a list of the arrangement can change in five ways only: it grows at its end, one
clip or every clip with an id is replaced, one is split, or something is deleted; the first four keep
`Numbered`. A move is followed through its two halves, of which the first may meet a slot
that is taken; in an arrangement only the clips with the id of the one that moves are touched, and
that is one if no id is repeated. For a split, what is heard of a clip before and after the cut is compared
beat by beat. `ChangesAreTold` needs, for each operation, the objects whose data it touches
(`AllTold`), and the tracks and clips whose playing it may change; for most, one lemma about
one track does.

The argument for the session. None of its properties is inductive: each speaks of the
mirror, and what will be in the mirror is still on the socket, in a batch half
answered, or with the worker. The invariant follows it there, in five layers, each
using those before it.
`Control` says how the step of the call, the phase of the session and the batch go
together, that the requests of the present batch ask for what the phase asks for
(`BatchOp`), and that other requests and answers are of older batches, so that nobody takes
one for an answer. `Versions` says that whatever may still be put in the mirror is
`Recent`: at least what Live was when the connection opened, at least what was
acknowledged, and while a write is being followed by its snapshot at least what the write
made. It looks at pairs of messages too: an event that comes after another message about its slice is
newer (`Follows`), or the mirror could go back. `Advancing` is `RefreshAdvances`. `Heard`
says that all topics are subscribed before a snapshot is asked for, so that a change has
somebody to tell. `Current` is `UnracedIsCurrent` at every place a version can be: an awaited
answer, a fetched value and the mirror of a slice with events are each Live's, or were overlapped by
a snapshot, or an event is still owed (`Owed`). `raced` and `acked` are histories: the first becomes `overlap` when
a snapshot is loaded, the second is never more than Live.

The argument for the view. `Recent` bounds what is read from below, and by the opening of the
connection only. Two more layers do the rest. `Behind` bounds it from above: what was fetched
or is in the mirror is at most Live's, and older than each event on the wire about its
slice, so that an event moves the view forward. `Since` says that an answer somebody
awaits, and what a refresh has fetched, are as new as the set was when the call was
made: the worker reads after the request was sent, and answers to an older call's requests are
awaited by nobody (`Numbered`). Then each action is matched: the last answer of a first
snapshot with `Open`, of a later one with `Refresh` or `Write`, an event with `Told`, a
call that throws with `Throw`, a lost link with `Lose` or `Throw`.

`Filter` is a recursive function, and what it returns is an induction over a sequence. The
library's induction theorems take an operator, which the provers here cannot instantiate;
`FiltersProofs` does without: a set of numbers that is not empty has a least one (from the library's
`WFMin`), so a set that has 0 and, with n, n + 1, has all numbers. `SearchIsComplete` uses the
same form for the depth.

Model-checked only: liveness (`EveryMutationRuns`, `EveryRequestAnswered`,
`EveryCallReturns`, `CallEnds`), which is out of the prover's reach under fairness.
Every safety property that a run checks is also a theorem. No module uses a RECURSIVE
operator.

## 5. What is not modelled, and the plan

Not modelled: the fake Live set (a test double); the sidecar's device and its contracts,
the saved-set parser and the scripts (straight lines of file access with no
state of their own); logging; `close` of the session, which runs as the process ends; the
handshake of the MCP server and the wording of its results.

What the Remote Script does to Live's objects (`live_access.py`, `clip_notes.py`) is seen
only through the requests: an edit is made, or fails, or both.

In order of importance:

1. `LiveMirror`: the listeners object by object and what each event becomes in the
   mirror: `tracks.changed` carries a list the session takes for one track, ids are
   positions, so that deletions shift them, and a get that walks the tracks while
   the main thread changes them. Composes with `StateEngine`.
2. `RemoteServer`: start and stop, accept, subscribe and unsubscribe, the sets
   of clients and topics that threads share without a lock, `sendall` from two threads
   into one socket, the thread that removes a client while another iterates. Abstract
   specification: a log of the events each subscriber is owed.
3. `ArrangementEdit`: edits of Live made of several steps that may each fail:
   duplicate then delete, by positional ids; the temporary clip and scene and their
   removal; clearing, checking and adding notes. To show: a failure leaves the set
   before or after the edit, or says which.
4. `Framing`: the two line parsers over bytes in chunks (a character split over
   two chunks is decoded whole by one and not by the other), with `Lines` as
   the reference.
5. Dirty paths, selection and scenes in `StateEngine`.

Proofs planned: that `RemoteServer` implements the log of events, and the inductive
invariants of the modules above.
