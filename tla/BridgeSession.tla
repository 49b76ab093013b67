---------------------------- MODULE BridgeSession ----------------------------
(***************************************************************************)
(* The MCP server's session with Live: LaiveLazySession connects when a    *)
(* tool is called, subscribes to the event topics, reads a snapshot of the *)
(* set into the state engine, and from then on applies the events the      *)
(* Remote Script broadcasts; a write tool sends its mutation and then      *)
(* reads a new snapshot.  On the other side of the socket, one worker      *)
(* thread answers the requests in order while Live's main thread changes   *)
(* the set and broadcasts events into the same socket.                     *)
(*                                                                         *)
(* The set is a few slices, each with a version that grows with every      *)
(* change of it; the mirror holds a version of each slice.  A slice is what *)
(* Live tells of as one: the tempo and the play state are one, of which    *)
(* transport.changed tells.  The rest of the song (loop, metronome,        *)
(* signature, position) changes untold and comes along when the transport  *)
(* is told of: it is no slice, and nothing is said of it.                  *)
(*                                                                         *)
(* Calls come one at a time: the CLI waits for a call before it reads the  *)
(* next line.  Continuations of a promise run when all the lines of a      *)
(* chunk from the socket have been handed out, and before the next chunk,  *)
(* so the client's steps are those of its socket events.  That the rest of *)
(* a chunk comes before a continuation is seen in the order of an event    *)
(* and a snapshot only (DeliverLastRead): what follows any other answer    *)
(* sends requests, or writes a slice that has no events.                   *)
(***************************************************************************)
EXTENDS Naturals, Sequences, FiniteSets, Functions

CONSTANTS
  SliceOrder, \* what a snapshot is made of (transport, scenes, tracks...), in
              \* the order in which its requests are sent
  Evented,    \* the slices whose every change is told with the new state: the
              \* transport.  The selection has no events, and those of the
              \* tracks carry other data
  Selected,   \* the slices get_selected_context reads: the selection
  MaxLive,    \* bound: how many times each slice of the set changes
  MaxConns,   \* bound: connections opened
  MaxCalls,   \* bound: tool calls
  NotRead     \* a slice that has not been read

Slices == Range(SliceOrder)

ASSUME SessionAssumption ==
  /\ Evented \subseteq Slices /\ Selected \subseteq Slices \ Evented
  /\ SliceOrder \in Seq(Slices) /\ Slices # {}
  /\ MaxLive \in [Slices -> Nat] /\ MaxConns \in Nat /\ MaxCalls \in Nat
  /\ NotRead \notin Nat

VARIABLES
  live,       \* the set itself: the version of each slice
  late,       \* slices with a timed-out mutation still in the task queue
  requests,   \* requests on their way to the worker, oldest first
  working,    \* the response the worker has computed and not sent: <<>> or <<r>>
  subs,       \* the topics this connection is subscribed to
  wire,       \* events and responses on their way to the client, oldest first
  phase,      \* the lazy session: "idle", "connecting", "subscribing",
              \* "snapshot" or "active"
  conns,      \* connections opened so far
  leaked,     \* connections whose start failed: open, and used by nobody
  batch,      \* number of the requests of the last Promise.all
  waiting,    \* slices of that batch that have no answer yet
  fetched,    \* the answers of that batch
  mirror,     \* the state engine: the version it has of each slice
  version,    \* its meta.snapshotVersion
  tool,       \* the call being served
  result,     \* what the last finished call returned
  calls,      \* calls so far
  asked,      \* history: the set when the last call was made
  opened,     \* history: the set when the connection was opened
  acked,      \* history: the newest version a successful write has made
  overlap,    \* history: slices with an event applied since the sync began
  raced       \* history: slices overwritten by a snapshot an event overlapped

server == <<live, late, working, subs>>
client == <<phase, conns, leaked, batch, waiting, fetched, mirror, version, tool,
            result, calls>>
history == <<asked, opened, acked, overlap, raced>>
vars == <<server, requests, wire, client, history>>

Phases == {"idle", "connecting", "subscribing", "snapshot", "active"}
Kinds == {"read", "write", "refresh", "context"}
NoTool == [kind |-> "none", step |-> "done", slice |-> NotRead, before |-> 0, wrote |-> 0]

Unread == [s \in Slices |-> NotRead]
Connected == phase \in {"subscribing", "snapshot", "active"}

TypeOK ==
  /\ live \in [Slices -> Nat]
  /\ late \subseteq Slices /\ subs \subseteq Slices /\ waiting \subseteq Slices
  /\ phase \in Phases
  /\ conns \in 0..MaxConns /\ leaked \in 0..MaxConns /\ calls \in 0..MaxCalls
  /\ batch \in Nat /\ version \in Nat
  /\ fetched \in [Slices -> Nat \cup {NotRead}]
  /\ mirror \in [Slices -> Nat \cup {NotRead}]
  /\ tool.kind \in Kinds \cup {"none"}
  /\ tool.step \in {"connect", "begin", "mutate", "sync", "select", "done"}
  /\ Len(working) <= 1
  /\ \A i \in DOMAIN requests : requests[i].op \in {"subscribe", "get", "mutate"}
  /\ \A i \in DOMAIN wire : wire[i].type \in {"event", "response"}
  /\ (tool.kind = "none") = (tool.step = "done")
  /\ tool.kind = "none" => phase \in {"idle", "active"}

Init ==
  /\ live = [s \in Slices |-> 0] /\ late = {}
  /\ requests = <<>> /\ working = <<>> /\ subs = {} /\ wire = <<>>
  /\ phase = "idle" /\ conns = 0 /\ leaked = 0
  /\ batch = 0 /\ waiting = {} /\ fetched = Unread
  /\ mirror = Unread /\ version = 0
  /\ tool = NoTool
  /\ result = [ok |-> FALSE, kind |-> "none", before |-> 0, after |-> 0]
  /\ calls = 0
  /\ asked = live /\ opened = live /\ acked = live /\ overlap = {} /\ raced = {}

-----------------------------------------------------------------------------
(* Messages.                                                               *)

Request(op, s) == [op |-> op, batch |-> batch + 1, slice |-> s]
RequestAll(op) == [i \in DOMAIN SliceOrder |-> Request(op, SliceOrder[i])]

Response(r, ok, v) ==
  [type |-> "response", batch |-> r.batch, slice |-> r.slice, ok |-> ok, version |-> v]

Event(s, v) == [type |-> "event", slice |-> s, version |-> v]

-----------------------------------------------------------------------------
(* Live and the Remote Script.                                             *)

\* broadcast_event: the subscribers of the topic, or every client if there are
\* none.  A leaked connection is a subscriber of every topic.
Hears(s) == Connected /\ (s \in subs \/ leaked = 0)

\* A change of the set on the main thread, and the event its listener sends: of
\* the song, ListenerHub listens to tempo and is_playing alone.
Change(s) ==
  /\ live[s] < MaxLive[s]
  /\ live' = [live EXCEPT ![s] = @ + 1]
  /\ wire' = IF s \in Evented /\ Hears(s)
             THEN Append(wire, Event(s, live[s] + 1)) ELSE wire

\* The user, or another client, changes the set.
UserEdit(s) ==
  /\ Change(s)
  /\ UNCHANGED <<late, working, subs, requests, client, history>>

\* The main thread runs a mutation whose worker has stopped waiting for it.
LateApply(s) ==
  /\ s \in late
  /\ Change(s)
  /\ late' = late \ {s}
  /\ UNCHANGED <<working, subs, requests, client, history>>

\* The worker takes a request; it is sent back by WorkerSend.
Take(op, r) ==
  /\ working = <<>> /\ requests # <<>>
  /\ r = Head(requests) /\ r.op = op
  /\ requests' = Tail(requests)

WorkerSubscribe == \E r \in Range(requests) :
  /\ Take("subscribe", r)
  /\ subs' = subs \cup {r.slice}
  /\ working' = <<Response(r, TRUE, 0)>>
  /\ UNCHANGED <<live, late, wire, client, history>>

\* get: the slice as it is now, or an error raised by a Live object.
WorkerGet == \E r \in Range(requests) :
  /\ Take("get", r)
  /\ \E ok \in BOOLEAN : working' = <<Response(r, ok, live[r.slice])>>
  /\ UNCHANGED <<live, late, subs, wire, client, history>>

\* set or call: applied on the main thread while the worker waits; a dry run,
\* which changes nothing; refused; or timed out, and left in the task queue.
WorkerMutate == \E r \in Range(requests) :
  /\ Take("mutate", r)
  /\ \/ Change(r.slice) /\ working' = <<Response(r, TRUE, live[r.slice] + 1)>>
        /\ UNCHANGED late
     \/ working' = <<Response(r, TRUE, live[r.slice])>> /\ UNCHANGED <<live, late, wire>>
     \/ working' = <<Response(r, FALSE, 0)>> /\ UNCHANGED <<live, late, wire>>
     \/ working' = <<Response(r, FALSE, 0)>> /\ late' = late \cup {r.slice}
        /\ UNCHANGED <<live, wire>>
  /\ UNCHANGED <<subs, client, history>>

WorkerSend ==
  /\ working # <<>>
  /\ wire' = wire \o working
  /\ working' = <<>>
  /\ UNCHANGED <<live, late, subs, requests, client, history>>

-----------------------------------------------------------------------------
(* The client: parts of its steps.                                         *)

\* A call returns, or throws.
Finish(ok, after) ==
  /\ tool' = NoTool
  /\ result' = [ok |-> ok, kind |-> tool.kind, before |-> tool.before, after |-> after]

\* Promise.all over the requests of op, one per slice.
SendAll(op) ==
  /\ batch' = batch + 1
  /\ waiting' = Slices
  /\ requests' = requests \o RequestAll(op)
  /\ fetched' = Unread

\* One request.
SendOne(op, s) ==
  /\ batch' = batch + 1
  /\ waiting' = {s}
  /\ requests' = Append(requests, Request(op, s))
  /\ UNCHANGED fetched

\* Mutant of ApplySnapshot: the version is that of the new state.
ApplySnapshotAnew(read, old) ==
  /\ mirror' = read
  /\ version' = 1

\* The engine's applySnapshot: a new state, numbered after the old one.
ApplySnapshot(read, old) ==
  /\ mirror' = read
  /\ version' = old + 1

\* The connection is of no use to the session any more; its engine is dropped.
DropConnection ==
  /\ phase' = "idle"
  /\ requests' = <<>> /\ working' = <<>> /\ subs' = {} /\ wire' = <<>>
  /\ waiting' = {} /\ fetched' = Unread
  /\ mirror' = Unread /\ version' = 0

\* No continuation is left to run: the next socket event can be handled.
Settled == tool.step # "begin"

-----------------------------------------------------------------------------
(* The client: calls and connections.                                      *)

\* What the calls are about.
Target(k) == CASE k = "write" -> Slices [] k = "context" -> Selected [] OTHER -> {NotRead}

\* tools/call: ensureConnected, with or without a session.
Call(k, s) ==
  /\ tool.kind = "none" /\ calls < MaxCalls
  /\ calls' = calls + 1
  /\ phase' = IF phase = "idle" THEN "connecting" ELSE phase
  /\ tool' = [kind |-> k, step |-> IF phase = "idle" THEN "connect" ELSE "begin",
              slice |-> s, before |-> 0, wrote |-> 0]
  /\ asked' = live
  /\ UNCHANGED <<server, requests, wire, conns, leaked, batch, waiting, fetched,
                 mirror, version, result, opened, acked, overlap, raced>>

\* The socket connects: a new session subscribes to every topic.  One topic per
\* slice stands for the four topics of start, whose slices need not match theirs.
ConnectOk ==
  /\ phase = "connecting" /\ conns < MaxConns
  /\ phase' = "subscribing"
  /\ conns' = conns + 1
  /\ opened' = live
  /\ SendAll("subscribe")
  /\ UNCHANGED <<server, wire, leaked, mirror, version, tool, result, calls, asked,
                 acked, overlap, raced>>

\* Mutant of ConnectFails: connectingPromise is not reset.
ConnectFailsForGood ==
  /\ phase = "connecting"
  /\ Finish(FALSE, 0)
  /\ UNCHANGED <<server, requests, wire, phase, conns, leaked, batch, waiting, fetched,
                 mirror, version, calls, history>>

\* The socket does not connect: the call throws.
ConnectFails ==
  /\ phase = "connecting"
  /\ phase' = "idle"
  /\ Finish(FALSE, 0)
  /\ UNCHANGED <<server, requests, wire, conns, leaked, batch, waiting, fetched,
                 mirror, version, calls, history>>

\* Mutant of LinkLost: pending requests are not rejected.
LinkLostSilently ==
  /\ Connected /\ Settled
  /\ DropConnection
  /\ leaked' \in {0, leaked}
  /\ UNCHANGED <<live, late, conns, batch, tool, result, calls, history>>

\* The socket closes, alone or with every other when the script stops: what was
\* on the wire is lost, pending requests are rejected, the session is cleared.
\* A mutation on its way may have reached the task queue.
LinkLost ==
  /\ Connected /\ Settled
  /\ DropConnection
  /\ leaked' \in {0, leaked}
  /\ late' \in {late, late \cup {r.slice : r \in {q \in Range(requests) : q.op = "mutate"}}}
  /\ IF tool.kind = "none" THEN UNCHANGED <<tool, result>> ELSE Finish(FALSE, 0)
  /\ UNCHANGED <<live, conns, batch, calls, history>>

-----------------------------------------------------------------------------
(* The client: the body of a call, once connected.                         *)

\* list_tracks and the other reads of the mirror.
BeginRead ==
  /\ tool.step = "begin" /\ tool.kind = "read"
  /\ tool' = NoTool
  /\ result' = [ok |-> TRUE, kind |-> "read", before |-> version, after |-> version]
  /\ UNCHANGED <<server, requests, wire, phase, conns, leaked, batch, waiting, fetched,
                 mirror, version, calls, history>>

\* A write tool: getProjectSummary for the version before, then the mutation.
BeginWrite ==
  /\ tool.step = "begin" /\ tool.kind = "write"
  /\ tool' = [tool EXCEPT !.step = "mutate", !.before = version]
  /\ SendOne("mutate", tool.slice)
  /\ UNCHANGED <<server, wire, phase, conns, leaked, mirror, version, result, calls,
                 history>>

\* Mutant of BeginRefresh: what the events have brought is taken for the set.
BeginRefreshCached ==
  /\ tool.step = "begin" /\ tool.kind = "refresh"
  /\ Finish(TRUE, version)
  /\ UNCHANGED <<server, requests, wire, phase, conns, leaked, batch, waiting, fetched,
                 mirror, version, calls, history>>

\* refresh_state: syncSnapshot.
BeginRefresh ==
  /\ tool.step = "begin" /\ tool.kind = "refresh"
  /\ tool' = [tool EXCEPT !.step = "sync", !.before = version]
  /\ SendAll("get")
  /\ overlap' = {}
  /\ UNCHANGED <<server, wire, phase, conns, leaked, mirror, version, result, calls,
                 asked, opened, acked, raced>>

\* get_selected_context: one slice is read first.
BeginContext ==
  /\ tool.step = "begin" /\ tool.kind = "context"
  /\ tool' = [tool EXCEPT !.step = "select", !.before = version]
  /\ SendOne("get", tool.slice)
  /\ UNCHANGED <<server, wire, phase, conns, leaked, mirror, version, result, calls,
                 history>>

-----------------------------------------------------------------------------
(* The client: what it does with a message.                                *)

Deliver(m) ==
  /\ Connected /\ Settled
  /\ wire # <<>> /\ m = Head(wire)
  /\ wire' = Tail(wire)

\* The first n messages arrive in one chunk, and m is the first of them.
DeliverChunk(m, n) ==
  /\ Connected /\ Settled
  /\ n \in DOMAIN wire /\ m = Head(wire)
  /\ wire' = SubSeq(wire, n + 1, Len(wire))

Syncing == phase = "snapshot" \/ tool.step = "sync"

\* Mutant of DeliverEvent: the handler is attached when the session is active.
DeliverEventOnceActive == \E m \in Range(wire) :
  /\ Deliver(m) /\ m.type = "event"
  /\ IF phase # "active" THEN UNCHANGED <<mirror, version, overlap, raced>>
     ELSE /\ mirror' = [mirror EXCEPT ![m.slice] = m.version]
          /\ version' = version + 1
          /\ overlap' = IF Syncing THEN overlap \cup {m.slice} ELSE overlap
          /\ raced' = raced \ {m.slice}
  /\ UNCHANGED <<server, requests, phase, conns, leaked, batch, waiting, fetched, tool,
                 result, calls, asked, opened, acked>>

\* mapBridgeEvent and the engine's applyEvent.
DeliverEvent == \E m \in Range(wire) :
  /\ Deliver(m) /\ m.type = "event"
  /\ mirror' = [mirror EXCEPT ![m.slice] = m.version]
  /\ version' = version + 1
  /\ overlap' = IF Syncing THEN overlap \cup {m.slice} ELSE overlap
  /\ raced' = raced \ {m.slice}
  /\ UNCHANGED <<server, requests, phase, conns, leaked, batch, waiting, fetched, tool,
                 result, calls, asked, opened, acked>>

\* The response is for a request somebody still waits for.
Pending(m) == m.type = "response" /\ m.batch = batch /\ m.slice \in waiting

\* A response to a request of a Promise.all that has already failed.
DeliverUnawaited == \E m \in Range(wire) :
  /\ Deliver(m) /\ m.type = "response" /\ ~Pending(m)
  /\ UNCHANGED <<server, requests, client, history>>

\* A request of start fails: connect throws and nobody closes its socket.
DeliverStartError == \E m \in Range(wire) :
  /\ Connected /\ Settled /\ wire # <<>> /\ m = Head(wire)
  /\ Pending(m) /\ ~m.ok /\ phase \in {"subscribing", "snapshot"}
  /\ DropConnection
  /\ leaked' = leaked + 1
  /\ Finish(FALSE, 0)
  /\ UNCHANGED <<live, late, conns, batch, calls, history>>

\* A request of the call fails: the call throws.
DeliverCallError == \E m \in Range(wire) :
  /\ Deliver(m) /\ Pending(m) /\ ~m.ok /\ phase = "active"
  /\ waiting' = {}
  /\ Finish(FALSE, 0)
  /\ UNCHANGED <<server, requests, phase, conns, leaked, batch, fetched, mirror, version,
                 calls, history>>

\* Mutant of DeliverSubscribed: the session is active before it has a snapshot.
DeliverSubscribedActive == \E m \in Range(wire) :
  /\ Deliver(m) /\ Pending(m) /\ m.ok /\ phase = "subscribing"
  /\ waiting' = waiting \ {m.slice}
  /\ IF waiting = {m.slice}
     THEN phase' = "active" /\ tool' = [tool EXCEPT !.step = "begin"]
     ELSE UNCHANGED <<phase, tool>>
  /\ UNCHANGED <<server, requests, conns, leaked, batch, fetched, mirror, version, result,
                 calls, history>>

\* start: once every subscription is answered, the first snapshot.
DeliverSubscribed == \E m \in Range(wire) :
  /\ Deliver(m) /\ Pending(m) /\ m.ok /\ phase = "subscribing"
  /\ IF waiting = {m.slice}
     THEN phase' = "snapshot" /\ SendAll("get") /\ overlap' = {}
     ELSE waiting' = waiting \ {m.slice} /\ UNCHANGED <<phase, batch, fetched, requests, overlap>>
  /\ UNCHANGED <<server, conns, leaked, mirror, version, tool, result, calls, asked,
                 opened, acked, raced>>

\* An answer to a snapshot's requests, with others to come.
DeliverRead == \E m \in Range(wire) :
  /\ Deliver(m) /\ Pending(m) /\ m.ok /\ Syncing /\ waiting # {m.slice}
  /\ waiting' = waiting \ {m.slice}
  /\ fetched' = [fetched EXCEPT ![m.slice] = m.version]
  /\ UNCHANGED <<server, requests, phase, conns, leaked, batch, mirror, version, tool,
                 result, calls, history>>

\* The last answer lets the snapshot be applied, after the lines behind it in its
\* chunk: an event among them is put in the mirror and overwritten.  The session
\* becomes active, or the call returns.
DeliverLastRead == \E m \in Range(wire) : \E n \in DOMAIN wire :
  LET read == [fetched EXCEPT ![m.slice] = m.version]
      events == {i \in 2..n : wire[i].type = "event"}
  IN
  /\ DeliverChunk(m, n) /\ Pending(m) /\ m.ok /\ Syncing /\ waiting = {m.slice}
  /\ waiting' = {}
  /\ fetched' = read
  /\ ApplySnapshot(read, version + Cardinality(events))
  /\ overlap' = overlap \cup {wire[i].slice : i \in events}
  /\ raced' = overlap'
  /\ phase' = "active"
  /\ IF phase = "snapshot"
     THEN tool' = [tool EXCEPT !.step = "begin"] /\ UNCHANGED <<result, acked>>
     ELSE /\ Finish(TRUE, version')
          /\ acked' = IF tool.kind = "write"
                      THEN [acked EXCEPT ![tool.slice] = tool.wrote] ELSE acked
  /\ UNCHANGED <<server, requests, conns, leaked, batch, calls, asked, opened>>

\* Mutant of DeliverMutated: the call returns without a refresh.
DeliverMutatedOnly == \E m \in Range(wire) :
  /\ Deliver(m) /\ Pending(m) /\ m.ok /\ tool.step = "mutate"
  /\ waiting' = {}
  /\ Finish(TRUE, version)
  /\ acked' = [acked EXCEPT ![tool.slice] = m.version]
  /\ UNCHANGED <<server, requests, phase, conns, leaked, batch, fetched, mirror, version,
                 calls, asked, opened, overlap, raced>>

\* The mutation is acknowledged: refreshState.
DeliverMutated == \E m \in Range(wire) :
  /\ Deliver(m) /\ Pending(m) /\ m.ok /\ tool.step = "mutate"
  /\ tool' = [tool EXCEPT !.step = "sync", !.wrote = m.version]
  /\ SendAll("get")
  /\ overlap' = {}
  /\ UNCHANGED <<server, phase, conns, leaked, mirror, version, result, calls, asked,
                 opened, acked, raced>>

\* get_selected_context: the slice is put in the mirror.
DeliverContext == \E m \in Range(wire) :
  /\ Deliver(m) /\ Pending(m) /\ m.ok /\ tool.step = "select"
  /\ waiting' = {}
  /\ mirror' = [mirror EXCEPT ![m.slice] = m.version]
  /\ version' = version + 1
  /\ Finish(TRUE, version')
  /\ UNCHANGED <<server, requests, phase, conns, leaked, batch, fetched, calls, history>>

-----------------------------------------------------------------------------
Worker == WorkerSubscribe \/ WorkerGet \/ WorkerMutate \/ WorkerSend

Connect == ConnectOk \/ ConnectFails

Begin == BeginRead \/ BeginWrite \/ BeginRefresh \/ BeginContext

Receive ==
  \/ DeliverEvent \/ DeliverUnawaited \/ DeliverStartError \/ DeliverCallError
  \/ DeliverSubscribed \/ DeliverRead \/ DeliverLastRead \/ DeliverMutated
  \/ DeliverContext

Environment ==
  \/ \E s \in Slices : UserEdit(s) \/ LateApply(s)
  \/ \E k \in Kinds : \E s \in Target(k) : Call(k, s)
  \/ LinkLost

Next == Worker \/ Connect \/ Begin \/ Receive \/ Environment

Spec == Init /\ [][Next]_vars

\* The worker thread and Node run while they have something to do; a socket ends
\* up connected or failed.  Nothing is assumed of the user, of the calls, of late
\* mutations or of the link.
FairSpec ==
  /\ Spec
  /\ WF_vars(Worker) /\ WF_vars(Connect) /\ WF_vars(Begin) /\ WF_vars(Receive)

-----------------------------------------------------------------------------
\* After a write tool has returned success, every later read, in this connection
\* or another, of the mirror sees that write or something newer: a failed call's
\* answers, events and reconnections never bring an older state back.
ReadYourWrites ==
  phase = "active" => \A s \in Slices : mirror[s] # NotRead /\ mirror[s] >= acked[s]

\* A session that is used has nothing in its mirror from before its connection
\* was opened, so what happened while there was none cannot be missed.
MirrorPostdatesConnection ==
  phase = "active" => \A s \in Slices : mirror[s] # NotRead /\ mirror[s] >= opened[s]

\* With no event on the wire, a slice whose changes are told (the transport) is
\* exactly Live's, unless one of its events was applied while the last snapshot was
\* being read and none was since.
NoEventOnWire == \A i \in DOMAIN wire : wire[i].type # "event"
UnracedIsCurrent ==
  phase = "active" /\ NoEventOnWire =>
    \A s \in Evented \ raced : mirror[s] = live[s]

\* A refresh or a write that succeeds reports a version newer than the one it
\* started from, whatever happened to the connection before or during it.
RefreshAdvances ==
  result.ok /\ result.kind \in {"write", "refresh"} => result.after > result.before

\* What the tools see of the session: its mirror, once it is active, the call, and
\* what the last one was answered.
Shown == IF phase = "active" THEN mirror ELSE Unread
Asking == [kind |-> tool.kind, slice |-> tool.slice]
Answered == [kind |-> result.kind, ok |-> result.ok]

View == INSTANCE SetView WITH view <- Shown, call <- Asking, answer <- Answered

\* With its messages, snapshots and connections, the session is a view that is opened
\* for a call, moves on and is lost, and that no call finds older than the set was when
\* it was made, nor than what a write before it was told.
ImplementsView == View!Spec

\* A call always returns or throws: no request is left waiting, even when the
\* link is lost or the answer is an error.
EveryCallReturns == tool.kind # "none" ~> tool.kind = "none"

\* The slices whose changes are told are Live's when nothing is on its way.
MirrorCatchesUp ==
  phase = "active" /\ tool.kind = "none" /\ wire = <<>> /\ working = <<>> =>
    \A s \in Evented : mirror[s] = live[s]

\* The state version that calls report never goes back.
VersionsNeverGoBack ==
  [][result.ok /\ result'.ok => result'.after >= result.after]_vars

=============================================================================
