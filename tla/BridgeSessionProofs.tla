------------------------- MODULE BridgeSessionProofs -------------------------
(***************************************************************************)
(* Of the session with Live: what its mirror may be trusted for, for any   *)
(* slices, any number of changes, connections and calls.                   *)
(***************************************************************************)
EXTENDS BridgeSession, FiniteSetTheorems, TLAPS

Steps == {"connect", "begin", "mutate", "sync", "select", "done"}
Requests == [op : {"subscribe", "get", "mutate"}, batch : Nat, slice : Slices]
Responses == [type : {"response"}, batch : Nat, slice : Slices, ok : BOOLEAN, version : Nat]
Events == [type : {"event"}, slice : Slices, version : Nat]
Messages == Events \cup Responses

\* What the requests of the present batch ask for.
BatchOp == IF phase = "subscribing" THEN "subscribe"
           ELSE IF tool.step = "mutate" THEN "mutate" ELSE "get"

\* A message is handed over with the lines behind it in its chunk.
Chunk(m) == \E n \in DOMAIN wire : DeliverChunk(m, n)

\* The responses on their way.
Answers == Range(working) \cup {m \in Range(wire) : m.type = "response"}

-----------------------------------------------------------------------------
(* The control: types, and how the call, the session and the batch go     *)
(* together.                                                               *)
Typed ==
  /\ TypeOK
  /\ requests \in Seq(Requests) /\ wire \in Seq(Messages)
  /\ working # <<>> => Head(working) \in Responses /\ working = <<Head(working)>>
  /\ tool \in [kind : Kinds \cup {"none"}, step : Steps, slice : Slices \cup {NotRead},
               before : Nat, wrote : Nat]
  /\ result \in [ok : BOOLEAN, kind : Kinds \cup {"none"}, before : Nat, after : Nat]
  /\ opened \in [Slices -> Nat] /\ acked \in [Slices -> Nat]
  /\ overlap \subseteq Slices /\ raced \subseteq Slices

Following ==
  /\ (tool.step = "connect") = (phase \in {"connecting", "subscribing", "snapshot"})
  /\ phase = "idle" => tool.step = "done"
  /\ tool.step = "mutate" => tool.kind = "write"
  /\ tool.step = "select" => tool.kind = "context"
  /\ tool.step = "sync" => tool.kind \in {"write", "refresh"}
  /\ tool.kind = "write" => tool.slice \in Slices
  /\ tool.kind = "context" => tool.slice \in Selected
  /\ tool.step \in {"mutate", "select"} => waiting \subseteq {tool.slice}
  /\ tool.step \in {"begin", "done"} => waiting = {}
  /\ leaked <= conns /\ (Connected => leaked < conns)
  /\ ~Connected => requests = <<>> /\ working = <<>> /\ wire = <<>> /\ waiting = {}

Numbered ==
  /\ \A r \in Range(requests) :
       r.batch <= batch /\ (r.batch = batch /\ r.slice \in waiting => r.op = BatchOp)
  /\ \A r \in Answers : r.batch <= batch

Control == Typed /\ Following /\ Numbered

-----------------------------------------------------------------------------
(* The versions: what is on its way to the mirror is recent enough.       *)

\* A version of slice s that may be put in the mirror.
Recent(v, s) ==
  /\ v >= opened[s] /\ v >= acked[s]
  /\ tool.step = "sync" /\ tool.kind = "write" /\ tool.slice = s => v >= tool.wrote

\* An answer somebody waits for.
Awaited(r) == r.batch = batch /\ r.slice \in waiting /\ r.ok

\* b comes after a.
Follows(s, a, b) == \E i, j \in DOMAIN s : i < j /\ a = s[i] /\ b = s[j]

Past ==
  /\ \A s \in Slices : Recent(live[s], s)
  /\ \A m \in Range(wire) \cup Range(working) : m.version <= live[m.slice]
  /\ \A a, b : /\ Follows(wire, a, b) /\ b.type = "event" /\ a.slice = b.slice
               => a.version < b.version

FetchedRecent ==
  Syncing => \A s \in Slices \ waiting : fetched[s] \in Nat /\ Recent(fetched[s], s)

MirrorRecent ==
  phase = "active" =>
    \A s \in Slices : mirror[s] \in Nat /\ mirror[s] >= opened[s] /\ mirror[s] >= acked[s]

Fresh ==
  /\ \A m \in Range(wire) : m.type = "event" => Recent(m.version, m.slice)
  /\ BatchOp = "get" => \A r \in Answers : Awaited(r) => Recent(r.version, r.slice)
  /\ FetchedRecent /\ MirrorRecent

Advancing ==
  /\ tool.step \in {"mutate", "sync", "select"} => tool.before <= version
  /\ RefreshAdvances

-----------------------------------------------------------------------------
(* The events: what is not on its way is in the mirror.                   *)
Owed(s) == \E m \in Range(wire) : m.type = "event" /\ m.slice = s

Heard ==
  /\ phase \in {"snapshot", "active"} => subs = Slices
  /\ phase = "subscribing" => Slices \ waiting \subseteq subs
  /\ BatchOp = "subscribe" => \A r \in Answers : Awaited(r) => r.slice \in subs
  /\ \A m \in Range(wire) : m.type = "event" => m.slice \in Evented /\ Hears(m.slice)

\* The newest event on the wire is of the present version.
Witnessed ==
  \A s \in Slices : Owed(s) =>
    \E m \in Range(wire) : m.type = "event" /\ m.slice = s /\ m.version = live[s]

AnswersCurrent == BatchOp = "get" =>
  \A r \in Answers : Awaited(r) /\ r.slice \in Evented =>
    r.version = live[r.slice] \/ r.slice \in overlap \/ Owed(r.slice)

FetchedCurrent == Syncing =>
  \A s \in Evented \ waiting : fetched[s] = live[s] \/ s \in overlap \/ Owed(s)

MirrorCurrent == phase = "active" =>
  \A s \in Evented : mirror[s] = live[s] \/ s \in raced \/ Owed(s)

Current == Witnessed /\ AnswersCurrent /\ FetchedCurrent /\ MirrorCurrent

-----------------------------------------------------------------------------
(* The view that the tools are promised: nothing in it is ahead of Live, what  *)
(* Live tells is ahead of it, and what a call reads is as new as it asked for. *)

\* A version of slice s that was read is behind Live and behind what is to be told.
Reached(v, s) ==
  v # NotRead => /\ v \in Nat /\ v <= live[s]
                 /\ \A m \in Range(wire) : m.type = "event" /\ m.slice = s => v < m.version

Behind == \A s \in Slices : Reached(mirror[s], s) /\ Reached(fetched[s], s)

\* A version of slice s that may be shown to the present call.
Entitled(v, s) == asked[s] <= v /\ acked[s] <= v

AskedFirst ==
  /\ asked \in [Slices -> Nat] /\ (tool.kind = "none" => tool = NoTool)
  /\ \A s \in Slices : Entitled(live[s], s)
  /\ phase \in {"subscribing", "snapshot"} => \A s \in Slices : asked[s] <= opened[s]

AnswersEntitled ==
  phase = "active" => \A r \in Answers : Awaited(r) => Entitled(r.version, r.slice)

FetchedEntitled == tool.step = "sync" =>
  /\ \A s \in Slices \ waiting : Entitled(fetched[s], s)
  /\ tool.kind = "write" => Entitled(tool.wrote, tool.slice)

Since == AskedFirst /\ AnswersEntitled /\ FetchedEntitled

-----------------------------------------------------------------------------
(* Sequences, by what is in them and what comes after what.                *)
LEMMA TailRange ==
  ASSUME NEW S, NEW s \in Seq(S), s # <<>>
  PROVE  /\ Tail(s) \in Seq(S) /\ Head(s) \in S
         /\ Range(s) = {Head(s)} \cup Range(Tail(s)) /\ Range(s) \subseteq S
<1>1. Tail(s) \in Seq(S) /\ Len(Tail(s)) = Len(s) - 1 /\ Len(s) \in Nat \ {0}
  OBVIOUS
<1>2. \A i \in 1..Len(s) - 1 : Tail(s)[i] = s[i + 1]
  OBVIOUS
<1>3. DOMAIN s = 1..Len(s) /\ DOMAIN Tail(s) = 1..Len(s) - 1
  BY <1>1
<1>4. Head(s) = s[1]
  OBVIOUS
<1>5. ASSUME NEW i \in DOMAIN s PROVE s[i] \in {Head(s)} \cup Range(Tail(s))
  <2>1. CASE i = 1
    BY <2>1, <1>4
  <2>2. CASE i # 1
    <3>1. i - 1 \in DOMAIN Tail(s) /\ Tail(s)[i - 1] = s[i]
      BY <1>1, <1>2, <1>3, <2>2
    <3> QED
      BY <3>1 DEF Range
  <2> QED
    BY <2>1, <2>2
<1>6. ASSUME NEW i \in DOMAIN Tail(s) PROVE Tail(s)[i] \in Range(s)
  <2>1. i + 1 \in DOMAIN s /\ Tail(s)[i] = s[i + 1]
    BY <1>1, <1>2, <1>3
  <2> QED
    BY <2>1 DEF Range
<1>7. Head(s) \in Range(s) /\ Head(s) \in S /\ \A i \in DOMAIN s : s[i] \in S
  BY <1>1, <1>3, <1>4 DEF Range
<1> QED
  BY <1>1, <1>5, <1>6, <1>7 DEF Range

LEMMA TailFollows ==
  ASSUME NEW S, NEW s \in Seq(S), s # <<>>
  PROVE  /\ \A a, b : Follows(Tail(s), a, b) => Follows(s, a, b)
         /\ \A b \in Range(Tail(s)) : Follows(s, Head(s), b)
<1>1. /\ Len(s) \in Nat \ {0} /\ DOMAIN s = 1..Len(s) /\ DOMAIN Tail(s) = 1..Len(s) - 1
      /\ Head(s) = s[1] /\ \A i \in 1..Len(s) - 1 : Tail(s)[i] = s[i + 1]
  OBVIOUS
<1>2. ASSUME NEW i \in DOMAIN Tail(s) PROVE i + 1 \in DOMAIN s /\ Tail(s)[i] = s[i + 1] /\ 1 < i + 1
  BY <1>1
<1>3. ASSUME NEW a, NEW b, Follows(Tail(s), a, b) PROVE Follows(s, a, b)
  <2>1. PICK i, j \in DOMAIN Tail(s) : i < j /\ a = Tail(s)[i] /\ b = Tail(s)[j]
    BY <1>3 DEF Follows
  <2>2. i + 1 < j + 1
    BY <1>1, <2>1
  <2> QED
    BY <1>2, <2>1, <2>2 DEF Follows
<1>4. ASSUME NEW b \in Range(Tail(s)) PROVE Follows(s, Head(s), b)
  <2>1. PICK i \in DOMAIN Tail(s) : b = Tail(s)[i]
    BY DEF Range
  <2>2. 1 \in DOMAIN s
    BY <1>1
  <2> QED
    BY <1>1, <1>2, <2>1, <2>2 DEF Follows
<1> QED
  BY <1>3, <1>4

\* t holds what is left of s when its first n elements are taken, in the same order.
Rests(s, n, t) ==
  /\ Range(t) \subseteq Range(s)
  /\ \A a, b : Follows(t, a, b) => Follows(s, a, b)
  /\ \A i \in 1..n : \A b \in Range(t) : Follows(s, s[i], b)
  /\ \A a \in Range(s) : a \in Range(t) \/ \E i \in 1..n : a = s[i]

LEMMA RestRange ==
  ASSUME NEW S, NEW s \in Seq(S), NEW n \in DOMAIN s, NEW t, t = SubSeq(s, n + 1, Len(s))
  PROVE  t \in Seq(S) /\ Rests(s, n, t)
<1>1. /\ Len(s) \in Nat /\ DOMAIN s = 1..Len(s) /\ n \in 1..Len(s)
      /\ t \in Seq(S) /\ Len(t) = Len(s) - n /\ DOMAIN t = 1..Len(s) - n
      /\ \A i \in 1..Len(s) - n : t[i] = s[n + i]
  OBVIOUS
<1>2. ASSUME NEW i \in DOMAIN t PROVE n + i \in DOMAIN s /\ t[i] = s[n + i]
  BY <1>1
<1>3. Range(t) \subseteq Range(s)
  BY <1>2 DEF Range
<1>4. ASSUME NEW a, NEW b, Follows(t, a, b) PROVE Follows(s, a, b)
  <2>1. PICK i, j \in DOMAIN t : i < j /\ a = t[i] /\ b = t[j]
    BY <1>4 DEF Follows
  <2>2. n + i < n + j
    BY <1>1, <2>1
  <2> QED
    BY <1>2, <2>1, <2>2 DEF Follows
<1>5. ASSUME NEW i \in 1..n, NEW b \in Range(t) PROVE Follows(s, s[i], b)
  <2>1. PICK j \in DOMAIN t : b = t[j]
    BY DEF Range
  <2>2. i \in DOMAIN s /\ i < n + j
    BY <1>1
  <2> QED
    BY <1>2, <2>1, <2>2 DEF Follows
<1>6. ASSUME NEW a \in Range(s), ~\E i \in 1..n : a = s[i] PROVE a \in Range(t)
  <2>1. PICK j \in DOMAIN s : a = s[j]
    BY DEF Range
  <2>2. j - n \in DOMAIN t /\ t[j - n] = s[j]
    BY <1>1, <1>6, <2>1
  <2> QED
    BY <2>1, <2>2 DEF Range
<1> QED
  BY <1>1, <1>3, <1>4, <1>5, <1>6 DEF Rests

LEMMA AppendRange ==
  ASSUME NEW S, NEW s \in Seq(S), NEW e \in S
  PROVE  /\ Append(s, e) \in Seq(S) /\ Range(Append(s, e)) = Range(s) \cup {e}
         /\ \A a, b : Follows(Append(s, e), a, b) => Follows(s, a, b) \/ (a \in Range(s) /\ b = e)
<1> DEFINE t == Append(s, e)
<1>1. /\ t \in Seq(S) /\ Len(t) = Len(s) + 1 /\ Len(s) \in Nat
      /\ DOMAIN s = 1..Len(s) /\ DOMAIN t = 1..Len(s) + 1
      /\ t[Len(s) + 1] = e /\ \A i \in 1..Len(s) : t[i] = s[i]
  OBVIOUS
<1> HIDE DEF t
<1>2. \A i \in DOMAIN t : (i \in DOMAIN s /\ t[i] = s[i]) \/ (i = Len(s) + 1 /\ t[i] = e)
  BY <1>1
<1>3. \A i \in DOMAIN s : i \in DOMAIN t /\ t[i] = s[i]
  BY <1>1
<1>4. Range(t) = Range(s) \cup {e}
  <2>1. e \in Range(t)
    BY <1>1 DEF Range
  <2> QED
    BY <1>2, <1>3, <2>1 DEF Range
<1>5. ASSUME NEW a, NEW b, Follows(t, a, b) PROVE Follows(s, a, b) \/ (a \in Range(s) /\ b = e)
  <2>1. PICK i, j \in DOMAIN t : i < j /\ a = t[i] /\ b = t[j]
    BY <1>5 DEF Follows
  <2>2. i \in DOMAIN s /\ a = s[i]
    BY <1>1, <1>2, <2>1
  <2> QED
    BY <1>2, <2>1, <2>2 DEF Follows, Range
<1> QED
  BY <1>1, <1>4, <1>5 DEF t

LEMMA AppendAllRange ==
  ASSUME NEW S, NEW s \in Seq(S), NEW t \in Seq(S)
  PROVE  s \o t \in Seq(S) /\ Range(s \o t) = Range(s) \cup Range(t)
<1> DEFINE u == s \o t
<1>1. /\ u \in Seq(S) /\ Len(s) \in Nat /\ Len(t) \in Nat
      /\ DOMAIN s = 1..Len(s) /\ DOMAIN t = 1..Len(t) /\ DOMAIN u = 1..Len(s) + Len(t)
      /\ \A i \in 1..Len(s) + Len(t) : u[i] = IF i <= Len(s) THEN s[i] ELSE t[i - Len(s)]
  OBVIOUS
<1> HIDE DEF u
<1>2. ASSUME NEW i \in DOMAIN u PROVE u[i] \in Range(s) \cup Range(t)
  <2>1. (i \in DOMAIN s /\ u[i] = s[i]) \/ (i - Len(s) \in DOMAIN t /\ u[i] = t[i - Len(s)])
    BY <1>1
  <2> QED
    BY <2>1 DEF Range
<1>3. \A i \in DOMAIN s : i \in DOMAIN u /\ u[i] = s[i]
  BY <1>1
<1>4. \A i \in DOMAIN t : i + Len(s) \in DOMAIN u /\ u[i + Len(s)] = t[i]
  BY <1>1
<1>5. Range(u) = Range(s) \cup Range(t)
  <2>1. Range(s) \subseteq Range(u)
    BY <1>3 DEF Range
  <2>2. Range(t) \subseteq Range(u)
    BY <1>4 DEF Range
  <2>3. Range(u) \subseteq Range(s) \cup Range(t)
    BY <1>2 DEF Range
  <2> QED
    BY <2>1, <2>2, <2>3
<1> QED
  BY <1>1, <1>5 DEF u

LEMMA EmptyRange == Range(<<>>) = {}
  BY DEF Range

\* The worker holds at most one response.
LEMMA OneRange ==
  ASSUME NEW r
  PROVE  Range(<<r>>) = {r} /\ <<r>> # <<>> /\ Len(<<r>>) = 1 /\ <<r>>[1] = r
<1>1. DOMAIN <<r>> = {1} /\ <<r>>[1] = r
  OBVIOUS
<1> QED
  BY <1>1 DEF Range
-----------------------------------------------------------------------------
(* What the steps do to what is on its way.                               *)
LEMMA ChannelTypes ==
  /\ \A s \in Seq(Requests) : \A i \in DOMAIN s : s[i].op \in {"subscribe", "get", "mutate"}
  /\ \A s \in Seq(Messages) : \A i \in DOMAIN s : s[i].type \in {"event", "response"}
<1>1. ASSUME NEW S, NEW s \in Seq(S), NEW i \in DOMAIN s PROVE s[i] \in S
  OBVIOUS
<1>2. /\ \A r \in Requests : r.op \in {"subscribe", "get", "mutate"}
      /\ \A m \in Messages : m.type \in {"event", "response"}
  BY DEF Requests, Messages, Events, Responses
<1> QED
  BY <1>1, <1>2

LEMMA Delivered ==
  ASSUME Typed, NEW m, Deliver(m)
  PROVE  /\ m \in Messages /\ m \in Range(wire) /\ wire' \in Seq(Messages)
         /\ Range(wire) = {m} \cup Range(wire') /\ Range(wire) \subseteq Messages
         /\ \A a, b : Follows(wire', a, b) => Follows(wire, a, b)
         /\ \A b \in Range(wire') : Follows(wire, m, b)
  BY TailRange, TailFollows DEF Deliver, Typed

\* A chunk: what is behind it comes after each of its messages.
LEMMA Handed ==
  ASSUME Typed, NEW m, NEW n, DeliverChunk(m, n)
  PROVE  /\ n \in DOMAIN wire /\ m = wire[1] /\ wire' \in Seq(Messages)
         /\ m \in Range(wire) /\ Range(wire') \subseteq Range(wire) /\ Range(wire) \subseteq Messages
         /\ \A a, b : Follows(wire', a, b) => Follows(wire, a, b)
         /\ \A b \in Range(wire') : Follows(wire, m, b)
         /\ \A a \in Range(wire) :
              \/ a \in Range(wire')
              \/ \E i \in 1..n : a = wire[i] /\ \A b \in Range(wire') : Follows(wire, a, b)
<1>1. wire \in Seq(Messages) /\ n \in DOMAIN wire
  BY DEF Typed, DeliverChunk
<1>2. n \in Nat /\ 1 \in 1..n /\ 1 \in DOMAIN wire /\ wire # <<>>
  BY <1>1
<1>3. m = wire[1]
  BY <1>1, <1>2 DEF DeliverChunk
<1>4. m \in Range(wire) /\ Range(wire) \subseteq Messages
  BY <1>1, <1>2, <1>3, TailRange DEF Range
<1>5. wire' = SubSeq(wire, n + 1, Len(wire))
  BY DEF DeliverChunk
<1>6. wire' \in Seq(Messages) /\ Rests(wire, n, wire')
  BY <1>1, <1>5, RestRange
<1> QED
  BY <1>1, <1>2, <1>3, <1>4, <1>6 DEF Rests

LEMMA Taken ==
  ASSUME Typed, NEW op, NEW r, Take(op, r)
  PROVE  /\ working = <<>> /\ r \in Requests /\ r \in Range(requests) /\ r.op = op
         /\ requests' \in Seq(Requests) /\ Range(requests') \subseteq Range(requests)
  BY TailRange DEF Take, Typed

LEMMA SentAll ==
  ASSUME Typed, NEW op \in {"subscribe", "get", "mutate"}, SendAll(op)
  PROVE  /\ requests' \in Seq(Requests)
         /\ \A r \in Range(requests') :
              r \in Range(requests) \/ (r.op = op /\ r.batch = batch' /\ r.slice \in Slices)
<1>1. DOMAIN SliceOrder = 1..Len(SliceOrder) /\ Len(SliceOrder) \in Nat
  BY SessionAssumption
<1>2. ASSUME NEW i \in DOMAIN SliceOrder PROVE Request(op, SliceOrder[i]) \in Requests
  <2>1. SliceOrder[i] \in Slices
    BY DEF Slices, Range
  <2>2. batch + 1 \in Nat
    BY DEF Typed, TypeOK
  <2> QED
    BY <2>1, <2>2 DEF Request, Requests
<1>3. RequestAll(op) \in Seq(Requests)
  BY <1>1, <1>2 DEF RequestAll
<1>4. \A r \in Range(RequestAll(op)) : r.op = op /\ r.batch = batch + 1 /\ r.slice \in Slices
  BY DEF RequestAll, Range, Request, Slices
<1>5. requests' = requests \o RequestAll(op) /\ batch' = batch + 1 /\ requests \in Seq(Requests)
  BY DEF SendAll, Typed
<1> QED
  BY <1>3, <1>4, <1>5, AppendAllRange

LEMMA SentOne ==
  ASSUME Typed, NEW op \in {"subscribe", "get", "mutate"}, NEW s \in Slices, SendOne(op, s)
  PROVE  /\ requests' \in Seq(Requests)
         /\ \A r \in Range(requests') :
              r \in Range(requests) \/ (r.op = op /\ r.batch = batch' /\ r.slice \in Slices)
<1>1. Request(op, s) \in Requests
  BY DEF Request, Requests, Typed, TypeOK
<1>2. /\ requests' = Append(requests, Request(op, s)) /\ batch' = batch + 1
      /\ requests \in Seq(Requests)
  BY DEF SendOne, Typed
<1> QED
  BY <1>1, <1>2, AppendRange DEF Request

\* A change sends an event of the new version, or none.
LEMMA Changed ==
  ASSUME Typed, NEW s \in Slices, Change(s)
  PROVE  /\ live' = [live EXCEPT ![s] = @ + 1] /\ live' \in [Slices -> Nat]
         /\ wire' \in Seq(Messages)
         /\ \/ wire' = wire /\ ~(s \in Evented /\ Hears(s))
            \/ /\ s \in Evented /\ Hears(s)
               /\ Range(wire') = Range(wire) \cup {Event(s, live[s] + 1)}
               /\ \A a, b : Follows(wire', a, b) =>
                    Follows(wire, a, b) \/ (a \in Range(wire) /\ b = Event(s, live[s] + 1))
<1>1. live \in [Slices -> Nat] /\ live' = [live EXCEPT ![s] = @ + 1] /\ wire \in Seq(Messages)
  BY DEF Typed, TypeOK, Change
<1>2. Event(s, live[s] + 1) \in Messages
  BY <1>1 DEF Event, Messages, Events
<1>3. CASE s \in Evented /\ Hears(s)
  <2>1. wire' = Append(wire, Event(s, live[s] + 1))
    BY <1>3 DEF Change
  <2> QED
    BY <1>1, <1>2, <1>3, <2>1, AppendRange
<1>4. CASE ~(s \in Evented /\ Hears(s))
  BY <1>1, <1>4 DEF Change
<1> QED
  BY <1>3, <1>4

\* The worker sends the response it holds.
LEMMA Sent ==
  ASSUME Typed, WorkerSend
  PROVE  \E r \in Responses :
           /\ Range(working) = {r} /\ Range(working') = {} /\ working' = <<>>
           /\ wire' \in Seq(Messages) /\ Range(wire') = Range(wire) \cup {r}
           /\ \A a, b : Follows(wire', a, b) => Follows(wire, a, b) \/ b = r
<1> DEFINE r == Head(working)
<1>1. r \in Responses /\ r \in Messages /\ working = <<r>> /\ wire \in Seq(Messages)
  BY DEF Typed, WorkerSend, Messages
<1>2. wire \o <<r>> = Append(wire, r)
  BY <1>1
<1>3. wire' = Append(wire, r) /\ working' = <<>>
  BY <1>1, <1>2 DEF WorkerSend
<1> HIDE DEF r
<1> QED
  BY <1>1, <1>3, AppendRange, OneRange, EmptyRange

LEMMA RangeTypes ==
  ASSUME Typed
  PROVE  /\ Range(requests) \subseteq Requests /\ Range(wire) \subseteq Messages
         /\ Answers \subseteq Responses
<1>1. ASSUME NEW S, NEW s \in Seq(S) PROVE Range(s) \subseteq S
  BY DEF Range
<1>2. Range(requests) \subseteq Requests /\ Range(wire) \subseteq Messages
  BY <1>1 DEF Typed
<1>3. Range(working) \subseteq Responses
  BY EmptyRange, OneRange DEF Typed
<1>4. \A m \in Messages : m.type = "response" => m \in Responses
  BY DEF Messages, Events
<1> QED
  BY <1>2, <1>3, <1>4 DEF Answers

\* A new batch: nothing that was on its way belongs to it.
LEMMA NumberedAnew ==
  ASSUME Control, NEW op, BatchOp' = op, batch' = batch + 1, Answers' \subseteq Answers,
         \A r \in Range(requests') : r \in Range(requests) \/ (r.op = op /\ r.batch = batch')
  PROVE  Numbered'
<1>1. Typed /\ batch \in Nat
  BY DEF Control, Typed, TypeOK
<1>2. \A r \in Range(requests) : r.batch \in Nat
  BY <1>1, RangeTypes DEF Requests
<1>3. \A r \in Answers : r.batch \in Nat
  BY <1>1, RangeTypes DEF Responses
<1> QED
  BY <1>1, <1>2, <1>3 DEF Control, Numbered
-----------------------------------------------------------------------------
(* The control is kept: Live and the worker.                              *)
LEMMA ControlInit == Init => Control
<1> SUFFICES ASSUME Init PROVE Control
  OBVIOUS
<1>1. Answers = {} /\ Range(requests) = {}
  BY EmptyRange DEF Init, Answers
<1>2. Typed
  BY SessionAssumption DEF Init, Typed, TypeOK, NoTool, Steps, Kinds, Phases, Unread
<1>3. Following
  BY SessionAssumption DEF Init, Following, Connected, NoTool
<1> QED
  BY <1>1, <1>2, <1>3 DEF Control, Numbered

\* Nothing but the set, the task queue and the channels changes.
ClientKept == UNCHANGED <<client, history>>

LEMMA ControlChange ==
  ASSUME Control, NEW s \in Slices, UserEdit(s) \/ LateApply(s)
  PROVE  Control'
<1>1. Typed /\ Change(s) /\ ClientKept /\ UNCHANGED <<requests, working, subs>> /\ late' \subseteq late
  BY DEF Control, UserEdit, LateApply, ClientKept
<1>2. /\ live' \in [Slices -> Nat] /\ wire' \in Seq(Messages)
      /\ wire' = wire \/ (Connected /\ Range(wire') = Range(wire) \cup {Event(s, live[s] + 1)})
  BY <1>1, Changed DEF Hears
<1>3. Answers' = Answers
  BY <1>1, <1>2 DEF Answers, Event
<1>4. Typed'
  BY <1>1, <1>2, ChannelTypes DEF Typed, TypeOK, ClientKept, client, history
<1>5. Following'
  BY <1>1, <1>2 DEF Control, Following, ClientKept, client, history, Connected
<1>6. Numbered'
  BY <1>1, <1>3 DEF Control, Numbered, ClientKept, client, history, BatchOp
<1> QED
  BY <1>4, <1>5, <1>6 DEF Control

\* The worker takes a request and holds its response.
LEMMA ControlTaken ==
  ASSUME Control, NEW op, NEW r, Take(op, r), NEW ok \in BOOLEAN, NEW v \in Nat,
         working' = <<Response(r, ok, v)>>,
         live' \in [Slices -> Nat], late' \subseteq Slices, subs' \subseteq Slices, ClientKept,
         wire' \in Seq(Messages), wire' = wire \/ (Connected /\ \E e : e.type = "event" /\
                                       Range(wire') = Range(wire) \cup {e})
  PROVE  Control'
<1>1. /\ Typed /\ r \in Requests /\ r \in Range(requests) /\ requests' \in Seq(Requests)
      /\ Range(requests') \subseteq Range(requests)
  BY Taken DEF Control
<1> DEFINE answer == Response(r, ok, v)
<1>2. answer \in Responses /\ answer.batch = r.batch
  BY <1>1 DEF Response, Responses, Requests
<1>3. requests # <<>>
  BY DEF Take
<1>4. Range(working') = {answer} /\ Len(working') = 1 /\ Head(working') = answer
  BY <1>2, OneRange
<1>5. Answers' \subseteq Answers \cup {answer}
  BY <1>4 DEF Answers
<1>6. working' = <<answer>>
  OBVIOUS
<1> HIDE DEF answer
<1>7. Typed'
  <2>1. working' # <<>> => Head(working') \in Responses /\ working' = <<Head(working')>>
    BY <1>2, <1>4, <1>6
  <2>2. \A i \in DOMAIN requests' : requests'[i].op \in {"subscribe", "get", "mutate"}
    BY <1>1, ChannelTypes
  <2>3. \A i \in DOMAIN wire' : wire'[i].type \in {"event", "response"}
    BY ChannelTypes
  <2>4. TypeOK'
    BY <1>1, <1>4, <2>2, <2>3 DEF Typed, TypeOK, ClientKept, client, history
  <2> QED
    BY <1>1, <2>1, <2>4 DEF Typed, ClientKept, client, history
<1>8. Following'
  BY <1>3 DEF Control, Following, ClientKept, client, history, Connected
<1>9. Numbered'
  <2>1. r.batch <= batch
    BY <1>1 DEF Control, Numbered
  <2> QED
    BY <1>1, <1>2, <1>5, <2>1 DEF Control, Numbered, ClientKept, client, history, BatchOp
<1> QED
  BY <1>7, <1>8, <1>9 DEF Control

LEMMA ControlWorker ==
  ASSUME Control, Worker
  PROVE  Control'
<1>0. Typed /\ live \in [Slices -> Nat] /\ late \subseteq Slices /\ subs \subseteq Slices
      /\ wire \in Seq(Messages)
  BY DEF Control, Typed, TypeOK
<1>1. CASE WorkerSubscribe
  <2>1. PICK r \in Range(requests) : /\ Take("subscribe", r) /\ subs' = subs \cup {r.slice}
                                     /\ working' = <<Response(r, TRUE, 0)>>
    BY <1>1 DEF WorkerSubscribe
  <2>2. r.slice \in Slices
    BY <1>0, <2>1, Taken DEF Requests
  <2>3. UNCHANGED <<live, late, wire>> /\ ClientKept
    BY <1>1 DEF WorkerSubscribe, ClientKept
  <2> QED
    BY <1>0, <2>1, <2>2, <2>3, ControlTaken
<1>2. CASE WorkerGet
  <2>1. PICK r \in Range(requests), ok \in BOOLEAN :
          Take("get", r) /\ working' = <<Response(r, ok, live[r.slice])>>
    BY <1>2 DEF WorkerGet
  <2>2. live[r.slice] \in Nat
    BY <1>0, <2>1, Taken DEF Requests
  <2>3. UNCHANGED <<live, late, subs, wire>> /\ ClientKept
    BY <1>2 DEF WorkerGet, ClientKept
  <2> QED
    BY <1>0, <2>1, <2>2, <2>3, ControlTaken
<1>3. CASE WorkerMutate
  <2>1. PICK r \in Range(requests) :
          /\ Take("mutate", r)
          /\ \/ Change(r.slice) /\ working' = <<Response(r, TRUE, live[r.slice] + 1)>>
                /\ UNCHANGED late
             \/ working' = <<Response(r, TRUE, live[r.slice])>> /\ UNCHANGED <<live, late, wire>>
             \/ working' = <<Response(r, FALSE, 0)>> /\ UNCHANGED <<live, late, wire>>
             \/ working' = <<Response(r, FALSE, 0)>> /\ late' = late \cup {r.slice}
                /\ UNCHANGED <<live, wire>>
    BY <1>3 DEF WorkerMutate
  <2>2. r.slice \in Slices /\ live[r.slice] \in Nat
    BY <1>0, <2>1, Taken DEF Requests
  <2>3. UNCHANGED subs /\ ClientKept
    BY <1>3 DEF WorkerMutate, ClientKept
  <2>4. CASE Change(r.slice) /\ working' = <<Response(r, TRUE, live[r.slice] + 1)>> /\ UNCHANGED late
    <3>1. /\ live' \in [Slices -> Nat] /\ wire' \in Seq(Messages)
          /\ wire' = wire \/ (Connected /\ Range(wire') = Range(wire)
                                             \cup {Event(r.slice, live[r.slice] + 1)})
      BY <1>0, <2>2, <2>4, Changed DEF Hears
    <3>2. Event(r.slice, live[r.slice] + 1).type = "event"
      BY DEF Event
    <3>3. live[r.slice] + 1 \in Nat
      BY <2>2
    <3> QED
      BY <1>0, <2>1, <2>3, <2>4, <3>1, <3>2, <3>3, ControlTaken
  <2>5. CASE UNCHANGED <<live, wire>> /\ late' \subseteq Slices
             /\ \E ok \in BOOLEAN, v \in Nat : working' = <<Response(r, ok, v)>>
    BY <1>0, <2>1, <2>3, <2>5, ControlTaken
  <2> QED
    BY <1>0, <2>1, <2>2, <2>4, <2>5
<1>4. CASE WorkerSend
  <2>1. PICK r \in Responses :
           /\ Range(working) = {r} /\ Range(working') = {} /\ working' = <<>>
           /\ wire' \in Seq(Messages) /\ Range(wire') = Range(wire) \cup {r}
    BY <1>0, <1>4, Sent
  <2>2. Answers' = Answers
    BY <2>1 DEF Answers, Responses
  <2>3. working # <<>> /\ UNCHANGED <<live, late, subs, requests>> /\ ClientKept
    BY <1>4 DEF WorkerSend, ClientKept
  <2>4. Typed'
    <3>1. \A i \in DOMAIN wire' : wire'[i].type \in {"event", "response"}
      BY <2>1, ChannelTypes
    <3> QED
      BY <1>0, <2>1, <2>3, <3>1 DEF Typed, TypeOK, ClientKept, client, history
  <2>5. Following'
    BY <2>1, <2>3 DEF Control, Following, ClientKept, client, history, Connected
  <2>6. Numbered'
    BY <2>2, <2>3 DEF Control, Numbered, ClientKept, client, history, BatchOp
  <2> QED
    BY <2>4, <2>5, <2>6 DEF Control
<1> QED
  BY <1>1, <1>2, <1>3, <1>4 DEF Worker
-----------------------------------------------------------------------------
(* The control is kept: calls, connections, and the first step of a call. *)
LEMMA ControlCall ==
  ASSUME Control, NEW k \in Kinds, NEW s \in Target(k), Call(k, s)
  PROVE  Control'
<1>1. /\ k = "write" => s \in Slices
      /\ k = "context" => s \in Selected
      /\ s \in Slices \cup {NotRead} /\ Selected \subseteq Slices
  BY SessionAssumption DEF Target, Kinds
<1>2. Typed'
  <2>1. tool' \in [kind : Kinds \cup {"none"}, step : Steps, slice : Slices \cup {NotRead},
                   before : Nat, wrote : Nat]
    BY <1>1 DEF Call, Steps
  <2>2. tool'.kind = k /\ k # "none" /\ tool'.step \in {"connect", "begin"}
    BY DEF Call, Kinds
  <2>3. calls' \in 0..MaxCalls /\ phase' \in Phases
    BY SessionAssumption DEF Control, Typed, TypeOK, Call, Phases
  <2>4. TypeOK'
    BY <2>1, <2>2, <2>3 DEF Control, Typed, TypeOK, Call, server
  <2> QED
    BY <2>1, <2>4 DEF Control, Typed, Call, server, history
<1>3. Following'
  BY <1>1 DEF Control, Following, Call, server, Connected, Typed, TypeOK, Phases
<1>4. Numbered'
  BY DEF Control, Typed, TypeOK, Following, Numbered, Call, server, BatchOp, Answers
<1> QED
  BY <1>2, <1>3, <1>4 DEF Control

LEMMA ControlConnect ==
  ASSUME Control, Connect
  PROVE  Control'
<1>0. Typed /\ TypeOK /\ Following
  BY DEF Control, Typed
<1>1. CASE ConnectOk
  <2>1. SendAll("subscribe")
    BY <1>1 DEF ConnectOk
  <2>2. /\ requests' \in Seq(Requests)
        /\ \A r \in Range(requests') :
              r \in Range(requests) \/ (r.op = "subscribe" /\ r.batch = batch' /\ r.slice \in Slices)
    BY <1>0, <2>1, SentAll
  <2>3. UNCHANGED <<working, wire, tool>> /\ batch' = batch + 1 /\ batch \in Nat /\ BatchOp' = "subscribe"
    BY <1>0, <1>1 DEF ConnectOk, server, SendAll, TypeOK, BatchOp
  <2>4. Typed'
    <3>1. \A i \in DOMAIN requests' : requests'[i].op \in {"subscribe", "get", "mutate"}
      BY <2>2, ChannelTypes
    <3>2. fetched' \in [Slices -> Nat \cup {NotRead}] /\ waiting' \subseteq Slices
      BY <2>1 DEF SendAll, Unread
    <3>3. tool.kind # "none" /\ phase' = "subscribing"
      BY <1>0, <1>1 DEF ConnectOk, TypeOK
    <3>4. conns' \in 0..MaxConns
      BY <1>0, <1>1, SessionAssumption DEF ConnectOk, TypeOK
    <3>5. TypeOK'
      BY <1>0, <1>1, <2>3, <3>1, <3>2, <3>3, <3>4 DEF TypeOK, ConnectOk, server, Phases
    <3> QED
      BY <1>0, <1>1, <2>2, <3>5 DEF Typed, TypeOK, ConnectOk, server
  <2>5. Following'
    BY <1>0, <1>1, SessionAssumption DEF Following, ConnectOk, server, Connected, TypeOK
  <2>6. Numbered'
    BY <2>2, <2>3, NumberedAnew DEF Answers
  <2> QED
    BY <2>4, <2>5, <2>6 DEF Control
<1>2. CASE ConnectFails
  <2>1. Typed'
    <3>1. /\ tool' = NoTool /\ phase' = "idle"
          /\ result' = [ok |-> FALSE, kind |-> tool.kind, before |-> tool.before, after |-> 0]
      BY <1>2 DEF ConnectFails, Finish
    <3>2. TypeOK'
      BY <1>0, <1>2, <3>1 DEF TypeOK, ConnectFails, server, Phases, NoTool
    <3> QED
      BY <1>0, <1>2, <3>1, <3>2 DEF Typed, TypeOK, ConnectFails, server, history, NoTool, Steps
  <2>2. Following'
    BY <1>0, <1>2 DEF Following, ConnectFails, Finish, server, Connected, NoTool
  <2>3. requests' = requests /\ requests = <<>> /\ Range(requests) = {} /\ Answers' = Answers /\ batch' = batch
    BY <1>0, <1>2, EmptyRange DEF Following, ConnectFails, server, Connected, Answers
  <2>4. Numbered'
    BY <2>3 DEF Control, Numbered
  <2> QED
    BY <2>1, <2>2, <2>4 DEF Control
<1> QED
  BY <1>1, <1>2 DEF Connect

\* The connection is dropped, and with it the call.
LEMMA ControlDropped ==
  ASSUME Control, Connected, DropConnection, late' \subseteq Slices, UNCHANGED <<live, conns, batch, calls>>,
         leaked' \in Nat, leaked' <= conns,
         UNCHANGED <<opened, acked>>, overlap' \subseteq Slices, raced' \subseteq Slices,
         (tool.kind = "none" /\ UNCHANGED <<tool, result>>) \/ Finish(FALSE, 0)
  PROVE  Control'
<1>0. Typed /\ TypeOK /\ Following
  BY DEF Control, Typed
<1>1. /\ phase' = "idle" /\ requests' = <<>> /\ working' = <<>> /\ subs' = {} /\ wire' = <<>>
      /\ waiting' = {} /\ fetched' = Unread /\ mirror' = Unread /\ version' = 0
  BY DEF DropConnection
<1>2. tool'.step = "done" /\ tool'.kind = "none"
  BY <1>0 DEF Finish, NoTool, TypeOK
<1>3. Typed'
  <2>1. tool' \in [kind : Kinds \cup {"none"}, step : Steps, slice : Slices \cup {NotRead},
               before : Nat, wrote : Nat]
    BY <1>0 DEF Finish, NoTool, Typed, Steps
  <2>2. result' \in [ok : BOOLEAN, kind : Kinds \cup {"none"}, before : Nat, after : Nat]
    <3>1. tool.kind \in Kinds \cup {"none"} /\ tool.before \in Nat
      BY <1>0 DEF Typed
    <3>2. CASE Finish(FALSE, 0)
      <4>1. result' = [ok |-> FALSE, kind |-> tool.kind, before |-> tool.before, after |-> 0]
        BY <3>2 DEF Finish
      <4> QED
        BY <3>1, <4>1
    <3>3. CASE UNCHANGED result
      BY <1>0, <3>3 DEF Typed
    <3> QED
      BY <3>2, <3>3
  <2>3. leaked' \in 0..MaxConns
    BY <1>0, SessionAssumption DEF TypeOK
  <2>4. TypeOK'
    BY <1>0, <1>1, <1>2, <2>3, SessionAssumption DEF TypeOK, Phases, Unread
  <2> QED
    BY <1>0, <1>1, <2>1, <2>2, <2>4 DEF Typed
<1>4. Following'
  BY <1>0, <1>1, <1>2 DEF Following, Connected
<1>5. Range(requests') = {} /\ Answers' = {}
  BY <1>1, EmptyRange DEF Answers
<1>6. Numbered'
  BY <1>5 DEF Numbered
<1> QED
  BY <1>3, <1>4, <1>6 DEF Control

LEMMA ControlLinkLost ==
  ASSUME Control, LinkLost
  PROVE  Control'
<1>0. Typed /\ TypeOK /\ Following
  BY DEF Control, Typed
<1>1. /\ Connected /\ DropConnection /\ leaked' \in {0, leaked}
      /\ late' \in {late, late \cup {r.slice : r \in {q \in Range(requests) : q.op = "mutate"}}}
      /\ UNCHANGED <<live, conns, batch, calls>> /\ UNCHANGED <<opened, acked, overlap, raced>>
      /\ (tool.kind = "none" /\ UNCHANGED <<tool, result>>) \/ Finish(FALSE, 0)
  BY DEF LinkLost, history
<1>2. \A r \in Range(requests) : r.slice \in Slices
  <2>1. Range(requests) \subseteq Requests
    BY <1>0 DEF Typed, Range
  <2> QED
    BY <2>1 DEF Requests
<1>3. late' \subseteq Slices
  BY <1>0, <1>1, <1>2 DEF TypeOK
<1>4. leaked' \in Nat /\ leaked' <= conns
  BY <1>0, <1>1, SessionAssumption DEF TypeOK, Following
<1> QED
  BY <1>0, <1>1, <1>3, <1>4, ControlDropped DEF Typed

LEMMA ControlBegin ==
  ASSUME Control, Begin
  PROVE  Control'
<1>0. Typed /\ TypeOK /\ Following
  BY DEF Control, Typed
<1>1. tool.step = "begin" /\ phase = "active" /\ Connected /\ waiting = {} /\ tool.kind # "none"
  BY <1>0 DEF Begin, BeginRead, BeginWrite, BeginRefresh, BeginContext, Following, Connected,
              TypeOK, Phases
<1>2. CASE BeginRead
  <2>1. Typed'
    <3>1. TypeOK'
      BY <1>0, <1>1, <1>2 DEF TypeOK, BeginRead, server, NoTool, Kinds
    <3> QED
      BY <1>0, <1>2, <3>1 DEF Typed, TypeOK, BeginRead, server, history, NoTool, Steps, Kinds
  <2>2. Following'
    BY <1>0, <1>1, <1>2 DEF Following, BeginRead, server, Connected, NoTool
  <2>3. Numbered'
    BY <1>0, <1>1, <1>2 DEF Control, Numbered, BeginRead, server, BatchOp, NoTool, Answers
  <2> QED
    BY <2>1, <2>2, <2>3 DEF Control
\* The others send requests.
<1>3. ASSUME NEW op \in {"get", "mutate"},
             \/ SendAll(op) /\ tool'.step = "sync" /\ op = "get" /\ tool.kind = "refresh"
             \/ /\ tool.slice \in Slices /\ SendOne(op, tool.slice)
                /\ \/ tool.kind = "write" /\ tool'.step = "mutate" /\ op = "mutate"
                   \/ tool.kind = "context" /\ tool'.step = "select" /\ op = "get",
             tool' = [tool EXCEPT !.step = tool'.step, !.before = version],
             UNCHANGED <<server, wire, phase, conns, leaked, mirror, version, result, calls>>,
             UNCHANGED <<opened, acked, raced>>, overlap' \subseteq Slices
      PROVE  Control'
  <2>1. /\ requests' \in Seq(Requests)
        /\ \A r \in Range(requests') :
              r \in Range(requests) \/ (r.op = op /\ r.batch = batch' /\ r.slice \in Slices)
    BY <1>0, <1>3, SentAll, SentOne
  <2>2. /\ batch' = batch + 1 /\ batch \in Nat /\ waiting' \subseteq Slices
        /\ fetched' \in [Slices -> Nat \cup {NotRead}]
        /\ tool'.step \in {"mutate", "select"} => waiting' \subseteq {tool.slice}
    BY <1>0, <1>3 DEF SendAll, SendOne, TypeOK, Unread
  <2>3. /\ tool' \in [kind : Kinds \cup {"none"}, step : Steps, slice : Slices \cup {NotRead},
                     before : Nat, wrote : Nat]
        /\ tool'.kind = tool.kind /\ tool'.slice = tool.slice
        /\ tool'.step \in {"sync", "mutate", "select"}
    BY <1>0, <1>3 DEF Typed, TypeOK, Steps
  <2>4. Typed'
    <3>1. \A i \in DOMAIN requests' : requests'[i].op \in {"subscribe", "get", "mutate"}
      BY <2>1, ChannelTypes
    <3>2. TypeOK'
      BY <1>0, <1>1, <1>3, <2>2, <2>3, <3>1 DEF TypeOK, server, Steps
    <3> QED
      BY <1>0, <1>3, <2>1, <2>3, <3>2 DEF Typed, server
  <2>5. Following'
    BY <1>0, <1>1, <1>3, <2>2, <2>3 DEF Following, server, Connected
  <2>6. BatchOp' = op
    BY <1>1, <1>3 DEF BatchOp
  <2>7. Numbered'
    <3>1. Answers' = Answers
      BY <1>3 DEF Answers, server
    <3> QED
      BY <2>1, <2>2, <2>6, <3>1, NumberedAnew
  <2> QED
    BY <2>4, <2>5, <2>7 DEF Control
<1>4. CASE BeginWrite
  <2>1. tool' = [tool EXCEPT !.step = "mutate", !.before = version] /\ tool'.step = "mutate"
    BY <1>0, <1>4 DEF BeginWrite, Typed
  <2>2. tool.slice \in Slices
    BY <1>0, <1>4 DEF BeginWrite, Following
  <2>3. tool' = [tool EXCEPT !.step = tool'.step, !.before = version]
    BY <2>1
  <2> QED
    BY <1>0, <1>3, <1>4, <2>1, <2>2, <2>3 DEF BeginWrite, Typed, history
<1>5. CASE BeginRefresh
  <2>1. tool' = [tool EXCEPT !.step = "sync", !.before = version] /\ tool'.step = "sync"
    BY <1>0, <1>5 DEF BeginRefresh, Typed
  <2>3. tool' = [tool EXCEPT !.step = tool'.step, !.before = version]
    BY <2>1
  <2> QED
    BY <1>0, <1>3, <1>5, <2>1, <2>3 DEF BeginRefresh, Typed
<1>6. CASE BeginContext
  <2>1. tool' = [tool EXCEPT !.step = "select", !.before = version] /\ tool'.step = "select"
    BY <1>0, <1>6 DEF BeginContext, Typed
  <2>2. tool.slice \in Slices
    BY <1>0, <1>6, SessionAssumption DEF BeginContext, Following
  <2>3. tool' = [tool EXCEPT !.step = tool'.step, !.before = version]
    BY <2>1
  <2> QED
    BY <1>0, <1>3, <1>6, <2>1, <2>2, <2>3 DEF BeginContext, Typed, history
<1> QED
  BY <1>2, <1>4, <1>5, <1>6 DEF Begin
-----------------------------------------------------------------------------
(* The control is kept: what the client does with a message.              *)
LEMMA Received ==
  ASSUME Control, NEW m, Deliver(m) \/ Chunk(m), UNCHANGED server
  PROVE  /\ m \in Messages /\ m.slice \in Slices /\ m.version \in Nat /\ wire' \in Seq(Messages)
         /\ \A i \in DOMAIN wire' : wire'[i].type \in {"event", "response"}
         /\ Answers' \subseteq Answers /\ (m.type = "response" => m \in Answers)
         /\ Typed /\ TypeOK /\ Following /\ Connected /\ tool.step # "begin"
<1>1. Typed /\ TypeOK /\ Following /\ Connected /\ tool.step # "begin"
  BY DEF Control, Typed, Deliver, Chunk, DeliverChunk, Settled
<1>2. /\ m \in Messages /\ m \in Range(wire) /\ wire' \in Seq(Messages)
      /\ Range(wire') \subseteq Range(wire)
  BY <1>1, Delivered, Handed DEF Chunk
<1>3. Answers' \subseteq Answers /\ (m.type = "response" => m \in Answers)
  BY <1>2 DEF Answers, server
<1>4. m.slice \in Slices /\ m.version \in Nat
  BY <1>2 DEF Messages, Events, Responses
<1> QED
  BY <1>1, <1>2, <1>3, <1>4, ChannelTypes

\* Steps that end the call, or leave it, with nothing sent.
LEMMA ControlQuiet ==
  ASSUME Control, NEW m, Deliver(m) \/ Chunk(m),
         UNCHANGED <<server, requests, phase, conns, leaked, batch, calls>>,
         fetched' \in [Slices -> Nat \cup {NotRead}], mirror' \in [Slices -> Nat \cup {NotRead}],
         version' \in Nat, opened' = opened, acked' \in [Slices -> Nat],
         overlap' \subseteq Slices, raced' \subseteq Slices,
         \/ UNCHANGED <<waiting, tool, result>>
         \/ /\ phase = "active" /\ waiting' = {} /\ tool' = NoTool
            /\ \E ok \in BOOLEAN, after \in Nat :
                 result' = [ok |-> ok, kind |-> tool.kind, before |-> tool.before, after |-> after]
         \/ /\ waiting' \subseteq waiting /\ waiting # {} /\ UNCHANGED <<tool, result>>
  PROVE  Control'
<1>1. /\ wire' \in Seq(Messages) /\ Answers' \subseteq Answers
      /\ \A i \in DOMAIN wire' : wire'[i].type \in {"event", "response"}
      /\ Typed /\ TypeOK /\ Following /\ Connected /\ tool.step # "begin"
  BY Received
<1>2. waiting' \subseteq waiting
  OBVIOUS
<1>3. UNCHANGED <<tool, result>> \/ (phase = "active" /\ waiting' = {} /\ tool' = NoTool)
  OBVIOUS
<1>4. result' \in [ok : BOOLEAN, kind : Kinds \cup {"none"}, before : Nat, after : Nat]
  <2>1. CASE result' = result
    BY <1>1, <2>1 DEF Typed
  <2>2. CASE \E ok \in BOOLEAN, after \in Nat :
               result' = [ok |-> ok, kind |-> tool.kind, before |-> tool.before, after |-> after]
    <3>1. tool.kind \in Kinds \cup {"none"} /\ tool.before \in Nat
      BY <1>1 DEF Typed
    <3> QED
      BY <2>2, <3>1
  <2> QED
    BY <2>1, <2>2
<1>5. tool' \in [kind : Kinds \cup {"none"}, step : Steps, slice : Slices \cup {NotRead},
                 before : Nat, wrote : Nat]
  <2>1. NoTool \in [kind : Kinds \cup {"none"}, step : Steps, slice : Slices \cup {NotRead},
                    before : Nat, wrote : Nat]
    BY DEF NoTool, Steps
  <2> QED
    BY <1>1, <1>3, <2>1 DEF Typed
<1>6. Typed'
  <2>1. TypeOK'
    <3>1. CASE tool' = tool
      BY <1>1, <1>2, <3>1 DEF TypeOK, server
    <3>2. CASE phase = "active" /\ tool' = NoTool
      BY <1>1, <1>2, <3>2 DEF TypeOK, server, NoTool
    <3> QED
      BY <1>3, <3>1, <3>2
  <2> QED
    BY <1>1, <1>4, <1>5, <2>1 DEF Typed, server
<1>7. Following'
  <2>1. CASE tool' = tool
    BY <1>1, <1>2, <2>1 DEF Following, Connected, server
  <2>2. CASE phase = "active" /\ tool' = NoTool /\ waiting' = {}
    BY <1>1, <2>2 DEF Following, Connected, server, NoTool
  <2> QED
    BY <1>3, <2>1, <2>2
<1>8. Numbered'
  BY <1>1, <1>2, <1>3 DEF Control, Numbered, BatchOp
<1> QED
  BY <1>6, <1>7, <1>8 DEF Control

\* The answer that completes a batch leads to the next one.
LEMMA ControlNextBatch ==
  ASSUME Control, NEW m, Deliver(m), SendAll("get"),
         UNCHANGED <<server, conns, leaked, mirror, version, result, calls>>,
         UNCHANGED <<opened, acked, raced>>, overlap' = {},
         \/ phase = "subscribing" /\ phase' = "snapshot" /\ tool' = tool
         \/ /\ phase = "active" /\ phase' = phase /\ tool.step = "mutate"
            /\ tool' = [tool EXCEPT !.step = "sync", !.wrote = m.version]
  PROVE  Control'
<1>1. /\ wire' \in Seq(Messages) /\ Answers' \subseteq Answers /\ m.version \in Nat
      /\ \A i \in DOMAIN wire' : wire'[i].type \in {"event", "response"}
      /\ Typed /\ TypeOK /\ Following /\ Connected /\ tool.step # "begin"
  BY Received
<1>2. /\ requests' \in Seq(Requests)
      /\ \A r \in Range(requests') :
           r \in Range(requests) \/ (r.op = "get" /\ r.batch = batch' /\ r.slice \in Slices)
  BY <1>1, SentAll
<1>3. /\ batch' = batch + 1 /\ batch \in Nat /\ waiting' = Slices /\ fetched' = Unread
  BY <1>1 DEF SendAll, TypeOK
<1>4. /\ tool' \in [kind : Kinds \cup {"none"}, step : Steps, slice : Slices \cup {NotRead},
                     before : Nat, wrote : Nat]
      /\ tool'.kind = tool.kind /\ tool'.slice = tool.slice
  BY <1>1 DEF Typed, Steps
<1>5. tool'.step = IF phase = "active" THEN "sync" ELSE tool.step
  BY <1>1 DEF Typed
<1>6. Typed'
  <2>1. \A i \in DOMAIN requests' : requests'[i].op \in {"subscribe", "get", "mutate"}
    BY <1>2, ChannelTypes
  <2>2. TypeOK'
    BY <1>1, <1>3, <1>4, <1>5, <2>1 DEF TypeOK, server, Unread, Phases, Following
  <2> QED
    BY <1>1, <1>2, <1>4, <2>2 DEF Typed, server
<1>7. Following'
  BY <1>1, <1>3, <1>4, <1>5 DEF Following, Connected, server
<1>8. BatchOp' = "get"
  BY <1>1, <1>5 DEF BatchOp, Following
<1>9. Numbered'
  BY <1>1, <1>2, <1>3, <1>8, NumberedAnew
<1> QED
  BY <1>6, <1>7, <1>9 DEF Control

LEMMA ControlRead ==
  ASSUME Control, DeliverRead
  PROVE  Control'
<1>0. Typed /\ TypeOK
  BY DEF Control, Typed
<1>1. PICK m \in Range(wire) :
        /\ Deliver(m) /\ Pending(m) /\ waiting' = waiting \ {m.slice}
        /\ fetched' = [fetched EXCEPT ![m.slice] = m.version]
  BY DEF DeliverRead
<1>2. /\ UNCHANGED <<server, requests, phase, conns, leaked, batch, calls>>
      /\ UNCHANGED <<mirror, version, tool, result, opened, acked, overlap, raced>>
  BY DEF DeliverRead, history
<1>3. m.slice \in Slices /\ m.version \in Nat
  BY <1>1, <1>2, Received
<1>4. /\ fetched' \in [Slices -> Nat \cup {NotRead}] /\ mirror' \in [Slices -> Nat \cup {NotRead}]
      /\ version' \in Nat /\ acked' \in [Slices -> Nat]
      /\ overlap' \subseteq Slices /\ raced' \subseteq Slices
  BY <1>0, <1>1, <1>2, <1>3 DEF Typed, TypeOK
<1>5. waiting' \subseteq waiting /\ waiting # {}
  BY <1>1 DEF Pending
<1> QED
  BY <1>1, <1>2, <1>4, <1>5, ControlQuiet

\* The events behind the last answer in its chunk are finitely many, and each is of a
\* slice.
LEMMA Behindhand ==
  ASSUME Control, NEW m, NEW n, DeliverChunk(m, n)
  PROVE  /\ Cardinality({i \in 2..n : wire[i].type = "event"}) \in Nat
         /\ \A i \in 2..n : wire[i].slice \in Slices
<1>1. /\ n \in DOMAIN wire /\ Range(wire) \subseteq Messages
      /\ wire \in Seq(Messages)
  BY Handed DEF Control, Typed
<1>2. n \in Nat /\ 2..n \subseteq DOMAIN wire
  BY <1>1
<1>3. IsFiniteSet(2..n)
  BY <1>2, FS_Interval
<1>4. Cardinality({i \in 2..n : wire[i].type = "event"}) \in Nat
  BY <1>3, FS_Subset, FS_CardinalityType
<1>5. \A i \in 2..n : wire[i] \in Messages
  BY <1>1, <1>2
<1> QED
  BY <1>4, <1>5 DEF Messages, Events, Responses

LEMMA ControlLastRead ==
  ASSUME Control, DeliverLastRead
  PROVE  Control'
<1>0. Typed /\ TypeOK /\ Following
  BY DEF Control, Typed
<1>1. PICK m \in Range(wire), n \in DOMAIN wire :
        LET read == [fetched EXCEPT ![m.slice] = m.version]
            events == {i \in 2..n : wire[i].type = "event"}
        IN
        /\ DeliverChunk(m, n) /\ Pending(m) /\ m.ok /\ Syncing /\ waiting = {m.slice}
        /\ waiting' = {} /\ fetched' = read
        /\ ApplySnapshot(read, version + Cardinality(events))
        /\ overlap' = overlap \cup {wire[i].slice : i \in events}
        /\ raced' = overlap' /\ phase' = "active"
        /\ IF phase = "snapshot"
           THEN tool' = [tool EXCEPT !.step = "begin"] /\ UNCHANGED <<result, acked>>
           ELSE /\ Finish(TRUE, version')
                /\ acked' = IF tool.kind = "write"
                            THEN [acked EXCEPT ![tool.slice] = tool.wrote] ELSE acked
  BY Zenon DEF DeliverLastRead
<1>2. UNCHANGED <<server, requests, conns, leaked, batch, calls, opened>>
  BY DEF DeliverLastRead
<1>3. /\ m.slice \in Slices /\ m.version \in Nat /\ wire' \in Seq(Messages) /\ Answers' \subseteq Answers
      /\ \A i \in DOMAIN wire' : wire'[i].type \in {"event", "response"}
      /\ Connected /\ Chunk(m)
  BY <1>1, <1>2, Received DEF Chunk
<1>4. /\ fetched' \in [Slices -> Nat \cup {NotRead}] /\ mirror' \in [Slices -> Nat \cup {NotRead}]
      /\ version' \in Nat
  <2>1. fetched \in [Slices -> Nat \cup {NotRead}] /\ version \in Nat
    BY <1>0 DEF TypeOK
  <2>2. fetched' \in [Slices -> Nat \cup {NotRead}]
    BY <1>1, <1>3, <2>1
  <2>3. PICK k \in Nat : mirror' = fetched' /\ version' = version + k + 1
    BY <1>1, Behindhand DEF ApplySnapshot
  <2> QED
    BY <2>1, <2>2, <2>3
<1>5. acked' \in [Slices -> Nat]
  <2>1. acked \in [Slices -> Nat] /\ tool.wrote \in Nat
    BY <1>0 DEF Typed
  <2> QED
    BY <1>1, <2>1
<1>6. overlap' \subseteq Slices /\ raced' \subseteq Slices
  <2>1. \A i \in 2..n : wire[i].slice \in Slices
    BY <1>1, Behindhand
  <2>2. overlap \subseteq Slices
    BY <1>0 DEF Typed
  <2>3. overlap' = overlap \cup {wire[i].slice : i \in {j \in 2..n : wire[j].type = "event"}}
    BY <1>1
  <2>4. overlap' \subseteq Slices
    BY <2>1, <2>2, <2>3
  <2> QED
    BY <1>1, <2>4
<1>8. CASE phase # "snapshot"
  <2>1. tool.step = "sync" /\ phase = "active" /\ phase' = phase /\ waiting' = {}
    BY <1>0, <1>1, <1>3, <1>8 DEF Syncing, Following, Connected
  <2>2. /\ tool' = NoTool /\ \E ok \in BOOLEAN, after \in Nat :
             result' = [ok |-> ok, kind |-> tool.kind, before |-> tool.before, after |-> after]
    BY <1>1, <1>4, <1>8 DEF Finish
  <2> QED
    BY <1>2, <1>3, <1>4, <1>5, <1>6, <2>1, <2>2, ControlQuiet
<1>9. CASE phase = "snapshot"
  <2>1. /\ tool' = [tool EXCEPT !.step = "begin"] /\ result' = result /\ phase' = "active"
        /\ waiting' = {}
    BY <1>1, <1>9
  <2>2. /\ tool' \in [kind : Kinds \cup {"none"}, step : Steps, slice : Slices \cup {NotRead},
                       before : Nat, wrote : Nat]
        /\ tool'.kind = tool.kind /\ tool'.slice = tool.slice /\ tool'.step = "begin"
    BY <1>0, <2>1 DEF Typed, Steps
  <2>3. Typed'
    <3>1. TypeOK'
      BY <1>0, <1>2, <1>3, <1>4, <1>9, <2>1, <2>2 DEF TypeOK, server, Phases
    <3> QED
      BY <1>0, <1>2, <1>3, <1>5, <1>6, <2>1, <2>2, <3>1 DEF Typed, server
  <2>4. Following'
    BY <1>0, <1>2, <1>9, <2>1, <2>2 DEF Following, Connected, server
  <2>5. Numbered'
    BY <1>2, <1>3, <2>1 DEF Control, Numbered
  <2> QED
    BY <2>3, <2>4, <2>5 DEF Control
<1> QED
  BY <1>8, <1>9

LEMMA ControlReceive ==
  ASSUME Control, Receive
  PROVE  Control'
<1>0. Typed /\ TypeOK /\ Following
  BY DEF Control, Typed
<1>1. CASE DeliverEvent
  <2>1. PICK m \in Range(wire) :
          /\ Deliver(m) /\ mirror' = [mirror EXCEPT ![m.slice] = m.version]
          /\ version' = version + 1
          /\ overlap' = IF Syncing THEN overlap \cup {m.slice} ELSE overlap
          /\ raced' = raced \ {m.slice}
    BY <1>1 DEF DeliverEvent
  <2>2. /\ UNCHANGED <<server, requests, phase, conns, leaked, batch, calls>>
        /\ UNCHANGED <<waiting, fetched, tool, result, opened, acked>>
    BY <1>1 DEF DeliverEvent
  <2>3. m.slice \in Slices /\ m.version \in Nat
    BY <2>1, <2>2, Received
  <2>4. /\ fetched' \in [Slices -> Nat \cup {NotRead}] /\ mirror' \in [Slices -> Nat \cup {NotRead}]
        /\ version' \in Nat /\ acked' \in [Slices -> Nat]
        /\ overlap' \subseteq Slices /\ raced' \subseteq Slices
    BY <1>0, <2>1, <2>2, <2>3 DEF Typed, TypeOK
  <2> QED
    BY <2>1, <2>2, <2>4, ControlQuiet
<1>2. CASE DeliverUnawaited
  <2>1. PICK m \in Range(wire) : Deliver(m) /\ UNCHANGED <<server, requests, client, history>>
    BY <1>2 DEF DeliverUnawaited
  <2>2. /\ fetched' \in [Slices -> Nat \cup {NotRead}] /\ mirror' \in [Slices -> Nat \cup {NotRead}]
        /\ version' \in Nat /\ acked' \in [Slices -> Nat]
        /\ overlap' \subseteq Slices /\ raced' \subseteq Slices
    BY <1>0, <2>1 DEF Typed, TypeOK, client, history
  <2> QED
    BY <2>1, <2>2, ControlQuiet DEF client, history
<1>3. CASE DeliverStartError
  <2>1. /\ Connected /\ DropConnection /\ leaked' = leaked + 1
        /\ Finish(FALSE, 0) /\ UNCHANGED <<live, late, conns, batch, calls, history>>
    BY <1>3 DEF DeliverStartError
  <2>2. late' \subseteq Slices
    BY <1>0, <2>1 DEF TypeOK
  <2>3. leaked' \in Nat /\ leaked' <= conns
    BY <1>0, <2>1, SessionAssumption DEF TypeOK, Following
  <2>4. UNCHANGED <<opened, acked>> /\ overlap' \subseteq Slices /\ raced' \subseteq Slices
    BY <1>0, <2>1 DEF Typed, history
  <2> QED
    BY <2>1, <2>2, <2>3, <2>4, ControlDropped
<1>4. CASE DeliverCallError
  <2>1. PICK m \in Range(wire) : Deliver(m) /\ phase = "active" /\ waiting' = {} /\ Finish(FALSE, 0)
    BY <1>4 DEF DeliverCallError
  <2>2. /\ UNCHANGED <<server, requests, phase, conns, leaked, batch, calls>>
        /\ UNCHANGED <<fetched, mirror, version, opened, acked, overlap, raced>>
    BY <1>4 DEF DeliverCallError, history
  <2>3. /\ fetched' \in [Slices -> Nat \cup {NotRead}] /\ mirror' \in [Slices -> Nat \cup {NotRead}]
        /\ version' \in Nat /\ acked' \in [Slices -> Nat]
        /\ overlap' \subseteq Slices /\ raced' \subseteq Slices
    BY <1>0, <2>2 DEF Typed, TypeOK
  <2>4. /\ tool' = NoTool /\ \E ok \in BOOLEAN, after \in Nat :
             result' = [ok |-> ok, kind |-> tool.kind, before |-> tool.before, after |-> after]
    BY <2>1 DEF Finish
  <2> QED
    BY <2>1, <2>2, <2>3, <2>4, ControlQuiet
<1>5. CASE DeliverSubscribed
  <2>1. PICK m \in Range(wire) :
          /\ Deliver(m) /\ Pending(m) /\ phase = "subscribing"
          /\ IF waiting = {m.slice}
             THEN phase' = "snapshot" /\ SendAll("get") /\ overlap' = {}
             ELSE waiting' = waiting \ {m.slice}
                  /\ UNCHANGED <<phase, batch, fetched, requests, overlap>>
    BY <1>5 DEF DeliverSubscribed
  <2>2. /\ UNCHANGED <<server, conns, leaked, mirror, version, result, calls>>
        /\ UNCHANGED <<tool, opened, acked, raced>>
    BY <1>5 DEF DeliverSubscribed
  <2>3. CASE waiting = {m.slice}
    BY <2>1, <2>2, <2>3, ControlNextBatch
  <2>4. CASE waiting # {m.slice}
    <3>1. /\ fetched' \in [Slices -> Nat \cup {NotRead}] /\ mirror' \in [Slices -> Nat \cup {NotRead}]
          /\ version' \in Nat /\ acked' \in [Slices -> Nat]
          /\ overlap' \subseteq Slices /\ raced' \subseteq Slices
      BY <1>0, <2>1, <2>2, <2>4 DEF Typed, TypeOK
    <3>2. waiting' \subseteq waiting /\ waiting # {}
      BY <2>1, <2>4 DEF Pending
    <3> QED
      BY <2>1, <2>2, <2>4, <3>1, <3>2, ControlQuiet
  <2> QED
    BY <2>3, <2>4
<1>6. CASE DeliverMutated
  <2>1. PICK m \in Range(wire) :
          /\ Deliver(m) /\ tool.step = "mutate" /\ SendAll("get") /\ overlap' = {}
          /\ tool' = [tool EXCEPT !.step = "sync", !.wrote = m.version]
    BY <1>6 DEF DeliverMutated
  <2>2. phase = "active"
    BY <1>0, <2>1 DEF Following, Deliver, Connected, TypeOK, Phases
  <2> QED
    BY <1>6, <2>1, <2>2, ControlNextBatch DEF DeliverMutated
<1>7. CASE DeliverContext
  <2>1. PICK m \in Range(wire) :
          /\ Deliver(m) /\ tool.step = "select" /\ waiting' = {}
          /\ mirror' = [mirror EXCEPT ![m.slice] = m.version] /\ version' = version + 1
          /\ Finish(TRUE, version')
    BY <1>7 DEF DeliverContext
  <2>2. /\ UNCHANGED <<server, requests, phase, conns, leaked, batch, calls>>
        /\ UNCHANGED <<fetched, opened, acked, overlap, raced>>
    BY <1>7 DEF DeliverContext, history
  <2>3. m.slice \in Slices /\ m.version \in Nat
    BY <2>1, <2>2, Received
  <2>4. /\ fetched' \in [Slices -> Nat \cup {NotRead}] /\ mirror' \in [Slices -> Nat \cup {NotRead}]
        /\ version' \in Nat /\ acked' \in [Slices -> Nat]
        /\ overlap' \subseteq Slices /\ raced' \subseteq Slices
    BY <1>0, <2>1, <2>2, <2>3 DEF Typed, TypeOK
  <2>5. phase = "active"
    BY <1>0, <2>1 DEF Following, Deliver, Connected, TypeOK, Phases
  <2>6. /\ tool' = NoTool /\ \E ok \in BOOLEAN, after \in Nat :
             result' = [ok |-> ok, kind |-> tool.kind, before |-> tool.before, after |-> after]
    BY <2>1, <2>4 DEF Finish
  <2> QED
    BY <2>1, <2>2, <2>4, <2>5, <2>6, ControlQuiet
<1>8. CASE DeliverRead \/ DeliverLastRead
  BY <1>8, ControlRead, ControlLastRead
<1> QED
  BY <1>1, <1>2, <1>3, <1>4, <1>5, <1>6, <1>7, <1>8 DEF Receive

LEMMA ControlStep ==
  ASSUME Control, [Next]_vars
  PROVE  Control'
<1>1. CASE Environment
  BY <1>1, ControlChange, ControlCall, ControlLinkLost DEF Environment
<1>2. CASE UNCHANGED vars
  <2>1. Answers' = Answers
    BY <1>2 DEF Answers, vars, server
  <2>2. Typed' /\ Following' /\ Numbered'
    BY <1>2, <2>1 DEF Control, Typed, TypeOK, Following, Numbered, BatchOp, Connected, vars,
                      server, client, history
  <2> QED
    BY <2>2 DEF Control
<1> QED
  BY <1>1, <1>2, ControlWorker, ControlConnect, ControlBegin, ControlReceive DEF Next
-----------------------------------------------------------------------------
(* The versions: what Live and the worker do.                             *)
Versions == Past /\ Fresh

LEMMA VersionsInit == Init => Versions
<1> SUFFICES ASSUME Init PROVE Versions
  OBVIOUS
<1>1. /\ Range(wire) = {} /\ Range(working) = {} /\ Answers = {}
      /\ \A a, b : ~Follows(wire, a, b)
  BY EmptyRange DEF Init, Answers, Follows
<1>2. \A s \in Slices : Recent(live[s], s)
  BY DEF Init, Recent, NoTool
<1> QED
  BY <1>1, <1>2 DEF Versions, Past, Fresh, FetchedRecent, MirrorRecent, Init, Syncing, NoTool

\* What Recent asks for is a matter of the client alone.
LEMMA RecentKept ==
  ASSUME UNCHANGED <<opened, acked>>, tool' = tool \/ tool'.step # "sync"
  PROVE  \A v, s : Recent(v, s) => Recent(v, s)'
  BY DEF Recent

LEMMA RecentRises ==
  ASSUME Control, NEW s \in Slices, NEW v \in Nat, Recent(v, s), NEW w \in Nat, v <= w
  PROVE  Recent(w, s)
<1>1. opened[s] \in Nat /\ acked[s] \in Nat /\ tool.wrote \in Nat
  BY DEF Control, Typed
<1> QED
  BY <1>1 DEF Recent

LEMMA VersionsChange ==
  ASSUME Control, Versions, NEW s \in Slices, Change(s), ClientKept,
         Range(working') \subseteq Range(working)
           \/ \E r \in Responses : /\ Range(working') = {r} /\ r.version <= live'[r.slice]
                                   /\ ~(BatchOp = "get" /\ r.batch = batch /\ r.slice \in waiting)
  PROVE  Versions'
<1>0. PICK event : event = Event(s, live[s] + 1)
  OBVIOUS
<1>1. Typed /\ live \in [Slices -> Nat]
  BY DEF Control, Typed, TypeOK
<1>2. /\ live' = [live EXCEPT ![s] = @ + 1] /\ live' \in [Slices -> Nat]
      /\ \/ wire' = wire
         \/ /\ Range(wire') = Range(wire) \cup {event}
            /\ \A a, b : Follows(wire', a, b) =>
                 Follows(wire, a, b) \/ (a \in Range(wire) /\ b = event)
  BY <1>0, <1>1, Changed
<1>3. event.type = "event" /\ event.slice = s /\ event.version = live[s] + 1
  BY <1>0 DEF Event
<1>4. \A t \in Slices : live[t] <= live'[t]
  BY <1>1, <1>2
<1>5. \A v, t : Recent(v, t) => Recent(v, t)'
  BY RecentKept DEF ClientKept, client, history
<1>6. ASSUME NEW t \in Slices PROVE Recent(live[t], t)'
  <2>1. PICK v \in Nat : v = live'[t]
    BY <1>2
  <2>2. Recent(v, t)
    BY <1>1, <1>4, <2>1, RecentRises DEF Versions, Past
  <2>3. Recent(v, t)'
    BY <1>5, <2>2
  <2> QED
    BY <2>1, <2>3
<1>7. \A m \in Range(wire) \cup Range(working) : /\ m.slice \in Slices /\ m.version \in Nat
                                                /\ m.version <= live'[m.slice]
  <2>1. \A m \in Range(wire) \cup Range(working) : m.slice \in Slices /\ m.version \in Nat
    BY <1>1, RangeTypes DEF Answers, Messages, Events, Responses
  <2> QED
    BY <1>1, <1>2, <1>4, <2>1 DEF Versions, Past
<1>8. \A m \in Range(wire') \cup Range(working') : m.version <= live'[m.slice]
  <2>1. event.version <= live'[event.slice]
    BY <1>1, <1>2, <1>3
  <2> QED
    BY <1>2, <1>7, <2>1
<1>9. ASSUME NEW a, NEW b, Follows(wire', a, b), b.type = "event", a.slice = b.slice
      PROVE  a.version < b.version
  <2>1. CASE Follows(wire, a, b)
    BY <1>9, <2>1 DEF Versions, Past
  <2>2. CASE a \in Range(wire) /\ b = event
    <3>1. a.slice = s /\ a.version \in Nat /\ a.version <= live[s]
      BY <1>3, <1>7, <1>9, <2>2 DEF Versions, Past
    <3> QED
      BY <1>1, <1>3, <2>2, <3>1
  <2> QED
    BY <1>2, <1>9, <2>1, <2>2
<1>10. \A m \in Range(wire') : m.type = "event" => Recent(m.version, m.slice)'
  <2>1. live[s] + 1 = live'[s]
    BY <1>1, <1>2
  <2>2. Recent(event.version, event.slice)'
    <3>1. event.version = live'[s] /\ event.slice = s /\ Recent(live[s], s)'
      BY <1>3, <1>6, <2>1
    <3> QED
      BY <3>1
  <2>3. \A m \in Range(wire) : m.type = "event" => Recent(m.version, m.slice)'
    BY <1>5 DEF Versions, Fresh
  <2> QED
    BY <1>2, <2>2, <2>3
<1>11. BatchOp' = BatchOp /\ UNCHANGED <<batch, waiting, phase, tool, fetched, mirror, opened, acked>>
  BY DEF ClientKept, client, history, BatchOp
<1>12. BatchOp = "get" => \A r \in Answers' : r.batch = batch /\ r.slice \in waiting /\ r.ok
                                           => Recent(r.version, r.slice)'
  <2>1. ASSUME NEW r \in Range(wire'), r.type = "response" PROVE r \in Answers
    BY <1>2, <1>3, <2>1 DEF Answers
  <2>2. ASSUME NEW r \in Range(working'), BatchOp = "get", r.batch = batch, r.slice \in waiting
        PROVE  r \in Answers
    BY <2>2 DEF Answers
  <2>3. ASSUME NEW r \in Answers', BatchOp = "get", r.batch = batch, r.slice \in waiting
        PROVE  r \in Answers
    BY <2>1, <2>2, <2>3 DEF Answers
  <2> QED
    BY <1>5, <2>3 DEF Versions, Fresh, Awaited
<1>13. Past'
  BY <1>6, <1>8, <1>9 DEF Past
<1>14. Fresh'
  BY <1>5, <1>10, <1>11, <1>12 DEF Versions, Fresh, FetchedRecent, MirrorRecent, Awaited, Syncing
<1> QED
  BY <1>13, <1>14 DEF Versions

\* The worker takes a request and changes nothing.
LEMMA VersionsTaken ==
  ASSUME Control, Versions, UNCHANGED <<live, wire>>, ClientKept, NEW r \in Responses,
         Range(working') = {r}, r.version <= live[r.slice],
         BatchOp = "get" /\ r.batch = batch /\ r.slice \in waiting => Recent(r.version, r.slice)
  PROVE  Versions'
<1>1. \A v, t : Recent(v, t) => Recent(v, t)'
  BY RecentKept DEF ClientKept, client, history
<1>2. BatchOp' = BatchOp /\ UNCHANGED <<batch, waiting, phase, tool, fetched, mirror, opened, acked>>
  BY DEF ClientKept, client, history, BatchOp
<1>3. \A x \in Answers' : x \in Answers \/ x = r
  BY DEF Answers
<1>4. Past'
  <2>1. \A t \in Slices : Recent(live[t], t)'
    BY <1>1 DEF Versions, Past
  <2> QED
    BY <2>1 DEF Versions, Past
<1>5. \A x \in Answers' : BatchOp = "get" /\ x.batch = batch /\ x.slice \in waiting /\ x.ok
                            => Recent(x.version, x.slice)'
  BY <1>1, <1>3 DEF Versions, Fresh, Awaited
<1>6. Fresh'
  BY <1>1, <1>2, <1>5 DEF Versions, Fresh, FetchedRecent, MirrorRecent, Awaited, Syncing
<1> QED
  BY <1>4, <1>6 DEF Versions

\* What the worker holds answers the request that it took.
LEMMA Held ==
  ASSUME Control, NEW r \in Range(requests), NEW ok \in BOOLEAN, NEW v \in Nat,
         working' = <<Response(r, ok, v)>>
  PROVE  \E a \in Responses :
           /\ Range(working') = {a} /\ a.version = v /\ a.slice = r.slice /\ a.slice \in Slices
           /\ a.batch = batch /\ a.slice \in waiting => r.op = BatchOp
<1> DEFINE a == Response(r, ok, v)
<1>1. r \in Requests
  BY RangeTypes DEF Control
<1>2. r.slice \in Slices /\ r.batch \in Nat
  BY <1>1 DEF Requests
<1>3. a \in Responses /\ a.version = v /\ a.slice = r.slice /\ a.batch = r.batch
  BY <1>2 DEF Response, Responses
<1>4. Range(working') = {a}
  BY OneRange
<1> HIDE DEF a
<1>5. a.batch = batch /\ a.slice \in waiting => r.op = BatchOp
  BY <1>3 DEF Control, Numbered
<1> QED
  BY <1>2, <1>3, <1>4, <1>5

LEMMA VersionsWorker ==
  ASSUME Control, Versions, Worker
  PROVE  Versions'
<1>0. Typed /\ live \in [Slices -> Nat] /\ Range(requests) \subseteq Requests
  BY RangeTypes DEF Control, Typed, TypeOK
<1>1. \A r \in Range(requests) : /\ r.slice \in Slices /\ live[r.slice] \in Nat
                                  /\ live[r.slice] + 1 \in Nat
  BY <1>0 DEF Requests
<1>2. CASE WorkerSubscribe
  <2>1. PICK r \in Range(requests), ok \in BOOLEAN :
          r.op = "subscribe" /\ working' = <<Response(r, ok, 0)>>
    BY <1>2 DEF WorkerSubscribe, Take
  <2>2. UNCHANGED <<live, wire>> /\ ClientKept
    BY <1>2 DEF WorkerSubscribe, ClientKept
  <2>3. PICK a \in Responses :
           /\ Range(working') = {a} /\ a.version = 0 /\ a.slice \in Slices
           /\ a.batch = batch /\ a.slice \in waiting => BatchOp = "subscribe"
    BY <2>1, Held
  <2>4. 0 <= live[a.slice]
    BY <1>0, <2>3
  <2> QED
    BY <2>2, <2>3, <2>4, VersionsTaken
<1>3. CASE WorkerGet
  <2>1. PICK r \in Range(requests), ok \in BOOLEAN :
          r.op = "get" /\ working' = <<Response(r, ok, live[r.slice])>>
    BY <1>3 DEF WorkerGet, Take
  <2>2. UNCHANGED <<live, wire>> /\ ClientKept
    BY <1>3 DEF WorkerGet, ClientKept
  <2>3. Recent(live[r.slice], r.slice)
    BY <1>1, <2>1 DEF Versions, Past
  <2>4. PICK a \in Responses :
           Range(working') = {a} /\ a.version = live[r.slice] /\ a.slice = r.slice
    BY <1>1, <2>1, Held
  <2>5. a.version <= live[a.slice] /\ Recent(a.version, a.slice)
    BY <1>1, <2>1, <2>3, <2>4
  <2> QED
    BY <2>2, <2>4, <2>5, VersionsTaken
<1>4. CASE WorkerMutate
  <2>1. PICK r \in Range(requests) :
          /\ r.op = "mutate"
          /\ \/ Change(r.slice) /\ working' = <<Response(r, TRUE, live[r.slice] + 1)>>
             \/ working' = <<Response(r, TRUE, live[r.slice])>> /\ UNCHANGED <<live, wire>>
             \/ working' = <<Response(r, FALSE, 0)>> /\ UNCHANGED <<live, wire>>
    BY <1>4 DEF WorkerMutate, Take
  <2>2. ClientKept
    BY <1>4 DEF WorkerMutate, ClientKept
  <2>3. CASE Change(r.slice) /\ working' = <<Response(r, TRUE, live[r.slice] + 1)>>
    <3>1. live'[r.slice] = live[r.slice] + 1
      BY <1>0, <1>1, <2>3 DEF Change
    <3>0. PICK ok \in BOOLEAN : working' = <<Response(r, ok, live[r.slice] + 1)>>
      BY <2>3
    <3>2. PICK a \in Responses :
            /\ Range(working') = {a} /\ a.version = live[r.slice] + 1 /\ a.slice = r.slice
            /\ a.batch = batch /\ a.slice \in waiting => BatchOp = "mutate"
      BY <1>1, <2>1, <3>0, Held
    <3>3. /\ a.version <= live'[a.slice] /\ r.slice \in Slices
          /\ ~(BatchOp = "get" /\ a.batch = batch /\ a.slice \in waiting)
      BY <1>1, <3>1, <3>2
    <3> QED
      BY <2>2, <2>3, <3>2, <3>3, VersionsChange
  <2>4. CASE UNCHANGED <<live, wire>> /\ \E ok \in BOOLEAN, v \in {0, live[r.slice]} :
                                            working' = <<Response(r, ok, v)>>
    <3>1. PICK ok \in BOOLEAN, v \in {0, live[r.slice]} : working' = <<Response(r, ok, v)>>
      BY <2>4
    <3>2. v \in Nat /\ v <= live[r.slice]
      BY <1>1, <3>1
    <3>3. PICK a \in Responses :
            /\ Range(working') = {a} /\ a.version = v /\ a.slice = r.slice
            /\ a.batch = batch /\ a.slice \in waiting => BatchOp = "mutate"
      BY <2>1, <3>1, <3>2, Held
    <3> QED
      BY <2>2, <2>4, <3>2, <3>3, VersionsTaken
  <2> QED
    BY <2>1, <2>3, <2>4
<1>5. CASE WorkerSend
  <2>1. PICK r \in Responses :
           /\ Range(working) = {r} /\ Range(working') = {}
           /\ Range(wire') = Range(wire) \cup {r}
           /\ \A a, b : Follows(wire', a, b) => Follows(wire, a, b) \/ b = r
    BY <1>0, <1>5, Sent
  <2>2. r.type = "response"
    BY DEF Responses
  <2>3. UNCHANGED live /\ ClientKept
    BY <1>5 DEF WorkerSend, ClientKept
  <2>4. \A v, t : Recent(v, t) => Recent(v, t)'
    BY <2>3, RecentKept DEF ClientKept, client, history
  <2>5. BatchOp' = BatchOp /\ UNCHANGED <<batch, waiting, phase, tool, fetched, mirror, opened, acked>>
    BY <2>3 DEF ClientKept, client, history, BatchOp
  <2>6. Answers' = Answers
    BY <2>1, <2>2 DEF Answers
  <2>7. Past'
    <3>1. \A t \in Slices : Recent(live[t], t)'
      BY <2>3, <2>4 DEF Versions, Past
    <3>2. \A m \in Range(wire') \cup Range(working') : m \in Range(wire) \cup Range(working)
      BY <2>1
    <3>3. \A a, b : Follows(wire', a, b) /\ b.type = "event" => Follows(wire, a, b)
      BY <2>1, <2>2
    <3> QED
      BY <2>3, <3>1, <3>2, <3>3 DEF Versions, Past
  <2>8. \A m \in Range(wire') : m.type = "event" => m \in Range(wire)
    BY <2>1, <2>2
  <2>9. \A m \in Range(wire') : m.type = "event" => Recent(m.version, m.slice)'
    BY <2>4, <2>8 DEF Versions, Fresh
  <2>10. \A x \in Answers' : BatchOp = "get" /\ Awaited(x) => Recent(x.version, x.slice)'
    BY <2>4, <2>6 DEF Versions, Fresh
  <2>11. Fresh'
    BY <2>4, <2>5, <2>9, <2>10 DEF Versions, Fresh, FetchedRecent, MirrorRecent, Awaited, Syncing
  <2> QED
    BY <2>7, <2>11 DEF Versions
<1> QED
  BY <1>2, <1>3, <1>4, <1>5 DEF Worker
-----------------------------------------------------------------------------
(* The versions: the client.                                              *)
LEMMA VersionsQuiet ==
  ASSUME Control, Versions, UNCHANGED live,
         Range(wire') \subseteq Range(wire), Range(working') \subseteq Range(working),
         \A a, b : Follows(wire', a, b) => Follows(wire, a, b),
         \A v, s : Recent(v, s) => Recent(v, s)',
         \/ batch' = batch + 1
         \/ batch' = batch /\ waiting' \subseteq waiting /\ (BatchOp' = BatchOp \/ waiting' = {}),
         FetchedRecent', MirrorRecent'
  PROVE  Versions'
<1>1. Past'
  BY DEF Versions, Past
<1>2. Answers' \subseteq Answers
  BY DEF Answers
<1>3. ASSUME NEW r \in Answers', Awaited(r)', BatchOp' = "get" PROVE Recent(r.version, r.slice)'
  <2>1. r \in Answers /\ r.batch \in Nat /\ r.batch <= batch /\ batch \in Nat
    BY <1>2, RangeTypes DEF Control, Typed, TypeOK, Numbered, Responses
  <2>2. batch' = batch /\ waiting' \subseteq waiting /\ BatchOp' = BatchOp
    BY <1>3, <2>1 DEF Awaited
  <2> QED
    BY <1>3, <2>1, <2>2 DEF Versions, Fresh, Awaited
<1>4. Fresh'
  <2>1. \A m \in Range(wire') : m.type = "event" => Recent(m.version, m.slice)'
    BY DEF Versions, Fresh
  <2> QED
    BY <1>3, <2>1 DEF Fresh
<1> QED
  BY <1>1, <1>4 DEF Versions

LEMMA VersionsDropped ==
  ASSUME Control, Versions, DropConnection, UNCHANGED <<live, batch, opened, acked>>,
         tool.kind = "none" \/ tool' = NoTool, tool.kind = "none" => tool' = tool
  PROVE  Versions'
<1>1. Range(wire') = {} /\ Range(working') = {} /\ \A a, b : ~Follows(wire', a, b)
  BY EmptyRange DEF DropConnection, Follows
<1>2. tool'.step = "done" /\ phase' = "idle" /\ waiting' = {}
  BY DEF Control, Typed, TypeOK, DropConnection, NoTool
<1>3. FetchedRecent' /\ MirrorRecent'
  BY <1>2 DEF FetchedRecent, MirrorRecent, Syncing
<1>4. \A v, s : Recent(v, s) => Recent(v, s)'
  BY <1>2, RecentKept
<1> QED
  BY <1>1, <1>2, <1>3, <1>4, VersionsQuiet

LEMMA VersionsEnvironment ==
  ASSUME Control, Versions, Environment
  PROVE  Versions'
<1>0. Typed /\ TypeOK /\ Following
  BY DEF Control, Typed
<1>1. CASE \E s \in Slices : UserEdit(s) \/ LateApply(s)
  <2>1. PICK s \in Slices : Change(s) /\ ClientKept /\ UNCHANGED working
    BY <1>1 DEF UserEdit, LateApply, ClientKept
  <2> QED
    BY <2>1, VersionsChange
<1>2. ASSUME NEW k \in Kinds, NEW s \in Target(k), Call(k, s) PROVE Versions'
  <2>1. /\ UNCHANGED <<live, wire, working, opened, acked, batch, waiting, fetched, mirror>>
        /\ tool'.step \in {"connect", "begin"}
    BY <1>2 DEF Call, server, history
  <2>2. waiting = {}
    BY <1>0, <1>2 DEF Call, Following, TypeOK
  <2>3. \A v, t : Recent(v, t) => Recent(v, t)'
    BY <2>1, RecentKept
  <2>4. phase' = phase \/ phase' = "connecting"
    BY <1>2 DEF Call
  <2>5. FetchedRecent' /\ MirrorRecent'
    <3>1. phase # "snapshot"
      BY <1>0, <1>2 DEF Call, Following, TypeOK
    <3> QED
      BY <2>1, <2>4, <3>1 DEF FetchedRecent, MirrorRecent, Syncing, Versions, Fresh
  <2> QED
    BY <2>1, <2>2, <2>3, <2>5, VersionsQuiet
<1>3. CASE LinkLost
  <2>1. /\ DropConnection /\ UNCHANGED <<live, batch, opened, acked>>
        /\ tool.kind = "none" => tool' = tool
        /\ tool.kind # "none" => tool' = NoTool
    BY <1>3 DEF LinkLost, history, Finish
  <2> QED
    BY <2>1, VersionsDropped
<1> QED
  BY <1>1, <1>2, <1>3 DEF Environment

LEMMA VersionsConnect ==
  ASSUME Control, Versions, Connect
  PROVE  Versions'
<1>0. Typed /\ TypeOK /\ Following /\ live \in [Slices -> Nat]
  BY DEF Control, Typed, TypeOK
<1>1. phase = "connecting" /\ wire = <<>> /\ working = <<>> /\ tool.step = "connect" /\ waiting = {}
  BY <1>0 DEF Connect, ConnectOk, ConnectFails, Following, Connected
<1>2. UNCHANGED <<live, wire, working>>
  BY DEF Connect, ConnectOk, ConnectFails, server
<1>3. Range(wire) = {} /\ Range(working) = {} /\ \A a, b : ~Follows(wire, a, b)
  BY <1>1, EmptyRange DEF Follows
<1>4. CASE ConnectOk
  <2>1. tool' = tool /\ acked' = acked /\ opened' = live /\ phase' = "subscribing"
    BY <1>4 DEF ConnectOk
  <2>2. \A s \in Slices : Recent(live[s], s)'
    <3>1. \A s \in Slices : Recent(live[s], s) /\ live[s] \in Nat
      BY <1>0 DEF Versions, Past
    <3> QED
      BY <1>1, <1>2, <2>1, <3>1 DEF Recent
  <2>3. FetchedRecent' /\ MirrorRecent'
    BY <1>1, <2>1 DEF FetchedRecent, MirrorRecent, Syncing
  <2>4. Answers' = {}
    BY <1>2, <1>3 DEF Answers
  <2>5. Past'
    BY <1>2, <1>3, <2>2 DEF Past
  <2>6. Fresh'
    BY <1>2, <1>3, <2>3, <2>4 DEF Fresh
  <2> QED
    BY <2>5, <2>6 DEF Versions
<1>5. CASE ConnectFails
  <2>1. /\ tool' = NoTool /\ UNCHANGED <<opened, acked, batch, waiting>> /\ phase' = "idle"
    BY <1>5 DEF ConnectFails, Finish, history
  <2>2. \A v, s : Recent(v, s) => Recent(v, s)'
    BY <2>1, RecentKept DEF NoTool
  <2>3. FetchedRecent' /\ MirrorRecent'
    BY <2>1 DEF FetchedRecent, MirrorRecent, Syncing, NoTool
  <2> QED
    BY <1>1, <1>2, <2>1, <2>2, <2>3, VersionsQuiet
<1> QED
  BY <1>4, <1>5 DEF Connect

LEMMA VersionsBegin ==
  ASSUME Control, Versions, Begin
  PROVE  Versions'
<1>0. Typed /\ TypeOK /\ Following /\ tool.step = "begin" /\ phase # "snapshot" /\ waiting = {}
  BY DEF Control, Typed, Begin, BeginRead, BeginWrite, BeginRefresh, BeginContext, Following
<1>1. UNCHANGED <<live, wire, working, opened, acked, mirror, phase>>
  BY DEF Begin, BeginRead, BeginWrite, BeginRefresh, BeginContext, server, history
<1>2. tool'.step # "sync" \/ (tool'.kind = "refresh" /\ waiting' = Slices)
  <2>1. tool \in [kind : Kinds \cup {"none"}, step : Steps, slice : Slices \cup {NotRead},
                 before : Nat, wrote : Nat]
    BY <1>0 DEF Typed
  <2>2. CASE BeginRead
    BY <2>2 DEF BeginRead, NoTool
  <2>3. CASE BeginWrite
    BY <2>1, <2>3 DEF BeginWrite
  <2>4. CASE BeginRefresh
    BY <2>1, <2>4 DEF BeginRefresh, SendAll
  <2>5. CASE BeginContext
    BY <2>1, <2>5 DEF BeginContext
  <2> QED
    BY <2>2, <2>3, <2>4, <2>5 DEF Begin
<1>3. \A v, s : Recent(v, s) => Recent(v, s)'
  BY <1>1, <1>2 DEF Recent
<1>4. \/ batch' = batch + 1
      \/ batch' = batch /\ waiting' = {}
  BY <1>0 DEF Begin, BeginRead, BeginWrite, BeginRefresh, BeginContext, SendAll, SendOne
<1>5. MirrorRecent'
  BY <1>1 DEF MirrorRecent, Versions, Fresh
<1>6. FetchedRecent'
  BY <1>0, <1>1, <1>2 DEF FetchedRecent, Syncing
<1> QED
  BY <1>0, <1>1, <1>3, <1>4, <1>5, <1>6, VersionsQuiet

\* An answer somebody waits for, in a batch of reads, is recent.
LEMMA PendingIsRecent ==
  ASSUME Control, Versions, NEW m, Deliver(m) \/ Chunk(m), UNCHANGED server, Pending(m), m.ok,
         BatchOp = "get"
  PROVE  Recent(m.version, m.slice) /\ m.version \in Nat /\ m.slice \in Slices
<1>1. m \in Answers
  BY Received DEF Pending
<1> QED
  BY <1>1, Received DEF Versions, Fresh, Awaited, Pending

LEMMA VersionsRead ==
  ASSUME Control, Versions, DeliverRead
  PROVE  Versions'
<1>0. Typed /\ TypeOK /\ Following
  BY DEF Control, Typed
<1>1. PICK m \in Range(wire) :
        /\ Deliver(m) /\ Pending(m) /\ m.ok /\ Syncing /\ waiting' = waiting \ {m.slice}
        /\ fetched' = [fetched EXCEPT ![m.slice] = m.version]
  BY DEF DeliverRead
<1>2. UNCHANGED <<server, opened, batch, live, working, mirror, phase, tool, acked>>
  BY DEF DeliverRead, server, history
<1>3. /\ Range(wire') \subseteq Range(wire) /\ m.slice \in waiting
      /\ \A a, b : Follows(wire', a, b) => Follows(wire, a, b)
  BY <1>0, <1>1, Delivered DEF Pending
<1>4. BatchOp = "get"
  BY <1>0, <1>1 DEF Syncing, BatchOp, Following
<1>5. Recent(m.version, m.slice) /\ m.version \in Nat /\ m.slice \in Slices
  BY <1>1, <1>2, <1>4, PendingIsRecent
<1>6. \A s \in Slices \ waiting' : fetched'[s] \in Nat /\ Recent(fetched'[s], s)
  <2>1. fetched \in [Slices -> Nat \cup {NotRead}]
    BY <1>0 DEF TypeOK
  <2>2. ASSUME NEW s \in Slices \ waiting', s # m.slice
        PROVE  fetched'[s] = fetched[s] /\ fetched[s] \in Nat /\ Recent(fetched[s], s)
    BY <1>1, <2>1, <2>2 DEF Versions, Fresh, FetchedRecent
  <2>3. fetched'[m.slice] = m.version
    BY <1>1, <1>5, <2>1
  <2> QED
    BY <1>5, <2>2, <2>3
<1>7. \A v, s : Recent(v, s) => Recent(v, s)'
  BY <1>2 DEF Recent
<1>8. FetchedRecent'
  BY <1>6, <1>7 DEF FetchedRecent
<1>9. MirrorRecent'
  BY <1>2 DEF MirrorRecent, Versions, Fresh
<1> QED
  BY <1>1, <1>2, <1>3, <1>7, <1>8, <1>9, VersionsQuiet DEF BatchOp

LEMMA VersionsLastRead ==
  ASSUME Control, Versions, DeliverLastRead
  PROVE  Versions'
<1>0. Typed /\ TypeOK /\ Following
  BY DEF Control, Typed
<1>1. PICK m \in Range(wire), n \in DOMAIN wire :
        LET read == [fetched EXCEPT ![m.slice] = m.version]
            events == {i \in 2..n : wire[i].type = "event"}
        IN
        /\ DeliverChunk(m, n) /\ Pending(m) /\ m.ok /\ Syncing /\ waiting = {m.slice}
        /\ waiting' = {} /\ fetched' = read
        /\ ApplySnapshot(read, version + Cardinality(events))
        /\ overlap' = overlap \cup {wire[i].slice : i \in events}
        /\ raced' = overlap' /\ phase' = "active"
        /\ IF phase = "snapshot"
           THEN tool' = [tool EXCEPT !.step = "begin"] /\ UNCHANGED <<result, acked>>
           ELSE /\ Finish(TRUE, version')
                /\ acked' = IF tool.kind = "write"
                            THEN [acked EXCEPT ![tool.slice] = tool.wrote] ELSE acked
  BY Zenon DEF DeliverLastRead
<1>2. UNCHANGED <<server, opened, batch, live, working>>
  BY DEF DeliverLastRead, server
<1>3. /\ Range(wire') \subseteq Range(wire) /\ Chunk(m)
      /\ \A a, b : Follows(wire', a, b) => Follows(wire, a, b)
  BY <1>0, <1>1, Handed DEF Chunk
<1>4. BatchOp = "get"
  BY <1>0, <1>1 DEF Syncing, BatchOp, Following
<1>5. Recent(m.version, m.slice) /\ m.version \in Nat /\ m.slice \in Slices
  BY <1>1, <1>2, <1>3, <1>4, PendingIsRecent
<1>6. \A s \in Slices : fetched'[s] \in Nat /\ Recent(fetched'[s], s)
  <2>1. fetched \in [Slices -> Nat \cup {NotRead}]
    BY <1>0 DEF TypeOK
  <2>2. ASSUME NEW s \in Slices, s # m.slice
        PROVE  fetched'[s] = fetched[s] /\ fetched[s] \in Nat /\ Recent(fetched[s], s)
    BY <1>1, <2>1, <2>2 DEF Versions, Fresh, FetchedRecent
  <2>3. fetched'[m.slice] = m.version
    BY <1>1, <1>5, <2>1
  <2> QED
    BY <1>5, <2>2, <2>3
<1>7. /\ mirror' = fetched' /\ phase' = "active" /\ waiting' = {}
  BY <1>1 DEF ApplySnapshot
<1>8. tool'.step \in {"begin", "done"}
  BY <1>0, <1>1 DEF Finish, NoTool, Typed
<1>9. \A v, s : Recent(v, s) => v >= acked'[s] /\ v >= opened'[s]
  <2>1. CASE acked' = acked
    BY <1>2, <2>1 DEF Recent
  <2>2. CASE tool.kind = "write" /\ tool.step = "sync"
             /\ acked' = [acked EXCEPT ![tool.slice] = tool.wrote]
    <3>1. acked \in [Slices -> Nat] /\ tool.slice \in Slices
      BY <1>0, <2>2 DEF Typed, Following
    <3>2. \A s : acked'[s] = IF s = tool.slice THEN tool.wrote ELSE acked[s]
      BY <2>2, <3>1
    <3> QED
      BY <1>2, <2>2, <3>2 DEF Recent
  <2>3. acked' = acked \/ (tool.kind = "write" /\ tool.step = "sync"
             /\ acked' = [acked EXCEPT ![tool.slice] = tool.wrote])
    BY <1>1 DEF Syncing
  <2> QED
    BY <2>1, <2>2, <2>3
<1>10. \A v, s : Recent(v, s) => Recent(v, s)'
  BY <1>8, <1>9 DEF Recent
<1>11. MirrorRecent'
  BY <1>6, <1>7, <1>9 DEF MirrorRecent
<1>12. FetchedRecent'
  BY <1>7, <1>8 DEF FetchedRecent, Syncing
<1> QED
  BY <1>2, <1>3, <1>7, <1>10, <1>11, <1>12, VersionsQuiet

\* From the acknowledgement on, what is read must show the write.
LEMMA VersionsMutated ==
  ASSUME Control, Versions, DeliverMutated
  PROVE  Versions'
<1>0. Typed /\ TypeOK /\ Following /\ live \in [Slices -> Nat]
  BY DEF Control, Typed, TypeOK
<1>1. PICK m \in Range(wire) :
        /\ Deliver(m) /\ Pending(m) /\ tool.step = "mutate" /\ SendAll("get")
        /\ tool' = [tool EXCEPT !.step = "sync", !.wrote = m.version]
  BY DEF DeliverMutated
<1>2. /\ UNCHANGED <<server, live, working, phase, mirror, opened, acked>>
      /\ batch' = batch + 1 /\ waiting' = Slices
  BY <1>1 DEF DeliverMutated, server, SendAll
<1>3. /\ Range(wire') \subseteq Range(wire) /\ m.slice \in waiting /\ m \in Range(wire)
      /\ \A a, b : Follows(wire', a, b) => Follows(wire, a, b)
      /\ \A b \in Range(wire') : Follows(wire, m, b)
  BY <1>0, <1>1, Delivered DEF Pending
<1>4. m.slice = tool.slice /\ m.version \in Nat /\ m.slice \in Slices /\ phase = "active"
  BY <1>0, <1>1, <1>2, <1>3, Received DEF Following, Deliver, Connected
<1>5. /\ tool'.step = "sync" /\ tool'.slice = tool.slice /\ tool'.wrote = m.version
      /\ tool'.kind = tool.kind
  BY <1>0, <1>1 DEF Typed
<1>6. \A v, s : Recent(v, s) /\ (s = m.slice => v >= m.version) => Recent(v, s)'
  BY <1>2, <1>4, <1>5 DEF Recent
<1>7. Past'
  <2>1. m.version <= live[m.slice]
    BY <1>3 DEF Versions, Past
  <2>2. \A s \in Slices : Recent(live[s], s) /\ (s = m.slice => live[s] >= m.version)
    BY <1>0, <1>4, <2>1 DEF Versions, Past
  <2>3. \A s \in Slices : Recent(live[s], s)'
    <3>1. \A s \in Slices : \A v : v = live[s] => Recent(v, s)'
      BY <1>6, <2>2
    <3> QED
      BY <1>2, <3>1
  <2> QED
    BY <1>2, <1>3, <2>3 DEF Versions, Past
<1>8. Fresh'
  <2>1. ASSUME NEW b \in Range(wire'), b.type = "event" PROVE Recent(b.version, b.slice)'
    <3>1. b \in Messages /\ b.version \in Nat
      BY <1>0, <1>3, RangeTypes DEF Messages, Events, Responses
    <3>2. b.slice = m.slice => m.version < b.version
      BY <1>3, <2>1 DEF Versions, Past
    <3>3. Recent(b.version, b.slice)
      BY <1>3, <2>1 DEF Versions, Fresh
    <3> QED
      BY <1>4, <1>6, <3>1, <3>2, <3>3
  <2>2. MirrorRecent'
    BY <1>2 DEF MirrorRecent, Versions, Fresh
  <2>3. FetchedRecent'
    BY <1>2 DEF FetchedRecent
  <2>4. ASSUME NEW r \in Answers' PROVE ~Awaited(r)'
    <3>1. r \in Answers
      BY <1>2, <1>3 DEF Answers
    <3>2. r.batch \in Nat /\ r.batch <= batch /\ batch \in Nat
      BY <1>0, <3>1, RangeTypes DEF Control, TypeOK, Numbered, Responses
    <3> QED
      BY <1>2, <3>2 DEF Awaited
  <2> QED
    BY <2>1, <2>2, <2>3, <2>4 DEF Fresh
<1> QED
  BY <1>7, <1>8 DEF Versions

LEMMA VersionsReceive ==
  ASSUME Control, Versions, Receive
  PROVE  Versions'
<1>0. Typed /\ TypeOK /\ Following
  BY DEF Control, Typed
<1>1. ASSUME NEW m, Deliver(m)
      PROVE  /\ Range(wire') \subseteq Range(wire) /\ m \in Range(wire)
             /\ \A a, b : Follows(wire', a, b) => Follows(wire, a, b)
  BY <1>0, <1>1, Delivered
<1>2. CASE DeliverEvent
  <2>1. PICK m \in Range(wire) :
          Deliver(m) /\ m.type = "event" /\ mirror' = [mirror EXCEPT ![m.slice] = m.version]
    BY <1>2 DEF DeliverEvent
  <2>2. UNCHANGED <<server, live, working, phase, batch, waiting, fetched, tool, opened, acked>>
    BY <1>2 DEF DeliverEvent, server
  <2>3. m.version \in Nat /\ m.slice \in Slices /\ Recent(m.version, m.slice)
    BY <2>1, <2>2, Received DEF Versions, Fresh
  <2>4. \A v, s : Recent(v, s) => Recent(v, s)'
    BY <2>2 DEF Recent
  <2>5. MirrorRecent'
    <3>1. mirror \in [Slices -> Nat \cup {NotRead}]
      BY <1>0 DEF TypeOK
    <3>2. \A s \in Slices : mirror'[s] = IF s = m.slice THEN m.version ELSE mirror[s]
      BY <2>1, <3>1
    <3> QED
      BY <2>2, <2>3, <3>2 DEF MirrorRecent, Versions, Fresh, Recent
  <2>6. FetchedRecent'
    BY <2>2, <2>4 DEF FetchedRecent, Versions, Fresh, Syncing
  <2> QED
    BY <1>1, <2>1, <2>2, <2>4, <2>5, <2>6, VersionsQuiet DEF BatchOp
<1>3. CASE DeliverUnawaited
  <2>1. PICK m \in Range(wire) : Deliver(m)
    BY <1>3 DEF DeliverUnawaited
  <2>2. UNCHANGED <<live, working, phase, batch, waiting, fetched, mirror, tool, opened, acked>>
    BY <1>3 DEF DeliverUnawaited, server, client, history
  <2>3. \A v, s : Recent(v, s) => Recent(v, s)'
    BY <2>2 DEF Recent
  <2>4. MirrorRecent' /\ FetchedRecent'
    BY <2>2, <2>3 DEF MirrorRecent, FetchedRecent, Versions, Fresh, Syncing
  <2> QED
    BY <1>1, <2>1, <2>2, <2>3, <2>4, VersionsQuiet DEF BatchOp
<1>4. CASE DeliverStartError
  <2>1. DropConnection /\ UNCHANGED <<live, batch, opened, acked>> /\ tool' = NoTool
    BY <1>4 DEF DeliverStartError, history, Finish
  <2>2. tool.kind # "none"
    BY <1>0, <1>4 DEF DeliverStartError, TypeOK
  <2> QED
    BY <2>1, <2>2, VersionsDropped
<1>5. CASE DeliverCallError
  <2>1. PICK m \in Range(wire) : Deliver(m) /\ phase = "active" /\ waiting' = {} /\ tool' = NoTool
    BY <1>5 DEF DeliverCallError, Finish
  <2>2. UNCHANGED <<live, working, phase, batch, fetched, mirror, opened, acked>>
    BY <1>5 DEF DeliverCallError, server, history
  <2>3. \A v, s : Recent(v, s) => Recent(v, s)'
    BY <2>1, <2>2, RecentKept DEF NoTool
  <2>4. MirrorRecent' /\ FetchedRecent'
    BY <2>1, <2>2 DEF MirrorRecent, FetchedRecent, Versions, Fresh, Syncing, NoTool
  <2> QED
    BY <1>1, <2>1, <2>2, <2>3, <2>4, VersionsQuiet
<1>6. CASE DeliverSubscribed
  <2>1. PICK m \in Range(wire) :
          /\ Deliver(m) /\ phase = "subscribing"
          /\ IF waiting = {m.slice} THEN phase' = "snapshot" /\ SendAll("get")
             ELSE waiting' = waiting \ {m.slice} /\ UNCHANGED <<phase, batch, fetched>>
    BY <1>6 DEF DeliverSubscribed
  <2>2. UNCHANGED <<live, working, tool, mirror, opened, acked>>
    BY <1>6 DEF DeliverSubscribed, server
  <2>3. \A v, s : Recent(v, s) => Recent(v, s)'
    BY <2>2 DEF Recent
  <2>4. MirrorRecent'
    BY <2>1 DEF MirrorRecent
  <2>5. FetchedRecent'
    <3>1. phase' = "snapshot" => waiting' = Slices
      BY <2>1 DEF SendAll
    <3>2. tool.step = "connect"
      BY <1>0, <2>1 DEF Following
    <3> QED
      BY <2>1, <2>2, <3>1, <3>2 DEF FetchedRecent, Syncing
  <2>6. batch' = batch + 1 \/ (batch' = batch /\ waiting' \subseteq waiting /\ BatchOp' = BatchOp)
    BY <2>1, <2>2 DEF SendAll, BatchOp
  <2> QED
    BY <1>1, <2>1, <2>2, <2>3, <2>4, <2>5, <2>6, VersionsQuiet
<1>7. CASE DeliverContext
  <2>1. PICK m \in Range(wire) :
          /\ Deliver(m) /\ Pending(m) /\ m.ok /\ tool.step = "select" /\ waiting' = {}
          /\ mirror' = [mirror EXCEPT ![m.slice] = m.version] /\ tool' = NoTool
    BY <1>7 DEF DeliverContext, Finish
  <2>2. UNCHANGED <<server, live, working, phase, batch, opened, acked>>
    BY <1>7 DEF DeliverContext, server, history
  <2>3. phase = "active"
    BY <1>0, <2>1 DEF Following, Deliver, Connected
  <2>4. m.version \in Nat /\ m.slice \in Slices /\ Recent(m.version, m.slice)
    BY <2>1, <2>2, <2>3, PendingIsRecent DEF BatchOp
  <2>5. \A v, s : Recent(v, s) => Recent(v, s)'
    BY <2>1, <2>2, RecentKept DEF NoTool
  <2>6. MirrorRecent'
    <3>1. mirror \in [Slices -> Nat \cup {NotRead}]
      BY <1>0 DEF TypeOK
    <3>2. \A s \in Slices : mirror'[s] = IF s = m.slice THEN m.version ELSE mirror[s]
      BY <2>1, <3>1
    <3> QED
      BY <2>2, <2>4, <3>2 DEF MirrorRecent, Versions, Fresh, Recent
  <2>7. FetchedRecent'
    BY <2>1, <2>2, <2>3 DEF FetchedRecent, Syncing, NoTool
  <2> QED
    BY <1>1, <2>1, <2>2, <2>5, <2>6, <2>7, VersionsQuiet
<1> QED
  BY <1>2, <1>3, <1>4, <1>5, <1>6, <1>7, VersionsRead, VersionsLastRead, VersionsMutated DEF Receive

LEMMA VersionsStep ==
  ASSUME Control, Versions, [Next]_vars
  PROVE  Versions'
<1>1. CASE UNCHANGED vars
  <2>1. UNCHANGED <<live, wire, working, batch, waiting, opened, acked, tool, fetched, mirror, phase>>
    BY <1>1 DEF vars, server, client, history
  <2>2. \A v, s : Recent(v, s) => Recent(v, s)'
    BY <2>1 DEF Recent
  <2>3. FetchedRecent' /\ MirrorRecent'
    BY <2>1, <2>2 DEF FetchedRecent, MirrorRecent, Syncing, Versions, Fresh
  <2> QED
    BY <2>1, <2>2, <2>3, VersionsQuiet DEF BatchOp
<1> QED
  BY <1>1, VersionsWorker, VersionsConnect, VersionsBegin, VersionsReceive, VersionsEnvironment
  DEF Next

-----------------------------------------------------------------------------
(* The versions that calls report.                                        *)
LEMMA AdvancingStep ==
  ASSUME Control, Advancing, [Next]_vars
  PROVE  Advancing'
<1>0. Typed /\ TypeOK /\ Following /\ version \in Nat /\ tool.before \in Nat
  BY DEF Control, Typed, TypeOK
<1>1. ASSUME tool' = tool, result' = result, version' \in Nat, version' >= version PROVE Advancing'
  BY <1>0, <1>1 DEF Advancing, RefreshAdvances
<1>2. ASSUME tool' = NoTool,
             \/ result' = result
             \/ \E after : result' = [ok |-> FALSE, kind |-> tool.kind, before |-> tool.before,
                                      after |-> after]
             \/ \E ok, after : /\ result' = [ok |-> ok, kind |-> tool.kind,
                                             before |-> tool.before, after |-> after]
                               /\ \/ tool.kind \in {"read", "context"}
                                  \/ \E k \in Nat : after = version + k + 1 /\ tool.before <= version
      PROVE  Advancing'
  BY <1>0, <1>2 DEF Advancing, RefreshAdvances, NoTool
<1>3. ASSUME result' = result, tool'.step \in {"connect", "begin"} PROVE Advancing'
  BY <1>3 DEF Advancing, RefreshAdvances
<1>4. ASSUME result' = result, tool'.before = version, version' = version PROVE Advancing'
  BY <1>0, <1>4 DEF Advancing, RefreshAdvances
<1>5. CASE Worker
  <2>1. UNCHANGED client
    BY <1>5 DEF Worker, WorkerSubscribe, WorkerGet, WorkerMutate, WorkerSend
  <2> QED
    BY <1>0, <1>1, <2>1 DEF client
<1>6. CASE Connect
  BY <1>0, <1>1, <1>2, <1>6 DEF Connect, ConnectOk, ConnectFails, Finish
<1>7. CASE Begin
  <2>1. CASE BeginRead
    <3>1. tool' = NoTool /\ result'.kind = "read"
      BY <2>1 DEF BeginRead
    <3> QED
      BY <3>1 DEF Advancing, RefreshAdvances, NoTool
  <2>2. CASE BeginWrite \/ BeginRefresh \/ BeginContext
    <3>1. result' = result /\ tool'.before = version /\ version' = version
      BY <1>0, <2>2 DEF BeginWrite, BeginRefresh, BeginContext, Typed
    <3> QED
      BY <1>4, <3>1
  <2> QED
    BY <1>7, <2>1, <2>2 DEF Begin
<1>8. CASE Environment
  <2>1. CASE \E s \in Slices : UserEdit(s) \/ LateApply(s)
    BY <1>0, <1>1, <2>1 DEF UserEdit, LateApply, client
  <2>2. CASE \E k \in Kinds : \E s \in Target(k) : Call(k, s)
    <3>1. result' = result /\ tool'.step \in {"connect", "begin"}
      BY <2>2 DEF Call
    <3> QED
      BY <1>3, <3>1
  <2>3. CASE LinkLost
    <3>1. CASE tool.kind = "none" /\ UNCHANGED <<tool, result>>
      <4>1. tool'.step = "done" /\ result' = result
        BY <1>0, <3>1 DEF TypeOK
      <4> QED
        BY <4>1 DEF Advancing, RefreshAdvances
    <3>2. CASE Finish(FALSE, 0)
      BY <1>2, <3>2 DEF Finish
    <3> QED
      BY <2>3, <3>1, <3>2 DEF LinkLost
  <2> QED
    BY <1>8, <2>1, <2>2, <2>3 DEF Environment
<1>9. CASE Receive
  <2>1. CASE DeliverEvent \/ DeliverUnawaited \/ DeliverSubscribed
    BY <1>0, <1>1, <2>1 DEF DeliverEvent, DeliverUnawaited, DeliverSubscribed, client
  <2>2. CASE DeliverStartError \/ DeliverCallError
    BY <1>2, <2>2 DEF DeliverStartError, DeliverCallError, Finish
  <2>3. CASE DeliverMutated
    <3>1. /\ tool'.step = "sync" /\ tool'.before = tool.before /\ tool.step = "mutate"
          /\ version' = version /\ result' = result
      BY <1>0, <2>3 DEF DeliverMutated, Typed
    <3> QED
      BY <3>1 DEF Advancing, RefreshAdvances
  <2>4. CASE DeliverContext
    <3>1. tool.kind = "context"
      BY <1>0, <2>4 DEF DeliverContext, Following
    <3> QED
      BY <1>2, <2>4, <3>1 DEF DeliverContext, Finish
  <2>5. CASE DeliverRead
    BY <1>0, <1>1, <2>5 DEF DeliverRead
  <2>6. CASE DeliverLastRead
    <3>1. PICK m \in Range(wire), n \in DOMAIN wire :
            /\ DeliverChunk(m, n) /\ Syncing
            /\ version' = version + Cardinality({i \in 2..n : wire[i].type = "event"}) + 1
            /\ IF phase = "snapshot"
               THEN tool' = [tool EXCEPT !.step = "begin"] /\ UNCHANGED result
               ELSE Finish(TRUE, version')
      BY <2>6, Zenon DEF DeliverLastRead, ApplySnapshot
    <3>2. PICK k \in Nat : version' = version + k + 1
      BY <3>1, Behindhand
    <3>3. CASE phase = "snapshot"
      <4>1. tool'.step = "begin" /\ result' = result
        BY <1>0, <3>1, <3>3 DEF Typed
      <4> QED
        BY <1>3, <4>1
    <3>4. CASE phase # "snapshot"
      <4>1. tool.before <= version
        BY <3>1, <3>4 DEF Syncing, Advancing
      <4> QED
        BY <1>2, <3>1, <3>2, <3>4, <4>1 DEF Finish
    <3> QED
      BY <3>3, <3>4
  <2> QED
    BY <1>9, <2>1, <2>2, <2>3, <2>4, <2>5, <2>6 DEF Receive
<1>10. CASE UNCHANGED vars
  BY <1>0, <1>1, <1>10 DEF vars, client
<1> QED
  BY <1>5, <1>6, <1>7, <1>8, <1>9, <1>10 DEF Next
-----------------------------------------------------------------------------
(* The events: who hears them.                                            *)
LEMMA HeardWorker ==
  ASSUME Control, Heard, Worker
  PROVE  Heard'
<1>0. Typed /\ Range(requests) \subseteq Requests
  BY RangeTypes DEF Control
<1>1. UNCHANGED <<phase, waiting, batch, tool, leaked>> /\ BatchOp' = BatchOp
  BY DEF Worker, WorkerSubscribe, WorkerGet, WorkerMutate, WorkerSend, client, BatchOp
<1>2. subs \subseteq subs' /\ subs' \subseteq Slices
  <2>1. CASE WorkerSubscribe
    <3>1. PICK r \in Range(requests) : subs' = subs \cup {r.slice}
      BY <2>1 DEF WorkerSubscribe
    <3> QED
      BY <1>0, <3>1 DEF Requests, Typed, TypeOK
  <2>2. CASE subs' = subs
    BY <1>0, <2>2 DEF Typed, TypeOK
  <2> QED
    BY <2>1, <2>2 DEF Worker, WorkerGet, WorkerMutate, WorkerSend
<1>3. \A s : Hears(s) => Hears(s)'
  BY <1>1, <1>2 DEF Hears, Connected
<1>4. \A m \in Range(wire') : m.type = "event" =>
        m \in Range(wire) \/ (m.slice \in Evented /\ Hears(m.slice))
  <2>1. CASE wire' = wire
    BY <2>1
  <2>2. CASE \E s \in Slices : Change(s)
    BY <1>0, <2>2, Changed DEF Event
  <2>3. CASE WorkerSend
    BY <1>0, <2>3, Sent DEF Responses
  <2>4. CASE WorkerMutate
    <3>1. PICK r \in Range(requests) : Change(r.slice) \/ wire' = wire
      BY <2>4 DEF WorkerMutate
    <3> QED
      BY <1>0, <2>1, <2>2, <3>1 DEF Requests
  <2> QED
    BY <2>1, <2>3, <2>4 DEF Worker, WorkerSubscribe, WorkerGet
<1>5. BatchOp = "subscribe" => \A r \in Answers' : Awaited(r)' => r.slice \in subs'
  <2>1. \A r : Awaited(r)' = Awaited(r)
    BY <1>1 DEF Awaited
  <2>2. ASSUME NEW r \in Range(wire'), r.type = "response" PROVE r \in Answers
    <3>1. CASE wire' = wire
      BY <2>2, <3>1 DEF Answers
    <3>2. CASE \E s \in Slices : Change(s)
      BY <1>0, <2>2, <3>2, Changed DEF Event, Answers
    <3>3. CASE WorkerSend
      BY <1>0, <2>2, <3>3, Sent DEF Answers
    <3>4. CASE WorkerMutate
      <4>1. PICK q \in Range(requests) : Change(q.slice) \/ wire' = wire
        BY <3>4 DEF WorkerMutate
      <4> QED
        BY <1>0, <3>1, <3>2, <4>1 DEF Requests
    <3> QED
      BY <3>1, <3>3, <3>4 DEF Worker, WorkerSubscribe, WorkerGet
  <2>3. ASSUME NEW r \in Range(working'), r.batch = batch, r.slice \in waiting,
               BatchOp = "subscribe", r.ok
        PROVE  r \in Answers \/ r.slice \in subs'
    <3>1. CASE WorkerSend
      BY <1>0, <2>3, <3>1, Sent
    <3>2. CASE WorkerSubscribe
      <4>1. PICK q \in Range(requests), ok \in BOOLEAN :
              working' = <<Response(q, ok, 0)>> /\ subs' = subs \cup {q.slice}
        BY <3>2 DEF WorkerSubscribe
      <4>2. \E a \in Responses : Range(working') = {a} /\ a.slice = q.slice
        BY <4>1, Held
      <4> QED
        BY <2>3, <4>1, <4>2
    <3>3. CASE WorkerGet
      <4>1. PICK q \in Range(requests), ok \in BOOLEAN :
              q.op = "get" /\ working' = <<Response(q, ok, live[q.slice])>>
        BY <3>3 DEF WorkerGet, Take
      <4>2. live[q.slice] \in Nat
        BY <1>0 DEF Requests, Typed, TypeOK
      <4>3. \E a \in Responses : /\ Range(working') = {a}
                                 /\ a.batch = batch /\ a.slice \in waiting => q.op = BatchOp
        BY <4>1, <4>2, Held
      <4> QED
        BY <2>3, <4>1, <4>3
    <3>4. CASE WorkerMutate
      <4>0. \A q \in Range(requests) : live[q.slice] \in Nat /\ live[q.slice] + 1 \in Nat
        BY <1>0 DEF Requests, Typed, TypeOK
      <4>1. PICK q \in Range(requests), ok \in BOOLEAN, v \in Nat :
              q.op = "mutate" /\ working' = <<Response(q, ok, v)>>
        BY <3>4, <4>0 DEF WorkerMutate, Take
      <4>3. \E a \in Responses : /\ Range(working') = {a}
                                 /\ a.batch = batch /\ a.slice \in waiting => q.op = BatchOp
        BY <4>1, Held
      <4> QED
        BY <2>3, <4>1, <4>3
    <3> QED
      BY <3>1, <3>2, <3>3, <3>4 DEF Worker
  <2>4. ASSUME NEW r \in Answers', Awaited(r), BatchOp = "subscribe" PROVE r.slice \in subs'
    <3>1. CASE r \in Answers
      BY <1>2, <2>4, <3>1 DEF Heard
    <3> QED
      BY <2>2, <2>3, <2>4, <3>1 DEF Answers, Awaited
  <2> QED
    BY <2>1, <2>4
<1> QED
  <2>1. phase' \in {"snapshot", "active"} => subs' = Slices
    BY <1>1, <1>2 DEF Heard
  <2>2. phase' = "subscribing" => Slices \ waiting' \subseteq subs'
    BY <1>1, <1>2 DEF Heard
  <2>3. \A m \in Range(wire') : m.type = "event" => m.slice \in Evented /\ Hears(m.slice)'
    BY <1>3, <1>4 DEF Heard
  <2> QED
    BY <1>1, <1>5, <2>1, <2>2, <2>3 DEF Heard

LEMMA HeardQuiet ==
  ASSUME Control, Heard, UNCHANGED <<subs, leaked>>, Connected => Connected',
         Range(wire') \subseteq Range(wire), Range(working') \subseteq Range(working),
         phase' \in {"snapshot", "active"} => subs = Slices,
         phase' = "subscribing" => Slices \ waiting' \subseteq subs,
         \/ batch' = batch + 1
         \/ batch' = batch /\ waiting' \subseteq waiting /\ (BatchOp' = BatchOp \/ waiting' = {})
  PROVE  Heard'
<1>1. Answers' \subseteq Answers
  BY DEF Answers
<1>2. ASSUME NEW r \in Answers', Awaited(r)', BatchOp' = "subscribe" PROVE r.slice \in subs'
  <2>1. r \in Answers /\ r.batch \in Nat /\ r.batch <= batch /\ batch \in Nat
    BY <1>1, RangeTypes DEF Control, Typed, TypeOK, Numbered, Responses
  <2>2. batch' = batch /\ waiting' \subseteq waiting /\ BatchOp' = BatchOp
    BY <1>2, <2>1 DEF Awaited
  <2> QED
    BY <1>2, <2>1, <2>2 DEF Heard, Awaited
<1>3. \A m \in Range(wire') : m.type = "event" => m.slice \in Evented /\ Hears(m.slice)'
  BY DEF Heard, Hears
<1> QED
  BY <1>2, <1>3 DEF Heard

LEMMA HeardDropped ==
  ASSUME Control, DropConnection, tool'.step # "mutate"
  PROVE  Heard'
<1>1. Range(wire') = {} /\ Answers' = {} /\ phase' = "idle"
  BY EmptyRange DEF DropConnection, Answers
<1> QED
  BY <1>1 DEF Heard

LEMMA HeardEnvironment ==
  ASSUME Control, Heard, Environment
  PROVE  Heard'
<1>0. Typed /\ TypeOK /\ Following
  BY DEF Control, Typed
<1>1. ASSUME NEW s \in Slices, Change(s), UNCHANGED <<working, subs, client>> PROVE Heard'
  <2>1. UNCHANGED <<phase, waiting, batch, tool, leaked>> /\ BatchOp' = BatchOp
    BY <1>1 DEF client, BatchOp
  <2>2. \A t : Hears(t)' = Hears(t)
    BY <1>1, <2>1 DEF Hears, Connected
  <2>3. /\ Answers' = Answers
        /\ \A m \in Range(wire') : m.type = "event" =>
             m \in Range(wire) \/ (m.slice \in Evented /\ Hears(m.slice))
    BY <1>0, <1>1, Changed DEF Answers, Event
  <2> QED
    BY <1>1, <2>1, <2>2, <2>3 DEF Heard, Awaited
<1>2. CASE \E s \in Slices : UserEdit(s) \/ LateApply(s)
  BY <1>1, <1>2 DEF UserEdit, LateApply
<1>3. CASE \E k \in Kinds : \E s \in Target(k) : Call(k, s)
  <2>1. /\ UNCHANGED <<wire, working, subs, leaked, batch, waiting>> /\ waiting = {}
        /\ phase' = phase \/ (phase = "idle" /\ phase' = "connecting")
    BY <1>0, <1>3 DEF Call, server, Following, TypeOK
  <2>2. phase \notin {"subscribing", "snapshot"}
    BY <1>0, <1>3 DEF Call, Following, TypeOK
  <2> QED
    BY <2>1, <2>2, HeardQuiet DEF Connected, Heard
<1>4. CASE LinkLost
  <2>1. tool'.step # "mutate"
    BY <1>0, <1>4 DEF LinkLost, Finish, NoTool, TypeOK
  <2> QED
    BY <1>4, <2>1, HeardDropped DEF LinkLost
<1> QED
  BY <1>2, <1>3, <1>4 DEF Environment

LEMMA HeardConnect ==
  ASSUME Control, Heard, Connect
  PROVE  Heard'
<1>1. phase = "connecting" /\ wire = <<>> /\ working = <<>>
  BY DEF Control, Connect, ConnectOk, ConnectFails, Following, Connected
<1>2. UNCHANGED <<wire, working>>
  BY DEF Connect, ConnectOk, ConnectFails, server
<1>3. Range(wire') = {} /\ Answers' = {}
  BY <1>1, <1>2, EmptyRange DEF Answers
<1>4. (phase' = "subscribing" /\ waiting' = Slices) \/ phase' = "idle"
  BY DEF Connect, ConnectOk, ConnectFails, SendAll
<1> QED
  BY <1>3, <1>4 DEF Heard

LEMMA HeardBegin ==
  ASSUME Control, Heard, Begin
  PROVE  Heard'
<1>1. Following /\ tool.step = "begin" /\ phase = "active" /\ waiting = {}
  BY DEF Control, Typed, TypeOK, Begin, BeginRead, BeginWrite, BeginRefresh, BeginContext, Following,
         Phases
<1>2. UNCHANGED <<wire, working, subs, leaked, phase>>
  BY DEF Begin, BeginRead, BeginWrite, BeginRefresh, BeginContext, server
<1>3. batch' = batch + 1 \/ (batch' = batch /\ waiting' = {})
  BY <1>1 DEF Begin, BeginRead, BeginWrite, BeginRefresh, BeginContext, SendAll, SendOne
<1> QED
  BY <1>1, <1>2, <1>3, HeardQuiet DEF Heard, Connected

LEMMA HeardReceive ==
  ASSUME Control, Heard, Receive
  PROVE  Heard'
<1>0. Typed /\ TypeOK /\ Following
  BY DEF Control, Typed
<1>1. ASSUME NEW m, Deliver(m) PROVE Range(wire') \subseteq Range(wire) /\ m \in Range(wire)
  BY <1>0, <1>1, Delivered
<1>2. CASE DeliverEvent \/ DeliverUnawaited
  <2>1. UNCHANGED <<working, subs, leaked, phase, batch, waiting, tool>>
    BY <1>2 DEF DeliverEvent, DeliverUnawaited, server, client
  <2>2. Range(wire') \subseteq Range(wire)
    BY <1>1, <1>2 DEF DeliverEvent, DeliverUnawaited
  <2> QED
    BY <2>1, <2>2, HeardQuiet DEF Heard, Connected, BatchOp
<1>3. CASE DeliverStartError
  BY <1>3, HeardDropped DEF DeliverStartError, Finish, NoTool
<1>4. CASE DeliverCallError \/ DeliverContext
  <2>1. UNCHANGED <<working, subs, leaked, phase, batch>> /\ waiting' = {} /\ phase = "active"
    BY <1>0, <1>4 DEF DeliverCallError, DeliverContext, server, Deliver, Connected, Following
  <2>2. Range(wire') \subseteq Range(wire)
    BY <1>1, <1>4 DEF DeliverCallError, DeliverContext
  <2> QED
    BY <2>1, <2>2, HeardQuiet DEF Heard, Connected
<1>5. CASE DeliverMutated
  <2>1. UNCHANGED <<working, subs, leaked, phase>> /\ batch' = batch + 1 /\ phase = "active"
    BY <1>0, <1>5 DEF DeliverMutated, server, Deliver, Connected, Following, SendAll
  <2>2. Range(wire') \subseteq Range(wire)
    BY <1>1, <1>5 DEF DeliverMutated
  <2> QED
    BY <2>1, <2>2, HeardQuiet DEF Heard, Connected
<1>6. CASE DeliverSubscribed
  <2>1. PICK m \in Range(wire) :
          /\ Deliver(m) /\ Pending(m) /\ m.ok /\ phase = "subscribing"
          /\ IF waiting = {m.slice} THEN phase' = "snapshot" /\ SendAll("get")
             ELSE waiting' = waiting \ {m.slice} /\ UNCHANGED <<phase, batch>>
    BY <1>6 DEF DeliverSubscribed
  <2>2. UNCHANGED <<server, working, subs, leaked, tool>>
    BY <1>6 DEF DeliverSubscribed, server
  <2>3. BatchOp = "subscribe" /\ m \in Answers /\ Awaited(m)
    BY <1>1, <2>1 DEF BatchOp, Answers, Awaited, Pending
  <2>4. m.slice \in subs /\ Slices \ waiting \subseteq subs /\ subs \subseteq Slices
    BY <1>0, <2>1, <2>3 DEF Heard, TypeOK
  <2>5. CASE waiting = {m.slice}
    <3>1. subs = Slices /\ phase' = "snapshot" /\ batch' = batch + 1
      BY <2>1, <2>4, <2>5 DEF SendAll
    <3> QED
      BY <1>1, <2>1, <2>2, <3>1, HeardQuiet DEF Connected
  <2>6. CASE waiting # {m.slice}
    <3>1. /\ waiting' = waiting \ {m.slice} /\ UNCHANGED <<phase, batch>>
          /\ Slices \ waiting' \subseteq subs
      BY <2>1, <2>4, <2>6
    <3>2. BatchOp' = BatchOp
      BY <2>2, <3>1 DEF BatchOp
    <3> QED
      BY <1>1, <2>1, <2>2, <3>1, <3>2, HeardQuiet DEF Connected
  <2> QED
    BY <2>5, <2>6
<1>7. CASE DeliverRead \/ DeliverLastRead
  <2>1. /\ UNCHANGED <<working, subs, leaked, batch>>
        /\ phase \in {"snapshot", "active"} /\ phase' \in {"snapshot", "active"}
        /\ waiting' \subseteq waiting
        /\ waiting' = {} \/ UNCHANGED <<phase, tool>>
    BY <1>0, <1>7 DEF DeliverRead, DeliverLastRead, server, Deliver, DeliverChunk, Connected,
                      Following, Syncing
  <2>2. Range(wire') \subseteq Range(wire)
    BY <1>0, <1>1, <1>7, Handed DEF DeliverRead, DeliverLastRead
  <2> QED
    BY <2>1, <2>2, HeardQuiet DEF Heard, Connected, BatchOp
<1> QED
  BY <1>2, <1>3, <1>4, <1>5, <1>6, <1>7 DEF Receive

LEMMA HeardStep ==
  ASSUME Control, Heard, [Next]_vars
  PROVE  Heard'
<1>1. CASE UNCHANGED vars
  <2>1. UNCHANGED <<wire, working, subs, leaked, phase, batch, waiting, tool>>
    BY <1>1 DEF vars, server, client
  <2> QED
    BY <2>1, HeardQuiet DEF Heard, Connected, BatchOp
<1> QED
  BY <1>1, HeardWorker, HeardConnect, HeardBegin, HeardReceive, HeardEnvironment DEF Next
-----------------------------------------------------------------------------
(* The events: what is in the mirror, or on its way.                      *)

\* A read that is awaited and has events is part of a snapshot.
LEMMA AwaitedIsSynced ==
  ASSUME Control, BatchOp = "get", NEW r \in Answers, Awaited(r), r.slice \in Evented
  PROVE  Syncing
<1>1. Following /\ phase \in Phases /\ tool.step \in Steps
  BY DEF Control, Typed, TypeOK, Steps
<1>2. waiting # {} /\ r.slice \in waiting
  BY DEF Awaited
<1>3. phase \notin {"idle", "connecting"}
  BY <1>1, <1>2 DEF Following, Connected
<1>4. tool.step # "select"
  <2>1. r.slice \notin Selected
    BY SessionAssumption
  <2> QED
    BY <1>1, <1>2, <2>1 DEF Following
<1> QED
  BY <1>1, <1>2, <1>3, <1>4 DEF Following, BatchOp, Syncing, Phases, Steps

\* Live changes: an event tells of it, or nobody minds.
LEMMA CurrentChange ==
  ASSUME Control, Heard, Current, NEW s \in Slices, Change(s), ClientKept,
         Range(working') \subseteq Range(working)
           \/ \E r \in Responses : /\ Range(working') = {r}
                                   /\ ~(BatchOp = "get" /\ r.batch = batch /\ r.slice \in waiting)
  PROVE  Current'
<1>0. PICK event : event = Event(s, live[s] + 1)
  OBVIOUS
<1>1. /\ live' = [live EXCEPT ![s] = @ + 1] /\ live \in [Slices -> Nat]
      /\ \/ wire' = wire /\ ~(s \in Evented /\ Hears(s))
         \/ s \in Evented /\ Range(wire') = Range(wire) \cup {event}
      /\ event.type = "event" /\ event.slice = s /\ event.version = live[s] + 1
  BY <1>0, Changed DEF Control, Typed, TypeOK, Event
<1>2. /\ \A t \in Slices : t # s => live'[t] = live[t]
      /\ live'[s] = live[s] + 1
  BY <1>1
<1>3. Range(wire) \subseteq Range(wire') /\ \A t : Owed(t) => Owed(t)'
  BY <1>1 DEF Owed
<1>4. UNCHANGED <<phase, tool, batch, waiting, fetched, mirror, overlap, raced>> /\ BatchOp' = BatchOp
  BY DEF ClientKept, client, history, BatchOp
<1>5. ASSUME NEW r \in Answers', Awaited(r)', BatchOp = "get" PROVE r \in Answers /\ Awaited(r)
  <2>1. Awaited(r)
    BY <1>4, <1>5 DEF Awaited
  <2>2. ASSUME r \in Range(wire'), r.type = "response" PROVE r \in Range(wire)
    BY <1>1, <2>2
  <2>3. ASSUME r \in Range(working') PROVE r \in Range(working)
    BY <1>5, <2>1, <2>3 DEF Awaited
  <2> QED
    BY <2>1, <2>2, <2>3 DEF Answers
<1>6. Control /\ Evented \subseteq Slices
  BY SessionAssumption
<1>7. CASE s \in Evented /\ Range(wire') = Range(wire) \cup {event}
  <2>1. Owed(s)' /\ event \in Range(wire') /\ event.version = live'[s]
    BY <1>1, <1>2, <1>7 DEF Owed
  <2>2. ASSUME NEW t \in Slices, t # s, Owed(t)' PROVE Owed(t)
    BY <1>1, <1>7, <2>2 DEF Owed
  <2>3. Witnessed'
    <3>1. ASSUME NEW t \in Slices, Owed(t)'
          PROVE  \E m \in Range(wire') : m.type = "event" /\ m.slice = t /\ m.version = live'[t]
      <4>1. CASE t = s
        BY <1>1, <2>1, <4>1
      <4>2. CASE t # s
        BY <1>2, <1>3, <2>2, <3>1, <4>2 DEF Current, Witnessed
      <4> QED
        BY <4>1, <4>2
    <3> QED
      BY <3>1 DEF Witnessed
  <2>4. AnswersCurrent'
    <3>1. ASSUME NEW r \in Answers', Awaited(r)', BatchOp = "get", r.slice \in Evented
          PROVE  r.version = live'[r.slice] \/ r.slice \in overlap \/ Owed(r.slice)'
      <4>1. r.version = live[r.slice] \/ r.slice \in overlap \/ Owed(r.slice)
        BY <1>5, <3>1 DEF Current, AnswersCurrent
      <4>2. r.slice \in Slices
        BY <1>6, <3>1
      <4> QED
        BY <1>2, <1>3, <2>1, <4>1, <4>2
    <3> QED
      BY <1>4, <3>1 DEF AnswersCurrent
  <2>5. FetchedCurrent'
    <3>1. ASSUME NEW t \in Evented \ waiting, Syncing
          PROVE  fetched[t] = live'[t] \/ t \in overlap \/ Owed(t)'
      BY <1>2, <1>3, <1>6, <2>1, <3>1 DEF Current, FetchedCurrent
    <3> QED
      BY <1>4, <3>1 DEF FetchedCurrent, Syncing
  <2>6. MirrorCurrent'
    <3>1. ASSUME NEW t \in Evented, phase = "active"
          PROVE  mirror[t] = live'[t] \/ t \in raced \/ Owed(t)'
      BY <1>2, <1>3, <1>6, <2>1, <3>1 DEF Current, MirrorCurrent
    <3> QED
      BY <1>4, <3>1 DEF MirrorCurrent
  <2> QED
    BY <2>3, <2>4, <2>5, <2>6 DEF Current
<1>8. CASE wire' = wire /\ ~(s \in Evented /\ Hears(s))
  <2>1. ~Owed(s) /\ \A t : Owed(t)' = Owed(t)
    BY <1>8 DEF Owed, Heard
  <2>2. Witnessed'
    BY <1>2, <1>8, <2>1 DEF Current, Witnessed
  <2>3. CASE s \notin Evented
    <3>1. \A t \in Evented : live'[t] = live[t]
      BY <1>2, <1>6, <2>3
    <3>2. AnswersCurrent'
      BY <1>4, <1>5, <2>1, <3>1 DEF Current, AnswersCurrent
    <3>3. FetchedCurrent' /\ MirrorCurrent'
      BY <1>4, <2>1, <3>1 DEF Current, FetchedCurrent, MirrorCurrent, Syncing
    <3> QED
      BY <2>2, <3>2, <3>3 DEF Current
  <2>4. CASE ~Hears(s)
    <3>1. phase \notin {"snapshot", "active"}
      BY <2>4 DEF Heard, Hears, Connected
    <3>2. ~Syncing
      BY <3>1 DEF Syncing, Control, Typed, TypeOK, Following, Phases
    <3>3. AnswersCurrent'
      BY <1>4, <1>5, <3>2, AwaitedIsSynced DEF AnswersCurrent
    <3>4. FetchedCurrent' /\ MirrorCurrent'
      BY <1>4, <3>1, <3>2 DEF FetchedCurrent, MirrorCurrent, Syncing
    <3> QED
      BY <2>2, <3>3, <3>4 DEF Current
  <2> QED
    BY <1>8, <2>3, <2>4
<1> QED
  BY <1>1, <1>7, <1>8

\* Live stays as it is, and no event is sent.
LEMMA CurrentTaken ==
  ASSUME Control, Current, UNCHANGED live, ClientKept,
         \A m : m.type = "event" => (m \in Range(wire') <=> m \in Range(wire)),
         \A r \in Answers' : r \in Answers
           \/ (BatchOp = "get" /\ r.batch = batch /\ r.slice \in waiting => r.version = live[r.slice])
  PROVE  Current'
<1>1. UNCHANGED <<phase, tool, batch, waiting, fetched, mirror, overlap, raced>> /\ BatchOp' = BatchOp
  BY DEF ClientKept, client, history, BatchOp
<1>2. \A t : Owed(t)' = Owed(t)
  BY DEF Owed
<1>3. Witnessed'
  BY <1>2 DEF Current, Witnessed
<1>4. AnswersCurrent'
  BY <1>1, <1>2 DEF Current, AnswersCurrent, Awaited
<1>5. FetchedCurrent' /\ MirrorCurrent'
  BY <1>1, <1>2 DEF Current, FetchedCurrent, MirrorCurrent, Syncing
<1> QED
  BY <1>3, <1>4, <1>5 DEF Current

LEMMA CurrentWorker ==
  ASSUME Control, Heard, Current, Worker
  PROVE  Current'
<1>0. Typed /\ live \in [Slices -> Nat]
      /\ \A q \in Range(requests) : /\ q.slice \in Slices /\ live[q.slice] \in Nat
                                    /\ live[q.slice] + 1 \in Nat
  <2>1. Typed /\ live \in [Slices -> Nat] /\ Range(requests) \subseteq Requests
    BY RangeTypes DEF Control, Typed, TypeOK
  <2> QED
    BY <2>1 DEF Requests
<1>1. ClientKept
  BY DEF Worker, WorkerSubscribe, WorkerGet, WorkerMutate, WorkerSend, ClientKept
<1>2. CASE WorkerSubscribe
  <2>1. PICK q \in Range(requests), ok \in BOOLEAN :
          q.op = "subscribe" /\ working' = <<Response(q, ok, 0)>>
    BY <1>2 DEF WorkerSubscribe, Take
  <2>2. PICK a \in Responses : /\ Range(working') = {a}
                               /\ a.batch = batch /\ a.slice \in waiting => q.op = BatchOp
    BY <2>1, Held
  <2> QED
    BY <1>1, <1>2, <2>1, <2>2, CurrentTaken DEF WorkerSubscribe, Answers
<1>3. CASE WorkerGet
  <2>1. PICK q \in Range(requests), ok \in BOOLEAN : working' = <<Response(q, ok, live[q.slice])>>
    BY <1>3 DEF WorkerGet
  <2>2. PICK a \in Responses : /\ Range(working') = {a} /\ a.version = live[q.slice]
                               /\ a.slice = q.slice
    BY <1>0, <2>1, Held
  <2> QED
    BY <1>1, <1>3, <2>1, <2>2, CurrentTaken DEF WorkerGet, Answers
<1>4. CASE WorkerMutate
  <2>1. PICK q \in Range(requests), ok \in BOOLEAN, v \in Nat :
          /\ q.op = "mutate" /\ working' = <<Response(q, ok, v)>>
          /\ Change(q.slice) \/ UNCHANGED <<live, wire>>
    BY <1>0, <1>4 DEF WorkerMutate, Take
  <2>2. PICK a \in Responses : /\ Range(working') = {a}
                               /\ a.batch = batch /\ a.slice \in waiting => q.op = BatchOp
    BY <2>1, Held
  <2>3. ~(BatchOp = "get" /\ a.batch = batch /\ a.slice \in waiting)
    BY <2>1, <2>2
  <2>4. CASE Change(q.slice)
    BY <1>0, <1>1, <2>2, <2>3, <2>4, CurrentChange
  <2>5. CASE UNCHANGED <<live, wire>>
    BY <1>1, <2>2, <2>3, <2>5, CurrentTaken DEF Answers
  <2> QED
    BY <2>1, <2>4, <2>5
<1>5. CASE WorkerSend
  <2>1. PICK r \in Responses : /\ Range(working) = {r} /\ Range(working') = {}
                               /\ Range(wire') = Range(wire) \cup {r}
    BY <1>0, <1>5, Sent
  <2>2. r.type = "response"
    BY DEF Responses
  <2>3. UNCHANGED live
    BY <1>5 DEF WorkerSend
  <2> QED
    BY <1>1, <2>1, <2>2, <2>3, CurrentTaken DEF Answers
<1> QED
  BY <1>2, <1>3, <1>4, <1>5 DEF Worker

\* The steps of the client in which no event is taken off the wire.
LEMMA CurrentQuiet ==
  ASSUME Control, Current, UNCHANGED live,
         \A m : m.type = "event" => (m \in Range(wire') <=> m \in Range(wire)),
         Answers' \subseteq Answers,
         \/ batch' = batch + 1
         \/ waiting' = {}
         \/ UNCHANGED <<batch, overlap>> /\ waiting' \subseteq waiting /\ BatchOp' = BatchOp,
         FetchedCurrent', MirrorCurrent'
  PROVE  Current'
<1>1. \A t : Owed(t)' = Owed(t)
  BY DEF Owed
<1>2. Witnessed'
  BY <1>1 DEF Current, Witnessed
<1>3. ASSUME NEW r \in Answers', Awaited(r)', BatchOp' = "get", r.slice \in Evented
      PROVE  r.version = live[r.slice] \/ r.slice \in overlap' \/ Owed(r.slice)
  <2>1. r \in Answers /\ r.batch \in Nat /\ r.batch <= batch /\ batch \in Nat
    BY RangeTypes DEF Control, Typed, TypeOK, Numbered, Responses
  <2>2. UNCHANGED <<batch, overlap>> /\ waiting' \subseteq waiting /\ BatchOp' = BatchOp
    BY <1>3, <2>1 DEF Awaited
  <2> QED
    BY <1>3, <2>1, <2>2 DEF Current, AnswersCurrent, Awaited
<1>4. AnswersCurrent'
  <2>1. ASSUME NEW r \in Answers', Awaited(r)', BatchOp' = "get", r.slice \in Evented
        PROVE  r.version = live'[r.slice] \/ r.slice \in overlap' \/ Owed(r.slice)'
    BY <1>1, <1>3, <2>1
  <2> QED
    BY <2>1 DEF AnswersCurrent
<1> QED
  BY <1>2, <1>4 DEF Current

LEMMA CurrentDropped ==
  ASSUME DropConnection, tool'.step = "done"
  PROVE  Current'
<1>1. Range(wire') = {} /\ Answers' = {} /\ phase' = "idle"
  BY EmptyRange DEF DropConnection, Answers
<1>2. \A t : ~Owed(t)'
  BY <1>1 DEF Owed
<1> QED
  BY <1>1, <1>2 DEF Current, Witnessed, AnswersCurrent, FetchedCurrent, MirrorCurrent, Syncing

LEMMA CurrentEnvironment ==
  ASSUME Control, Heard, Current, Environment
  PROVE  Current'
<1>0. Typed /\ TypeOK /\ Following
  BY DEF Control, Typed
<1>1. CASE \E s \in Slices : UserEdit(s) \/ LateApply(s)
  <2>1. PICK s \in Slices : Change(s) /\ ClientKept /\ UNCHANGED working
    BY <1>1 DEF UserEdit, LateApply, ClientKept
  <2> QED
    BY <2>1, CurrentChange
<1>2. CASE \E k \in Kinds : \E s \in Target(k) : Call(k, s)
  <2>1. /\ UNCHANGED <<live, wire, working, waiting, fetched, mirror, overlap, raced>>
        /\ waiting = {} /\ tool'.step # "sync"
        /\ phase' = phase \/ phase' = "connecting"
    BY <1>0, <1>2 DEF Call, server, history, Following, TypeOK
  <2>2. phase' # "snapshot" /\ Answers' = Answers
    BY <1>0, <1>2, <2>1 DEF Call, Following, TypeOK, Answers
  <2>3. FetchedCurrent' /\ MirrorCurrent'
    BY <2>1, <2>2 DEF FetchedCurrent, MirrorCurrent, Syncing, Current, Owed
  <2> QED
    BY <2>1, <2>2, <2>3, CurrentQuiet
<1>3. CASE LinkLost
  <2>1. tool'.step = "done"
    BY <1>0, <1>3 DEF LinkLost, Finish, NoTool, TypeOK
  <2> QED
    BY <1>3, <2>1, CurrentDropped DEF LinkLost
<1> QED
  BY <1>1, <1>2, <1>3 DEF Environment

LEMMA CurrentConnect ==
  ASSUME Control, Current, Connect
  PROVE  Current'
<1>1. phase = "connecting" /\ wire = <<>> /\ working = <<>>
  BY DEF Control, Connect, ConnectOk, ConnectFails, Following, Connected
<1>2. UNCHANGED <<wire, working>>
  BY DEF Connect, ConnectOk, ConnectFails, server
<1>3. Range(wire') = {} /\ Answers' = {}
  BY <1>1, <1>2, EmptyRange DEF Answers
<1>4. phase' \in {"subscribing", "idle"} /\ tool'.step # "sync"
  BY <1>1 DEF Connect, ConnectOk, ConnectFails, Finish, NoTool, Control, Following
<1>5. \A t : ~Owed(t)'
  BY <1>3 DEF Owed
<1> QED
  BY <1>3, <1>4, <1>5 DEF Current, Witnessed, AnswersCurrent, FetchedCurrent, MirrorCurrent, Syncing

LEMMA CurrentBegin ==
  ASSUME Control, Current, Begin
  PROVE  Current'
<1>1. Typed /\ Following /\ tool.step = "begin" /\ phase = "active" /\ waiting = {}
  BY DEF Control, Typed, TypeOK, Begin, BeginRead, BeginWrite, BeginRefresh, BeginContext, Following,
         Phases
<1>2. UNCHANGED <<live, wire, working, phase, mirror, raced>>
  BY DEF Begin, BeginRead, BeginWrite, BeginRefresh, BeginContext, server, history
<1>3. batch' = batch + 1 \/ waiting' = {}
  BY <1>1 DEF Begin, BeginRead, BeginWrite, BeginRefresh, BeginContext, SendAll, SendOne
<1>4. tool'.step # "sync" \/ waiting' = Slices
  <2>1. CASE BeginRefresh
    BY <2>1 DEF BeginRefresh, SendAll
  <2>2. CASE BeginRead
    BY <2>2 DEF BeginRead, NoTool
  <2>3. CASE BeginWrite \/ BeginContext
    BY <1>1, <2>3 DEF BeginWrite, BeginContext, Typed
  <2> QED
    BY <2>1, <2>2, <2>3 DEF Begin
<1>5. FetchedCurrent' /\ MirrorCurrent'
  BY <1>1, <1>2, <1>4, SessionAssumption DEF FetchedCurrent, MirrorCurrent, Syncing, Current, Owed
<1> QED
  BY <1>2, <1>3, <1>5, CurrentQuiet DEF Answers

\* A message of another kind leaves the events on the wire as they are.
LEMMA EventsLeft ==
  ASSUME Control, NEW n, Deliver(n), n.type # "event"
  PROVE  /\ \A m : m.type = "event" => (m \in Range(wire') <=> m \in Range(wire))
         /\ \A t : Owed(t)' = Owed(t)
<1>1. Range(wire) = {n} \cup Range(wire')
  BY Delivered DEF Control
<1>2. \A m : m.type = "event" => (m \in Range(wire') <=> m \in Range(wire))
  BY <1>1
<1>3. \A t : Owed(t)' = Owed(t)
  BY <1>2 DEF Owed
<1> QED
  BY <1>2, <1>3

LEMMA CurrentEvent ==
  ASSUME Control, Versions, Heard, Current, DeliverEvent
  PROVE  Current'
<1>0. Typed /\ TypeOK /\ live \in [Slices -> Nat] /\ Evented \subseteq Slices
  BY SessionAssumption DEF Control, Typed, TypeOK
<1>1. PICK m \in Range(wire) :
        /\ Deliver(m) /\ m.type = "event" /\ mirror' = [mirror EXCEPT ![m.slice] = m.version]
        /\ overlap' = IF Syncing THEN overlap \cup {m.slice} ELSE overlap
        /\ raced' = raced \ {m.slice}
  BY DEF DeliverEvent
<1>2. UNCHANGED <<server, live, working, phase, batch, waiting, fetched, tool>> /\ BatchOp' = BatchOp
  BY DEF DeliverEvent, server, BatchOp
<1>3. /\ Range(wire) = {m} \cup Range(wire') /\ Range(wire) \subseteq Messages
      /\ \A b \in Range(wire') : Follows(wire, m, b)
      /\ m.slice \in Slices /\ m.version \in Nat
  BY <1>0, <1>1, <1>2, Delivered, Received
<1>4. \A t : t # m.slice => Owed(t)' = Owed(t)
  BY <1>3 DEF Owed
\* The last of a slice's events is the one of the present version.
<1>5. ASSUME NEW s \in Slices, Owed(s)
      PROVE  \/ \E f \in Range(wire') : f.type = "event" /\ f.slice = s /\ f.version = live[s]
             \/ s = m.slice /\ ~Owed(s)' /\ m.version = live[s]
  <2>1. PICK f \in Range(wire) : f.type = "event" /\ f.slice = s /\ f.version = live[s]
    BY <1>5 DEF Current, Witnessed
  <2>2. ASSUME f \notin Range(wire'), NEW e \in Range(wire'), e.type = "event", e.slice = s
        PROVE  FALSE
    <3>1. f = m
      BY <1>3, <2>1, <2>2
    <3>2. live[s] < e.version
      BY <1>3, <2>1, <2>2, <3>1 DEF Versions, Past
    <3>3. e \in Range(wire) /\ e.version <= live[s] /\ e.version \in Nat /\ live[s] \in Nat
      BY <1>0, <1>3, <2>2 DEF Versions, Past, Messages, Events, Responses
    <3> QED
      BY <3>2, <3>3
  <2> QED
    BY <1>3, <2>1, <2>2 DEF Owed
<1>6. Witnessed'
  <2>1. ASSUME NEW s \in Slices, Owed(s)'
        PROVE  \E f \in Range(wire') : f.type = "event" /\ f.slice = s /\ f.version = live'[s]
    <3>1. Owed(s)
      BY <1>3, <2>1 DEF Owed
    <3> QED
      BY <1>2, <1>5, <2>1, <3>1
  <2> QED
    BY <2>1 DEF Witnessed
<1>7. AnswersCurrent'
  <2>1. ASSUME NEW r \in Answers', Awaited(r)', BatchOp = "get", r.slice \in Evented
        PROVE  r.version = live[r.slice] \/ r.slice \in overlap' \/ Owed(r.slice)'
    <3>1. r \in Answers /\ Awaited(r)
      BY <1>2, <1>3, <2>1 DEF Answers, Awaited
    <3>2. Syncing
      BY <2>1, <3>1, AwaitedIsSynced
    <3>3. r.version = live[r.slice] \/ r.slice \in overlap \/ Owed(r.slice)
      BY <2>1, <3>1 DEF Current, AnswersCurrent
    <3> QED
      BY <1>1, <1>4, <3>2, <3>3
  <2> QED
    BY <1>2, <2>1 DEF AnswersCurrent
<1>8. FetchedCurrent'
  <2>1. ASSUME NEW s \in Evented \ waiting, Syncing
        PROVE  fetched[s] = live[s] \/ s \in overlap' \/ Owed(s)'
    BY <1>1, <1>4, <2>1 DEF Current, FetchedCurrent
  <2> QED
    BY <1>2, <2>1 DEF FetchedCurrent, Syncing
<1>9. MirrorCurrent'
  <2>1. ASSUME NEW s \in Evented, phase = "active"
        PROVE  mirror'[s] = live[s] \/ s \in raced' \/ Owed(s)'
    <3>1. mirror'[s] = IF s = m.slice THEN m.version ELSE mirror[s]
      BY <1>0, <1>1 DEF TypeOK
    <3>2. CASE s = m.slice
      <4>1. Owed(s) /\ s \in Slices
        BY <1>0, <1>1, <3>2 DEF Owed
      <4> QED
        BY <1>5, <3>1, <3>2, <4>1 DEF Owed
    <3>3. CASE s # m.slice
      BY <1>1, <1>4, <2>1, <3>1, <3>3 DEF Current, MirrorCurrent
    <3> QED
      BY <3>2, <3>3
  <2> QED
    BY <1>2, <2>1 DEF MirrorCurrent
<1> QED
  BY <1>6, <1>7, <1>8, <1>9 DEF Current

LEMMA CurrentRead ==
  ASSUME Control, Versions, Current, DeliverRead
  PROVE  Current'
<1>0. Typed /\ TypeOK /\ Following
  BY DEF Control, Typed
<1>1. PICK m \in Range(wire) :
        /\ Deliver(m) /\ Pending(m) /\ m.ok /\ Syncing /\ waiting' = waiting \ {m.slice}
        /\ fetched' = [fetched EXCEPT ![m.slice] = m.version]
  BY DEF DeliverRead
<1>2. UNCHANGED <<server, live, working, batch, overlap, mirror, raced, phase, tool>>
  BY DEF DeliverRead, server, history
<1>3. /\ m \in Answers /\ m.slice \in waiting /\ m.type = "response" /\ Awaited(m)
      /\ Answers' \subseteq Answers /\ m.slice \in Slices /\ m.version \in Nat
  BY <1>1, <1>2, Received DEF Pending, Awaited
<1>4. /\ \A t : Owed(t)' = Owed(t)
      /\ \A n : n.type = "event" => (n \in Range(wire') <=> n \in Range(wire))
  BY <1>1, <1>3, EventsLeft
<1>5. BatchOp = "get"
  BY <1>0, <1>1 DEF Syncing, BatchOp, Following
<1>6. \A s \in Evented \ waiting' : fetched'[s] = live[s] \/ s \in overlap \/ Owed(s)
  <2>1. fetched \in [Slices -> Nat \cup {NotRead}] /\ Evented \subseteq Slices
    BY <1>0, SessionAssumption DEF TypeOK
  <2>2. ASSUME NEW s \in Evented \ waiting', s # m.slice
        PROVE  fetched'[s] = live[s] \/ s \in overlap \/ Owed(s)
    BY <1>1, <2>1, <2>2 DEF Current, FetchedCurrent
  <2>3. m.slice \in Evented => m.version = live[m.slice] \/ m.slice \in overlap \/ Owed(m.slice)
    BY <1>3, <1>5 DEF Current, AnswersCurrent
  <2>4. fetched'[m.slice] = m.version
    BY <1>1, <1>3, <2>1
  <2> QED
    BY <2>2, <2>3, <2>4
<1>7. FetchedCurrent' /\ MirrorCurrent'
  BY <1>2, <1>4, <1>6 DEF FetchedCurrent, MirrorCurrent, Current, Syncing
<1> QED
  BY <1>1, <1>2, <1>3, <1>4, <1>7, CurrentQuiet DEF BatchOp

\* An event behind the last answer, in its chunk, is a race too: the snapshot that
\* overwrites it was read before it was sent.
LEMMA CurrentLastRead ==
  ASSUME Control, Versions, Current, DeliverLastRead
  PROVE  Current'
<1>0. Typed /\ TypeOK /\ Following /\ live \in [Slices -> Nat] /\ Evented \subseteq Slices
  BY SessionAssumption DEF Control, Typed, TypeOK
<1>1. PICK m \in Range(wire), n \in DOMAIN wire :
        LET read == [fetched EXCEPT ![m.slice] = m.version]
            events == {i \in 2..n : wire[i].type = "event"}
        IN
        /\ DeliverChunk(m, n) /\ Pending(m) /\ m.ok /\ Syncing /\ waiting = {m.slice}
        /\ waiting' = {} /\ fetched' = read
        /\ ApplySnapshot(read, version + Cardinality(events))
        /\ overlap' = overlap \cup {wire[i].slice : i \in events}
        /\ raced' = overlap' /\ phase' = "active"
        /\ IF phase = "snapshot"
           THEN tool' = [tool EXCEPT !.step = "begin"] /\ UNCHANGED <<result, acked>>
           ELSE /\ Finish(TRUE, version')
                /\ acked' = IF tool.kind = "write"
                            THEN [acked EXCEPT ![tool.slice] = tool.wrote] ELSE acked
  BY Zenon DEF DeliverLastRead
<1>2. UNCHANGED <<server, live, working, batch>>
  BY DEF DeliverLastRead, server
<1>3. /\ m \in Answers /\ m.slice \in waiting /\ m.type = "response" /\ Awaited(m)
      /\ Answers' \subseteq Answers /\ m.slice \in Slices /\ m.version \in Nat
  BY <1>1, <1>2, Received DEF Pending, Awaited, Chunk
<1>4. /\ m = wire[1] /\ n \in DOMAIN wire
      /\ Range(wire') \subseteq Range(wire) /\ Range(wire) \subseteq Messages
      /\ \A a \in Range(wire) :
           \/ a \in Range(wire')
           \/ \E i \in 1..n : a = wire[i] /\ \A b \in Range(wire') : Follows(wire, a, b)
  BY <1>0, <1>1, Handed
<1>5. BatchOp = "get"
  BY <1>0, <1>1 DEF Syncing, BatchOp, Following
<1>6. \A s \in Evented \ waiting' : fetched'[s] = live[s] \/ s \in overlap \/ Owed(s)
  <2>1. fetched \in [Slices -> Nat \cup {NotRead}] /\ Evented \subseteq Slices
    BY <1>0, SessionAssumption DEF TypeOK
  <2>2. ASSUME NEW s \in Evented \ waiting', s # m.slice
        PROVE  fetched'[s] = live[s] \/ s \in overlap \/ Owed(s)
    BY <1>1, <2>1, <2>2 DEF Current, FetchedCurrent
  <2>3. m.slice \in Evented => m.version = live[m.slice] \/ m.slice \in overlap \/ Owed(m.slice)
    BY <1>3, <1>5 DEF Current, AnswersCurrent
  <2>4. fetched'[m.slice] = m.version
    BY <1>1, <1>3, <2>1
  <2> QED
    BY <2>2, <2>3, <2>4
<1>7. mirror' = fetched' /\ phase' = "active" /\ waiting' = {} /\ tool'.step \in {"begin", "done"}
  BY <1>0, <1>1 DEF ApplySnapshot, Finish, NoTool, Typed
\* The newest event of a slice is the last to leave.
<1>8. Witnessed'
  <2> SUFFICES ASSUME NEW s \in Slices, Owed(s)'
               PROVE  \E f \in Range(wire') : f.type = "event" /\ f.slice = s /\ f.version = live[s]
    BY <1>2 DEF Witnessed
  <2>1. PICK b \in Range(wire') : b.type = "event" /\ b.slice = s
    BY DEF Owed
  <2>2. b \in Range(wire) /\ b.version <= live[s] /\ b.version \in Nat
    BY <1>4, <2>1 DEF Versions, Past, Messages, Events, Responses
  <2>3. PICK f \in Range(wire) : f.type = "event" /\ f.slice = s /\ f.version = live[s]
    BY <2>1, <2>2 DEF Current, Witnessed, Owed
  <2>4. Follows(wire, f, b) => live[s] < b.version
    BY <2>1, <2>3 DEF Versions, Past
  <2> QED
    BY <1>0, <1>4, <2>1, <2>2, <2>3, <2>4
<1>9. ASSUME NEW s, Owed(s), ~Owed(s)' PROVE s \in raced'
  <2>1. PICK e \in Range(wire) : e.type = "event" /\ e.slice = s
    BY <1>9 DEF Owed
  <2>2. e \notin Range(wire')
    BY <1>9, <2>1 DEF Owed
  <2>3. PICK i \in 1..n : e = wire[i]
    BY <1>4, <2>1, <2>2
  <2>4. i # 1
    BY <1>3, <1>4, <2>1, <2>3
  <2>5. i \in 2..n /\ wire[i].type = "event" /\ wire[i].slice = s
    BY <1>4, <2>1, <2>3, <2>4
  <2> QED
    BY <1>1, <2>5
<1>10. MirrorCurrent'
  <2>1. ASSUME NEW s \in Evented PROVE mirror'[s] = live[s] \/ s \in raced' \/ Owed(s)'
    BY <1>1, <1>6, <1>7, <1>9
  <2> QED
    BY <1>2, <2>1 DEF MirrorCurrent
<1>11. AnswersCurrent' /\ FetchedCurrent'
  BY <1>7 DEF AnswersCurrent, Awaited, FetchedCurrent, Syncing
<1> QED
  BY <1>8, <1>10, <1>11 DEF Current

LEMMA CurrentReceive ==
  ASSUME Control, Versions, Heard, Current, Receive
  PROVE  Current'
<1>0. Typed /\ TypeOK /\ Following /\ Evented \subseteq Slices
  BY SessionAssumption DEF Control, Typed
<1>1. ASSUME NEW m, Deliver(m), m.type = "response", UNCHANGED working
      PROVE  /\ \A t : Owed(t)' = Owed(t) /\ Answers' \subseteq Answers
             /\ \A n : n.type = "event" => (n \in Range(wire') <=> n \in Range(wire))
  <2>1. Range(wire') \subseteq Range(wire)
    BY <1>0, <1>1, Delivered
  <2> QED
    BY <1>1, <2>1, EventsLeft DEF Answers
<1>2. CASE DeliverUnawaited
  <2>1. PICK m \in Range(wire) : Deliver(m) /\ m.type = "response"
    BY <1>2 DEF DeliverUnawaited
  <2>2. UNCHANGED <<live, working, phase, batch, waiting, fetched, mirror, tool, overlap, raced>>
    BY <1>2 DEF DeliverUnawaited, server, client, history
  <2>3. FetchedCurrent' /\ MirrorCurrent'
    BY <1>1, <2>1, <2>2 DEF FetchedCurrent, MirrorCurrent, Current, Syncing
  <2> QED
    BY <1>1, <2>1, <2>2, <2>3, CurrentQuiet DEF BatchOp
<1>3. CASE DeliverStartError
  BY <1>3, CurrentDropped DEF DeliverStartError, Finish, NoTool
<1>4. CASE DeliverCallError
  <2>1. PICK m \in Range(wire) : /\ Deliver(m) /\ m.type = "response" /\ phase = "active"
                                 /\ waiting' = {} /\ tool' = NoTool
    BY <1>4 DEF DeliverCallError, Pending, Finish
  <2>2. UNCHANGED <<live, working, phase, mirror, raced>>
    BY <1>4 DEF DeliverCallError, server, history
  <2>3. FetchedCurrent' /\ MirrorCurrent'
    BY <1>1, <2>1, <2>2 DEF FetchedCurrent, MirrorCurrent, Current, Syncing, NoTool
  <2> QED
    BY <1>1, <2>1, <2>2, <2>3, CurrentQuiet
<1>5. CASE DeliverSubscribed
  <2>1. PICK m \in Range(wire) :
          /\ Deliver(m) /\ m.type = "response" /\ phase = "subscribing"
          /\ IF waiting = {m.slice} THEN phase' = "snapshot" /\ SendAll("get") /\ overlap' = {}
             ELSE waiting' = waiting \ {m.slice} /\ UNCHANGED <<phase, batch, overlap>>
    BY <1>5 DEF DeliverSubscribed, Pending
  <2>2. UNCHANGED <<live, working, tool>> /\ tool.step = "connect"
    BY <1>0, <1>5 DEF DeliverSubscribed, server, Following
  <2>3. \/ phase' = "snapshot" /\ waiting' = Slices /\ batch' = batch + 1
        \/ /\ phase' = "subscribing" /\ UNCHANGED <<batch, overlap>> /\ waiting' \subseteq waiting
           /\ BatchOp' = BatchOp
    BY <2>1, <2>2 DEF SendAll, BatchOp
  <2>4. FetchedCurrent' /\ MirrorCurrent'
    BY <1>0, <2>2, <2>3 DEF FetchedCurrent, MirrorCurrent, Syncing
  <2> QED
    BY <1>1, <2>1, <2>2, <2>3, <2>4, CurrentQuiet
<1>6. CASE DeliverMutated
  <2>1. PICK m \in Range(wire) : Deliver(m) /\ m.type = "response" /\ SendAll("get")
    BY <1>6 DEF DeliverMutated, Pending
  <2>2. UNCHANGED <<live, working, phase, mirror, raced>>
    BY <1>6 DEF DeliverMutated, server
  <2>3. waiting' = Slices /\ batch' = batch + 1
    BY <2>1 DEF SendAll
  <2>4. FetchedCurrent' /\ MirrorCurrent'
    BY <1>0, <1>1, <2>1, <2>2, <2>3 DEF FetchedCurrent, MirrorCurrent, Current
  <2> QED
    BY <1>1, <2>1, <2>2, <2>3, <2>4, CurrentQuiet
<1>7. CASE DeliverContext
  <2>1. PICK m \in Range(wire) :
          /\ Deliver(m) /\ Pending(m) /\ tool.step = "select" /\ waiting' = {} /\ tool' = NoTool
          /\ mirror' = [mirror EXCEPT ![m.slice] = m.version]
    BY <1>7 DEF DeliverContext, Finish
  <2>2. UNCHANGED <<live, working, phase, raced>>
    BY <1>7 DEF DeliverContext, server, history
  <2>3. phase = "active" /\ m.slice \notin Evented /\ m.type = "response"
    BY <1>0, <2>1, SessionAssumption DEF Following, Deliver, Connected, Pending
  <2>4. \A s \in Evented : mirror'[s] = mirror[s]
    BY <1>0, <2>1, <2>3 DEF TypeOK
  <2>5. FetchedCurrent' /\ MirrorCurrent'
    BY <1>1, <2>1, <2>2, <2>3, <2>4 DEF FetchedCurrent, MirrorCurrent, Current, Syncing, NoTool
  <2> QED
    BY <1>1, <2>1, <2>2, <2>3, <2>5, CurrentQuiet
<1> QED
  BY <1>2, <1>3, <1>4, <1>5, <1>6, <1>7, CurrentEvent, CurrentRead, CurrentLastRead DEF Receive

LEMMA CurrentStep ==
  ASSUME Control, Versions, Heard, Current, [Next]_vars
  PROVE  Current'
<1>1. CASE UNCHANGED vars
  <2>1. UNCHANGED <<live, wire, working, phase, batch, waiting, fetched, mirror, tool, overlap, raced>>
    BY <1>1 DEF vars, server, client, history
  <2>2. \A t : Owed(t)' = Owed(t)
    BY <2>1 DEF Owed
  <2>3. FetchedCurrent' /\ MirrorCurrent'
    BY <2>1, <2>2 DEF FetchedCurrent, MirrorCurrent, Current, Syncing
  <2>4. Answers' \subseteq Answers
    BY <2>1 DEF Answers
  <2> QED
    BY <2>1, <2>3, <2>4, CurrentQuiet DEF BatchOp
<1> QED
  BY <1>1, CurrentWorker, CurrentConnect, CurrentBegin, CurrentReceive, CurrentEnvironment DEF Next

LEMMA EventsInit == Init => Heard /\ Current
<1> SUFFICES ASSUME Init PROVE Heard /\ Current
  OBVIOUS
<1>1. Range(wire) = {} /\ Answers = {} /\ phase = "idle" /\ tool.step = "done"
  BY EmptyRange DEF Init, Answers, NoTool
<1>2. \A t : ~Owed(t)
  BY <1>1 DEF Owed
<1> QED
  BY <1>1, <1>2 DEF Heard, Current, Witnessed, AnswersCurrent, FetchedCurrent, MirrorCurrent, Syncing

-----------------------------------------------------------------------------
\* The inductive invariant of the session, layer by layer: the control, the
\* versions on their way, the versions reported, and the events.
THEOREM SessionIsFollowed ==
  Spec => [](Control /\ Versions /\ Advancing /\ Heard /\ Current)
<1> DEFINE SessionInv == Control /\ Versions /\ Advancing /\ Heard /\ Current
<1>1. Init => SessionInv
  <2>1. Init => Advancing
    BY DEF Init, Advancing, RefreshAdvances, NoTool
  <2> QED
    BY <2>1, ControlInit, VersionsInit, EventsInit
<1>2. SessionInv /\ [Next]_vars => SessionInv'
  BY ControlStep, VersionsStep, AdvancingStep, HeardStep, CurrentStep
<1> QED
  BY <1>1, <1>2, PTL DEF Spec

\* The variables of the session and of the script keep their types.
THEOREM SessionTypeCorrect == Spec => []TypeOK
<1>1. Control => TypeOK
  BY DEF Control, Typed
<1> QED
  BY <1>1, SessionIsFollowed, PTL

\* After a write that succeeded every read of the mirror, in its connection or a
\* later one, shows that write or something newer.
THEOREM WritesAreRead == Spec => []ReadYourWrites
<1>1. Control /\ Versions => ReadYourWrites
  BY SessionAssumption DEF Versions, Fresh, MirrorRecent, ReadYourWrites
<1> QED
  BY <1>1, SessionIsFollowed, PTL

\* A session in use shows nothing that is older than its connection.
THEOREM MirrorIsOfThisConnection == Spec => []MirrorPostdatesConnection
<1>1. Control /\ Versions => MirrorPostdatesConnection
  BY SessionAssumption DEF Versions, Fresh, MirrorRecent, MirrorPostdatesConnection
<1> QED
  BY <1>1, SessionIsFollowed, PTL

\* Once the events on the wire are in, a slice with events is Live's, but for those
\* that a snapshot has overwritten.
THEOREM EventsKeepTheMirror == Spec => []UnracedIsCurrent
<1>1. Control /\ Current => UnracedIsCurrent
  <2> SUFFICES ASSUME Control, Current, phase = "active", NoEventOnWire, NEW s \in Evented \ raced
               PROVE  mirror[s] = live[s]
    BY DEF UnracedIsCurrent
  <2>1. ~Owed(s)
    BY DEF Owed, NoEventOnWire, Range
  <2> QED
    BY <2>1 DEF Current, MirrorCurrent
<1> QED
  BY <1>1, SessionIsFollowed, PTL

\* What a refresh or a write reports is newer than what it started from.
THEOREM VersionsAdvance == Spec => []RefreshAdvances
<1>1. Advancing => RefreshAdvances
  BY DEF Advancing
<1> QED
  BY <1>1, SessionIsFollowed, PTL
-----------------------------------------------------------------------------
(* The view is behind Live, and behind what is to be told.                *)
LEMMA BehindChange ==
  ASSUME Control, Versions, Behind, NEW s \in Slices, Change(s), UNCHANGED <<mirror, fetched>>
  PROVE  Behind'
<1>1. /\ live \in [Slices -> Nat] /\ live' = [live EXCEPT ![s] = @ + 1]
      /\ Range(wire') \subseteq Range(wire) \cup {Event(s, live[s] + 1)}
  BY Changed DEF Control, Typed, TypeOK
<1>2. \A t \in Slices : live[t] \in Nat /\ live'[t] \in Nat /\ live[t] <= live'[t]
  BY <1>1
<1>3. Event(s, live[s] + 1).slice = s /\ Event(s, live[s] + 1).version = live[s] + 1
  BY DEF Event
<1>4. ASSUME NEW t \in Slices, NEW v, Reached(v, t) PROVE Reached(v, t)'
  <2> SUFFICES ASSUME v # NotRead
               PROVE  /\ v \in Nat /\ v <= live'[t]
                      /\ \A m \in Range(wire') : m.type = "event" /\ m.slice = t => v < m.version
    BY DEF Reached
  <2>1. v \in Nat /\ v <= live[t] /\ v <= live'[t]
    BY <1>2, <1>4 DEF Reached
  <2>2. ASSUME NEW m \in Range(wire'), m.type = "event", m.slice = t PROVE v < m.version
    <3>1. CASE m \in Range(wire)
      BY <1>4, <2>2, <3>1 DEF Reached
    <3>2. CASE m = Event(s, live[s] + 1)
      <4>1. t = s /\ m.version = live[s] + 1
        BY <1>3, <2>2, <3>2
      <4> QED
        BY <1>2, <2>1, <4>1
    <3> QED
      BY <1>1, <3>1, <3>2
  <2> QED
    BY <2>1, <2>2
<1>5. \A t \in Slices : mirror'[t] = mirror[t] /\ fetched'[t] = fetched[t]
  OBVIOUS
<1>6. \A t \in Slices : \A v : Reached(v, t) => Reached(v, t)'
  BY <1>4
<1>7. ASSUME NEW t \in Slices PROVE Reached(mirror[t], t)' /\ Reached(fetched[t], t)'
  <2>1. PICK v, w : v = mirror[t] /\ w = fetched[t]
    OBVIOUS
  <2>2. Reached(v, t)' /\ Reached(w, t)'
    BY <1>6, <2>1 DEF Behind
  <2> QED
    BY <1>5, <2>1, <2>2 DEF Reached
<1> QED
  BY <1>7 DEF Behind

\* The version of slice s that a message brings.
Arrived(v, s) == \E m \in Range(wire) : (Deliver(m) \/ Chunk(m)) /\ m.slice = s /\ v = m.version

\* Where no version is new but one that a message brings.
LEMMA BehindMoved ==
  ASSUME Control, Versions, Behind, UNCHANGED live,
         \A m \in Range(wire') : m.type = "event" => m \in Range(wire),
         \A s \in Slices : \A v \in {mirror'[s], fetched'[s]} :
           v \in {NotRead, mirror[s], fetched[s]} \/ Arrived(v, s)
  PROVE  Behind'
<1>1. ASSUME NEW s \in Slices, NEW v, v \in {NotRead, mirror[s], fetched[s]} \/ Arrived(v, s)
      PROVE  Reached(v, s)'
  <2>1. CASE v \in {NotRead, mirror[s], fetched[s]}
    <3>1. Reached(v, s)
      BY <2>1 DEF Behind, Reached
    <3> QED
      BY <3>1 DEF Reached
  <2>2. CASE Arrived(v, s)
    <3>1. PICK m \in Range(wire) : (Deliver(m) \/ Chunk(m)) /\ m.slice = s /\ v = m.version
      BY <2>2 DEF Arrived
    <3>2. m \in Messages /\ \A b \in Range(wire') : Follows(wire, m, b)
      BY <3>1, Delivered, Handed DEF Control, Chunk
    <3>3. v \in Nat /\ v <= live[s]
      BY <3>1, <3>2 DEF Messages, Events, Responses, Versions, Past
    <3>4. ASSUME NEW b \in Range(wire'), b.type = "event", b.slice = s PROVE v < b.version
      BY <3>1, <3>2, <3>4 DEF Versions, Past
    <3> QED
      BY <3>3, <3>4 DEF Reached
  <2> QED
    BY <1>1, <2>1, <2>2
<1>2. \A s \in Slices : \A v : v \in {NotRead, mirror[s], fetched[s]} \/ Arrived(v, s)
                               => Reached(v, s)'
  BY <1>1
<1>3. ASSUME NEW s \in Slices PROVE Reached(mirror[s], s)' /\ Reached(fetched[s], s)'
  <2>1. PICK v, w : v = mirror'[s] /\ w = fetched'[s]
    OBVIOUS
  <2>2. Reached(v, s)' /\ Reached(w, s)'
    BY <1>2, <2>1
  <2> QED
    BY <2>1, <2>2 DEF Reached
<1> QED
  BY <1>3 DEF Behind

LEMMA BehindReceive ==
  ASSUME Control, Versions, Behind, Receive
  PROVE  Behind'
<1>0. /\ mirror \in [Slices -> Nat \cup {NotRead}] /\ fetched \in [Slices -> Nat \cup {NotRead}]
      /\ Typed
  BY DEF Control, Typed, TypeOK
<1>1. ASSUME NEW m \in Range(wire), Deliver(m) \/ Chunk(m) PROVE Range(wire') \subseteq Range(wire)
  BY <1>0, <1>1, Delivered, Handed DEF Chunk
<1>2. ASSUME NEW f, NEW m \in Range(wire), f \in [Slices -> Nat \cup {NotRead}], Deliver(m) \/ Chunk(m)
      PROVE  \A s \in Slices : LET v == [f EXCEPT ![m.slice] = m.version][s]
                               IN v = f[s] \/ Arrived(v, s)
  BY <1>2 DEF Arrived
<1>3. CASE DeliverEvent
  <2>1. PICK m \in Range(wire) : Deliver(m) /\ mirror' = [mirror EXCEPT ![m.slice] = m.version]
    BY <1>3 DEF DeliverEvent
  <2>2. UNCHANGED <<live, fetched>>
    BY <1>3 DEF DeliverEvent, server
  <2> QED
    BY <1>0, <1>1, <1>2, <2>1, <2>2, BehindMoved
<1>4. CASE DeliverStartError
  <2>1. /\ mirror' = Unread /\ fetched' = Unread /\ wire' = <<>> /\ live' = live
    BY <1>4 DEF DeliverStartError, DropConnection
  <2> QED
    BY <2>1, EmptyRange, BehindMoved DEF Unread
<1>5. ASSUME NEW m \in Range(wire), Deliver(m), UNCHANGED <<live, mirror>>,
             fetched' \in {fetched, Unread}
      PROVE  Behind'
  BY <1>1, <1>5, BehindMoved DEF Unread
<1>8. CASE DeliverUnawaited
  BY <1>5, <1>8 DEF DeliverUnawaited, server, client
<1>9. CASE DeliverCallError
  BY <1>5, <1>9 DEF DeliverCallError, server
<1>10. CASE DeliverSubscribed
  BY <1>5, <1>10 DEF DeliverSubscribed, SendAll, server
<1>11. CASE DeliverMutated
  BY <1>5, <1>11 DEF DeliverMutated, SendAll, server
<1>6. CASE DeliverRead
  <2>1. PICK m \in Range(wire) : Deliver(m) /\ fetched' = [fetched EXCEPT ![m.slice] = m.version]
    BY <1>6 DEF DeliverRead
  <2>2. UNCHANGED <<live, mirror>>
    BY <1>6 DEF DeliverRead, server
  <2> QED
    BY <1>0, <1>1, <1>2, <2>1, <2>2, BehindMoved
<1>12. CASE DeliverLastRead
  <2>1. PICK m \in Range(wire), n \in DOMAIN wire :
          /\ DeliverChunk(m, n) /\ fetched' = [fetched EXCEPT ![m.slice] = m.version]
          /\ mirror' = fetched'
    BY <1>12, Zenon DEF DeliverLastRead, ApplySnapshot
  <2>2. UNCHANGED live /\ Chunk(m)
    BY <1>12, <2>1 DEF DeliverLastRead, server, Chunk
  <2> QED
    BY <1>0, <1>1, <1>2, <2>1, <2>2, BehindMoved
<1>7. CASE DeliverContext
  <2>1. PICK m \in Range(wire) : Deliver(m) /\ mirror' = [mirror EXCEPT ![m.slice] = m.version]
    BY <1>7 DEF DeliverContext
  <2>2. UNCHANGED <<live, fetched>>
    BY <1>7 DEF DeliverContext, server
  <2> QED
    BY <1>0, <1>1, <1>2, <2>1, <2>2, BehindMoved
<1> QED
  BY <1>3, <1>4, <1>6, <1>7, <1>8, <1>9, <1>10, <1>11, <1>12 DEF Receive

LEMMA BehindStep ==
  ASSUME Control, Versions, Behind, [Next]_vars
  PROVE  Behind'
<1>1. CASE Receive
  BY <1>1, BehindReceive
<1>2. CASE \E s \in Slices : Change(s) /\ UNCHANGED <<mirror, fetched>>
  BY <1>2, BehindChange
<1>3. ASSUME UNCHANGED <<live, wire>>, mirror' \in {mirror, Unread}, fetched' \in {fetched, Unread}
      PROVE  Behind'
  BY <1>3, BehindMoved DEF Unread
<1>4. CASE Worker
  <2>1. UNCHANGED <<mirror, fetched>>
    BY <1>4 DEF Worker, WorkerSubscribe, WorkerGet, WorkerMutate, WorkerSend, client
  <2>2. CASE WorkerSubscribe \/ WorkerGet
    BY <1>3, <2>1, <2>2 DEF WorkerSubscribe, WorkerGet
  <2>3. CASE WorkerMutate
    <3>1. PICK r \in Range(requests) : Change(r.slice) \/ UNCHANGED <<live, wire>>
      BY <2>3 DEF WorkerMutate
    <3>2. r.slice \in Slices
      BY RangeTypes DEF Control, Requests
    <3> QED
      BY <1>2, <1>3, <2>1, <3>1, <3>2
  <2>4. CASE WorkerSend
    <3>1. PICK r \in Responses : Range(wire') = Range(wire) \cup {r}
      BY <2>4, Sent DEF Control
    <3>2. \A m \in Range(wire') : m.type = "event" => m \in Range(wire)
      BY <3>1 DEF Responses
    <3>3. live' = live
      BY <2>4 DEF WorkerSend
    <3> QED
      BY <2>1, <3>2, <3>3, BehindMoved
  <2> QED
    BY <1>4, <2>2, <2>3, <2>4 DEF Worker
<1>5. CASE Connect
  BY <1>3, <1>5 DEF Connect, ConnectOk, ConnectFails, SendAll, server
<1>6. CASE Begin
  BY <1>3, <1>6 DEF Begin, BeginRead, BeginWrite, BeginRefresh, BeginContext, SendAll, SendOne, server
<1>7. CASE Environment
  <2>1. CASE \E s \in Slices : UserEdit(s) \/ LateApply(s)
    BY <1>2, <2>1 DEF UserEdit, LateApply, client
  <2>2. CASE \E k \in Kinds : \E s \in Target(k) : Call(k, s)
    BY <1>3, <2>2 DEF Call, server
  <2>3. CASE LinkLost
    <3>1. mirror' = Unread /\ fetched' = Unread /\ wire' = <<>> /\ live' = live
      BY <2>3 DEF LinkLost, DropConnection
    <3> QED
      BY <3>1, EmptyRange, BehindMoved DEF Unread
  <2> QED
    BY <1>7, <2>1, <2>2, <2>3 DEF Environment
<1>8. CASE UNCHANGED vars
  BY <1>3, <1>8 DEF vars, server, client
<1> QED
  BY <1>1, <1>4, <1>5, <1>6, <1>7, <1>8 DEF Next

-----------------------------------------------------------------------------
(* What a call may be shown is as new as it asked for.                    *)

\* What the session does, when it sends no answer and drops or renumbers those it awaits.
LEMMA SinceClient ==
  ASSUME Control, Since, UNCHANGED <<live, asked, acked>>, Answers' \subseteq Answers,
         \/ batch' = batch + 1
         \/ /\ batch' = batch /\ waiting' \subseteq waiting
            /\ waiting' = {} \/ phase = "active" \/ phase' # "active",
         tool'.kind = "none" => tool' = NoTool,
         phase' \in {"subscribing", "snapshot"} => \A s \in Slices : asked[s] <= opened'[s],
         FetchedEntitled'
  PROVE  Since'
<1>1. AskedFirst'
  BY DEF Since, AskedFirst, Entitled
<1>2. ASSUME NEW r \in Answers', Awaited(r)', phase' = "active"
      PROVE  Entitled(r.version, r.slice)'
  <2>1. r \in Answers /\ r.batch \in Nat /\ r.batch <= batch /\ batch \in Nat
    BY RangeTypes DEF Control, Typed, TypeOK, Numbered, Responses
  <2>2. r \in Answers /\ Awaited(r) /\ phase = "active"
    BY <1>2, <2>1 DEF Awaited
  <2> QED
    BY <2>2 DEF Since, AnswersEntitled, Entitled
<1> QED
  BY <1>1, <1>2 DEF Since, AnswersEntitled

\* What Live and the script do: the set only goes on, and answers are of the set as it is.
LEMMA SinceServer ==
  ASSUME Control, Since, UNCHANGED <<client, history>>, live' \in [Slices -> Nat],
         \A s \in Slices : live[s] <= live'[s],
         \A r \in Answers' : phase = "active" /\ Awaited(r)
                               => r \in Answers \/ Entitled(r.version, r.slice)
  PROVE  Since'
<1>1. /\ UNCHANGED <<asked, acked, opened, phase, tool, waiting, fetched, batch>>
      /\ live \in [Slices -> Nat] /\ acked \in [Slices -> Nat]
  BY DEF client, history, Control, Typed, TypeOK
<1>2. \A v, s : Entitled(v, s)' <=> Entitled(v, s)
  BY <1>1 DEF Entitled
<1>3. \A s \in Slices : Entitled(live'[s], s)
  <2>1. ASSUME NEW s \in Slices
        PROVE  /\ live[s] \in Nat /\ live'[s] \in Nat /\ asked[s] \in Nat /\ acked[s] \in Nat
               /\ Entitled(live[s], s)
    BY <1>1 DEF Since, AskedFirst
  <2> QED
    BY <2>1 DEF Entitled
<1>4. AskedFirst'
  BY <1>1, <1>2, <1>3 DEF Since, AskedFirst
<1>5. AnswersEntitled'
  BY <1>1, <1>2 DEF Since, AnswersEntitled, Awaited
<1>6. FetchedEntitled'
  BY <1>1, <1>2 DEF Since, FetchedEntitled
<1> QED
  BY <1>4, <1>5, <1>6 DEF Since

LEMMA SinceChange ==
  ASSUME Control, Since, NEW s \in Slices, Change(s), UNCHANGED <<client, history>>,
         \A r \in Range(working') : phase = "active" /\ Awaited(r)
                               => r \in Range(working) \/ Entitled(r.version, r.slice)
  PROVE  Since'
<1>1. /\ Typed /\ live \in [Slices -> Nat] /\ live' = [live EXCEPT ![s] = @ + 1]
      /\ live' \in [Slices -> Nat] /\ Range(wire') \subseteq Range(wire) \cup {Event(s, live[s] + 1)}
  BY Changed DEF Control, Typed, TypeOK
<1>2. \A t \in Slices : live[t] <= live'[t]
  <2>1. ASSUME NEW t \in Slices PROVE live[t] \in Nat /\ (live'[t] = live[t] \/ live'[t] = live[t] + 1)
    BY <1>1
  <2> QED
    BY <2>1
<1>3. Event(s, live[s] + 1).type = "event"
  BY DEF Event
<1>4. \A r \in Answers' : r \in Answers \/ r \in Range(working')
  BY <1>1, <1>3 DEF Answers
<1>5. \A r \in Answers' : phase = "active" /\ Awaited(r)
                            => r \in Answers \/ Entitled(r.version, r.slice)
  BY <1>4 DEF Answers
<1> QED
  BY <1>1, <1>2, <1>5, SinceServer

\* The answer that the worker holds is of the set as it is, or no read or write awaits it.
LEMMA SinceHeld ==
  ASSUME Control, Since, NEW op, NEW r, Take(op, r), NEW ok \in BOOLEAN, NEW v \in Nat,
         working' = <<Response(r, ok, v)>>,
         ok => op = "subscribe" \/ (r.slice \in Slices => live[r.slice] <= v)
  PROVE  /\ \A a \in Range(working') : phase = "active" /\ Awaited(a) => Entitled(a.version, a.slice)
         /\ r \in Range(requests) /\ r.op = op /\ r.slice \in Slices
<1>1. Typed /\ r \in Range(requests) /\ r.op = op /\ r \in Requests
  BY Taken DEF Control
<1>2. r.slice \in Slices /\ r.batch \in Nat
  BY <1>1 DEF Requests
<1> DEFINE a == Response(r, ok, v)
<1>3. a.version = v /\ a.slice = r.slice /\ a.batch = r.batch /\ a.ok = ok
  BY DEF Response
<1>4. Range(working') = {a}
  BY OneRange
<1> HIDE DEF a
<1>5. ASSUME phase = "active", Awaited(a) PROVE Entitled(a.version, a.slice)
  <2>1. r.op = BatchOp /\ ok
    BY <1>1, <1>3, <1>5 DEF Awaited, Control, Numbered
  <2>2. op # "subscribe"
    BY <1>1, <1>5, <2>1 DEF BatchOp
  <2>3. live[r.slice] <= v
    BY <1>2, <2>1, <2>2
  <2>4. /\ live[r.slice] \in Nat /\ asked[r.slice] \in Nat /\ acked[r.slice] \in Nat
        /\ Entitled(live[r.slice], r.slice)
    BY <1>1, <1>2 DEF Since, AskedFirst, Typed, TypeOK
  <2> QED
    BY <1>3, <2>3, <2>4 DEF Entitled
<1> QED
  BY <1>1, <1>2, <1>4, <1>5

LEMMA SinceWorker ==
  ASSUME Control, Since, Worker
  PROVE  Since'
<1>1. Typed /\ live \in [Slices -> Nat]
  BY DEF Control, Typed, TypeOK
<1>2. \A s \in Slices : live[s] \in Nat /\ live[s] <= live[s]
  BY <1>1
<1>3. ASSUME UNCHANGED <<live, wire>>, UNCHANGED <<client, history>>,
             \A r \in Range(working') : phase = "active" /\ Awaited(r) => Entitled(r.version, r.slice)
      PROVE  Since'
  BY <1>1, <1>2, <1>3, SinceServer DEF Answers
<1>4. \A r \in Range(requests) : r.slice \in Slices /\ live[r.slice] \in Nat /\ live[r.slice] + 1 \in Nat
  BY <1>1, RangeTypes DEF Requests
<1>5. CASE WorkerSubscribe
  <2>1. PICK r \in Range(requests) : Take("subscribe", r) /\ working' = <<Response(r, TRUE, 0)>>
    BY <1>5 DEF WorkerSubscribe
  <2>2. UNCHANGED <<live, wire>> /\ UNCHANGED <<client, history>>
    BY <1>5 DEF WorkerSubscribe
  <2> QED
    BY <1>3, <2>1, <2>2, SinceHeld
<1>6. CASE WorkerGet
  <2>1. PICK r \in Range(requests), ok \in BOOLEAN :
          Take("get", r) /\ working' = <<Response(r, ok, live[r.slice])>>
    BY <1>6 DEF WorkerGet
  <2>2. UNCHANGED <<live, wire>> /\ UNCHANGED <<client, history>>
    BY <1>6 DEF WorkerGet
  <2>3. r.slice \in Slices => live[r.slice] <= live[r.slice]
    BY <1>2
  <2> QED
    BY <1>3, <1>4, <2>1, <2>2, <2>3, SinceHeld
<1>7. CASE WorkerMutate
  <2>1. PICK r \in Range(requests) :
          /\ Take("mutate", r)
          /\ \/ Change(r.slice) /\ working' = <<Response(r, TRUE, live[r.slice] + 1)>>
             \/ working' = <<Response(r, TRUE, live[r.slice])>> /\ UNCHANGED <<live, wire>>
             \/ working' = <<Response(r, FALSE, 0)>> /\ UNCHANGED <<live, wire>>
    BY <1>7 DEF WorkerMutate
  <2>2. UNCHANGED <<client, history>>
    BY <1>7 DEF WorkerMutate
  <2>3. CASE Change(r.slice) /\ working' = <<Response(r, TRUE, live[r.slice] + 1)>>
    <3>1. live[r.slice] + 1 \in Nat /\ live[r.slice] <= live[r.slice] + 1
      BY <1>4
    <3>2. \A a \in Range(working') : phase = "active" /\ Awaited(a) => Entitled(a.version, a.slice)
      BY <2>1, <2>3, <3>1, SinceHeld
    <3> QED
      BY <1>4, <2>2, <2>3, <3>2, SinceChange
  <2>4. CASE working' = <<Response(r, TRUE, live[r.slice])>> /\ UNCHANGED <<live, wire>>
    <3>1. r.slice \in Slices => live[r.slice] <= live[r.slice]
      BY <1>2
    <3> QED
      BY <1>3, <1>4, <2>1, <2>2, <2>4, <3>1, SinceHeld
  <2>5. CASE working' = <<Response(r, FALSE, 0)>> /\ UNCHANGED <<live, wire>>
    BY <1>3, <2>1, <2>2, <2>5, SinceHeld
  <2> QED
    BY <2>1, <2>3, <2>4, <2>5
<1>8. CASE WorkerSend
  <2>1. PICK r \in Responses :
          /\ Range(working) = {r} /\ Range(working') = {} /\ Range(wire') = Range(wire) \cup {r}
    BY <1>1, <1>8, Sent
  <2>2. Answers' \subseteq Answers
    BY <2>1 DEF Answers
  <2>3. UNCHANGED live /\ UNCHANGED <<client, history>>
    BY <1>8 DEF WorkerSend
  <2> QED
    BY <1>1, <1>2, <2>2, <2>3, SinceServer
<1> QED
  BY <1>5, <1>6, <1>7, <1>8 DEF Worker

LEMMA SinceDropped ==
  ASSUME Control, Since, DropConnection, UNCHANGED <<live, batch, asked, acked>>,
         tool' = NoTool \/ (tool.kind = "none" /\ tool' = tool)
  PROVE  Since'
<1>1. Answers' \subseteq Answers
  BY EmptyRange DEF DropConnection, Answers
<1>2. tool' = NoTool
  BY DEF Since, AskedFirst
<1>3. phase' = "idle" /\ waiting' = {} /\ FetchedEntitled'
  BY <1>2 DEF DropConnection, NoTool, FetchedEntitled
<1> QED
  BY <1>1, <1>2, <1>3, SinceClient

LEMMA SinceEnvironment ==
  ASSUME Control, Since, Environment
  PROVE  Since'
<1>1. CASE \E s \in Slices : UserEdit(s) \/ LateApply(s)
  <2>1. PICK s \in Slices : Change(s) /\ UNCHANGED <<working, client, history>>
    BY <1>1 DEF UserEdit, LateApply
  <2> QED
    BY <2>1, SinceChange
<1>2. ASSUME NEW k \in Kinds, NEW s \in Target(k), Call(k, s) PROVE Since'
  <2>1. /\ UNCHANGED <<live, acked, opened>> /\ asked' = live
        /\ waiting' = {} /\ tool'.kind # "none" /\ tool'.step # "sync"
        /\ phase \in {"idle", "active"} /\ phase' \in {"connecting", "active"}
    BY <1>2 DEF Call, server, Control, Typed, TypeOK, Following, Kinds
  <2>2. live \in [Slices -> Nat] /\ acked \in [Slices -> Nat]
    BY DEF Control, Typed, TypeOK
  <2>3. \A s_1 \in Slices : live[s_1] \in Nat /\ acked[s_1] <= live[s_1]
    BY <2>2 DEF Since, AskedFirst, Entitled
  <2>4. AskedFirst'
    BY <2>1, <2>2, <2>3 DEF AskedFirst, Entitled
  <2> QED
    BY <2>1, <2>4 DEF Since, AnswersEntitled, FetchedEntitled, Awaited
<1>3. CASE LinkLost
  <2>1. DropConnection /\ UNCHANGED <<live, batch, asked, acked>>
    BY <1>3 DEF LinkLost, history
  <2>2. tool' = NoTool \/ (tool.kind = "none" /\ tool' = tool)
    BY <1>3 DEF LinkLost, Finish
  <2> QED
    BY <2>1, <2>2, SinceDropped
<1> QED
  BY <1>1, <1>2, <1>3 DEF Environment

LEMMA SinceConnect ==
  ASSUME Control, Since, Connect
  PROVE  Since'
<1>1. UNCHANGED <<live, asked, acked, wire, working>> /\ phase = "connecting"
  BY DEF Connect, ConnectOk, ConnectFails, server, history
<1>2. Answers' \subseteq Answers
  BY <1>1 DEF Answers
<1>3. tool.kind # "none" /\ tool.step = "connect" /\ waiting = {}
  BY <1>1 DEF Control, Typed, TypeOK, Following, Connected
<1>4. CASE ConnectOk
  <2>1. batch' = batch + 1 /\ tool' = tool /\ opened' = live
    BY <1>4 DEF ConnectOk, SendAll
  <2>2. \A s \in Slices : asked[s] <= opened'[s]
    BY <2>1 DEF Since, AskedFirst, Entitled
  <2>3. FetchedEntitled'
    BY <1>3, <2>1 DEF FetchedEntitled
  <2> QED
    BY <1>1, <1>2, <1>3, <2>1, <2>2, <2>3, SinceClient
<1>5. CASE ConnectFails
  <2>1. tool' = NoTool /\ phase' = "idle" /\ UNCHANGED <<batch, waiting>>
    BY <1>5 DEF ConnectFails, Finish
  <2>2. FetchedEntitled'
    BY <2>1 DEF FetchedEntitled, NoTool
  <2> QED
    BY <1>1, <1>2, <1>3, <2>1, <2>2, SinceClient
<1> QED
  BY <1>4, <1>5 DEF Connect

LEMMA SinceBegin ==
  ASSUME Control, Since, Begin
  PROVE  Since'
<1>1. UNCHANGED <<live, asked, acked, wire, working, phase>> /\ tool.step = "begin"
  BY DEF Begin, BeginRead, BeginWrite, BeginRefresh, BeginContext, server, history
<1>2. Answers' \subseteq Answers
  BY <1>1 DEF Answers
<1>3. phase = "active" /\ waiting = {} /\ tool.kind # "none"
  BY <1>1 DEF Control, Typed, TypeOK, Following, Phases
<1>4. tool \in [kind : Kinds \cup {"none"}, step : Steps, slice : Slices \cup {NotRead},
                before : Nat, wrote : Nat]
  BY DEF Control, Typed
<1>5. CASE BeginRead
  <2>1. tool' = NoTool /\ UNCHANGED <<batch, waiting>>
    BY <1>5 DEF BeginRead
  <2>2. FetchedEntitled'
    BY <2>1 DEF FetchedEntitled, NoTool
  <2> QED
    BY <1>1, <1>2, <1>3, <2>1, <2>2, SinceClient
<1>6. CASE BeginWrite \/ BeginRefresh \/ BeginContext
  <2>1. batch' = batch + 1
    BY <1>6 DEF BeginWrite, BeginRefresh, BeginContext, SendOne, SendAll
  <2>2. tool'.kind = tool.kind
    BY <1>4, <1>6 DEF BeginWrite, BeginRefresh, BeginContext
  <2>3. tool'.step = "sync" => tool.kind = "refresh" /\ waiting' = Slices
    <3>1. CASE BeginWrite
      BY <1>4, <3>1 DEF BeginWrite
    <3>2. CASE BeginRefresh
      BY <3>2 DEF BeginRefresh, SendAll
    <3>3. CASE BeginContext
      BY <1>4, <3>3 DEF BeginContext
    <3> QED
      BY <1>6, <3>1, <3>2, <3>3
  <2>4. FetchedEntitled'
    BY <2>2, <2>3 DEF FetchedEntitled
  <2> QED
    BY <1>1, <1>2, <1>3, <2>1, <2>2, <2>4, SinceClient
<1> QED
  BY <1>5, <1>6 DEF Begin

\* The answers of a refresh or of a write's are as new as the call asked for.
LEMMA SyncEntitled ==
  ASSUME Control, Since, NEW m, Deliver(m) \/ Chunk(m), Pending(m), m.ok, UNCHANGED server,
         tool.step = "sync"
  PROVE  /\ phase = "active"
         /\ \A s \in Slices \ (waiting \ {m.slice}) :
              Entitled([fetched EXCEPT ![m.slice] = m.version][s], s)
<1>1. /\ Following /\ TypeOK /\ Connected /\ m \in Answers /\ m.slice \in Slices
  BY Received DEF Pending
<1>2. phase = "active"
  BY <1>1 DEF Following, Connected
<1>3. Entitled(m.version, m.slice)
  BY <1>1, <1>2 DEF Since, AnswersEntitled, Awaited, Pending
<1>4. fetched \in [Slices -> Nat \cup {NotRead}]
  BY <1>1 DEF TypeOK
<1>5. ASSUME NEW s \in Slices \ (waiting \ {m.slice})
      PROVE  Entitled([fetched EXCEPT ![m.slice] = m.version][s], s)
  <2>1. CASE s = m.slice
    BY <1>3, <1>4, <2>1
  <2>2. CASE s # m.slice
    BY <1>4, <2>2 DEF Since, FetchedEntitled
  <2> QED
    BY <2>1, <2>2
<1> QED
  BY <1>2, <1>5

LEMMA SinceRead ==
  ASSUME Control, Versions, Since, DeliverRead
  PROVE  Since'
<1>1. PICK m \in Range(wire) :
        /\ Deliver(m) /\ Pending(m) /\ m.ok /\ waiting' = waiting \ {m.slice}
        /\ fetched' = [fetched EXCEPT ![m.slice] = m.version]
  BY DEF DeliverRead
<1>2. UNCHANGED server /\ UNCHANGED <<live, working, batch, asked, opened, phase, tool, acked>>
  BY DEF DeliverRead, server, history
<1>3. Answers' \subseteq Answers
  BY <1>1, <1>2, Received
<1>4. FetchedEntitled'
  <2> SUFFICES ASSUME tool.step = "sync"
               PROVE  \A s \in Slices \ waiting' : Entitled(fetched'[s], s)
    BY <1>2 DEF FetchedEntitled, Since, Entitled
  <2> QED
    BY <1>1, <1>2, SyncEntitled
<1> QED
  BY <1>1, <1>2, <1>3, <1>4, SinceClient DEF Since, AskedFirst

LEMMA SinceLastRead ==
  ASSUME Control, Versions, Since, DeliverLastRead
  PROVE  Since'
<1>0. Typed /\ TypeOK /\ Following
  BY DEF Control, Typed
<1>1. PICK m \in Range(wire), n \in DOMAIN wire :
        LET read == [fetched EXCEPT ![m.slice] = m.version]
            events == {i \in 2..n : wire[i].type = "event"}
        IN
        /\ DeliverChunk(m, n) /\ Pending(m) /\ m.ok /\ Syncing /\ waiting = {m.slice}
        /\ waiting' = {} /\ fetched' = read
        /\ ApplySnapshot(read, version + Cardinality(events))
        /\ overlap' = overlap \cup {wire[i].slice : i \in events}
        /\ raced' = overlap' /\ phase' = "active"
        /\ IF phase = "snapshot"
           THEN tool' = [tool EXCEPT !.step = "begin"] /\ UNCHANGED <<result, acked>>
           ELSE /\ Finish(TRUE, version')
                /\ acked' = IF tool.kind = "write"
                            THEN [acked EXCEPT ![tool.slice] = tool.wrote] ELSE acked
  BY Zenon DEF DeliverLastRead
<1>2. UNCHANGED server /\ UNCHANGED <<live, working, batch, asked, opened>>
  BY DEF DeliverLastRead, server
<1>3. Answers' \subseteq Answers /\ m.slice \in Slices
  BY <1>1, <1>2, Received DEF Chunk
<1>4. tool \in [kind : Kinds \cup {"none"}, step : Steps, slice : Slices \cup {NotRead},
                before : Nat, wrote : Nat]
  BY <1>0 DEF Typed
<1>6. CASE phase = "snapshot"
  <2>1. /\ phase' = "active" /\ waiting' = {} /\ acked' = acked
        /\ tool' = [tool EXCEPT !.step = "begin"]
    BY <1>1, <1>6
  <2>2. tool'.kind = tool.kind /\ tool'.step = "begin" /\ tool.kind # "none"
    BY <1>0, <1>4, <1>6, <2>1 DEF Following, TypeOK
  <2>3. FetchedEntitled'
    BY <2>2 DEF FetchedEntitled
  <2> QED
    BY <1>1, <1>2, <1>3, <2>1, <2>2, <2>3, SinceClient
<1>7. CASE phase # "snapshot"
  <2>1. /\ phase' = "active" /\ waiting' = {} /\ tool' = NoTool /\ tool.step = "sync"
        /\ acked' = IF tool.kind = "write" THEN [acked EXCEPT ![tool.slice] = tool.wrote] ELSE acked
    BY <1>1, <1>7 DEF Finish, Syncing
  <2>2. \A s \in Slices : Entitled(live[s], s)'
    <3>1. acked \in [Slices -> Nat]
      BY <1>0 DEF Typed
    <3>2. ASSUME NEW s \in Slices, tool.kind = "write", s = tool.slice PROVE tool.wrote <= live[s]
      <4>1. Recent(live[s], s)
        BY DEF Versions, Past
      <4>2. live[s] >= tool.wrote /\ live[s] \in Nat /\ tool.wrote \in Nat
        BY <1>0, <1>4, <2>1, <3>2, <4>1 DEF Recent, TypeOK
      <4> QED
        BY <4>2
    <3>3. \A s \in Slices : acked'[s] = IF tool.kind = "write" /\ s = tool.slice THEN tool.wrote
                                        ELSE acked[s]
      BY <2>1, <3>1
    <3> QED
      BY <1>2, <3>2, <3>3 DEF Since, AskedFirst, Entitled
  <2>3. AskedFirst'
    BY <1>2, <2>1, <2>2 DEF Since, AskedFirst
  <2> QED
    BY <2>1, <2>3 DEF Since, AnswersEntitled, FetchedEntitled, Awaited, NoTool
<1> QED
  BY <1>6, <1>7

LEMMA SinceReceive ==
  ASSUME Control, Versions, Since, Receive
  PROVE  Since'
<1>0. Typed /\ TypeOK /\ Following
  BY DEF Control, Typed
<1>1. \A m : Deliver(m) /\ UNCHANGED server => Answers' \subseteq Answers
  BY Received
<1>2. tool \in [kind : Kinds \cup {"none"}, step : Steps, slice : Slices \cup {NotRead},
                before : Nat, wrote : Nat]
  BY <1>0 DEF Typed
<1>3. ASSUME UNCHANGED <<live, asked, acked, opened, phase, batch, waiting, tool, fetched>>,
             Answers' \subseteq Answers
      PROVE  Since'
  <2>1. FetchedEntitled'
    BY <1>3 DEF Since, FetchedEntitled, Entitled
  <2> QED
    BY <1>3, <2>1, SinceClient DEF Since, AskedFirst
<1>4. CASE DeliverEvent
  <2>1. PICK m : Deliver(m)
    BY <1>4 DEF DeliverEvent
  <2>2. UNCHANGED server /\ UNCHANGED <<live, asked, acked, opened, phase, batch, waiting, tool, fetched>>
    BY <1>4 DEF DeliverEvent, server
  <2> QED
    BY <1>1, <1>3, <2>1, <2>2
<1>5. CASE DeliverUnawaited
  <2>1. PICK m : Deliver(m)
    BY <1>5 DEF DeliverUnawaited
  <2>2. UNCHANGED server /\ UNCHANGED <<live, asked, acked, opened, phase, batch, waiting, tool, fetched>>
    BY <1>5 DEF DeliverUnawaited, server, client, history
  <2> QED
    BY <1>1, <1>3, <2>1, <2>2
<1>6. CASE DeliverStartError
  BY <1>6, SinceDropped DEF DeliverStartError, history, Finish
<1>7. CASE DeliverCallError
  <2>1. PICK m : Deliver(m) /\ waiting' = {} /\ tool' = NoTool
    BY <1>7 DEF DeliverCallError, Finish
  <2>2. UNCHANGED server /\ UNCHANGED <<live, asked, acked, opened, phase, batch>>
    BY <1>7 DEF DeliverCallError, server, history
  <2>3. FetchedEntitled'
    BY <2>1 DEF FetchedEntitled, NoTool
  <2> QED
    BY <1>1, <2>1, <2>2, <2>3, SinceClient DEF Since, AskedFirst
<1>8. CASE DeliverSubscribed
  <2>1. PICK m : /\ Deliver(m) /\ phase = "subscribing"
                 /\ IF waiting = {m.slice} THEN phase' = "snapshot" /\ SendAll("get")
                    ELSE waiting' = waiting \ {m.slice} /\ UNCHANGED <<phase, batch>>
    BY <1>8 DEF DeliverSubscribed
  <2>2. UNCHANGED server /\ UNCHANGED <<live, asked, acked, opened, tool>>
    BY <1>8 DEF DeliverSubscribed, server
  <2>3. tool.step = "connect" /\ FetchedEntitled'
    BY <1>0, <2>1, <2>2 DEF Following, FetchedEntitled
  <2>4. batch' = batch + 1 \/ (batch' = batch /\ waiting' \subseteq waiting /\ phase' # "active")
    BY <2>1 DEF SendAll
  <2> QED
    BY <1>1, <2>1, <2>2, <2>3, <2>4, SinceClient DEF Since, AskedFirst
<1>9. CASE DeliverMutated
  <2>1. PICK m \in Range(wire) :
          /\ Deliver(m) /\ Pending(m) /\ m.ok /\ tool.step = "mutate" /\ SendAll("get")
          /\ tool' = [tool EXCEPT !.step = "sync", !.wrote = m.version]
    BY <1>9, Zenon DEF DeliverMutated
  <2>2. UNCHANGED server /\ UNCHANGED <<live, asked, acked, opened, phase>>
    BY <1>9 DEF DeliverMutated, server
  <2>3. /\ tool'.kind = tool.kind /\ tool'.slice = tool.slice /\ tool'.wrote = m.version
        /\ tool.kind = "write" /\ waiting' = Slices /\ batch' = batch + 1
    BY <1>0, <1>2, <2>1 DEF Following, SendAll
  <2>4. Entitled(m.version, m.slice)
    BY <1>0, <2>1, <2>2, Received DEF Since, AnswersEntitled, Awaited, Pending, Following, Connected
  <2>5. m.slice = tool.slice
    BY <1>0, <2>1 DEF Following, Pending
  <2>6. FetchedEntitled'
    BY <2>2, <2>3, <2>4, <2>5 DEF FetchedEntitled, Entitled
  <2> QED
    BY <1>1, <2>1, <2>2, <2>3, <2>6, SinceClient DEF Since, AskedFirst
<1>10. CASE DeliverContext
  <2>1. PICK m : Deliver(m) /\ waiting' = {} /\ tool' = NoTool
    BY <1>10 DEF DeliverContext, Finish
  <2>2. UNCHANGED server /\ UNCHANGED <<live, asked, acked, opened, phase, batch>>
    BY <1>10 DEF DeliverContext, server, history
  <2>3. FetchedEntitled'
    BY <2>1 DEF FetchedEntitled, NoTool
  <2> QED
    BY <1>1, <2>1, <2>2, <2>3, SinceClient DEF Since, AskedFirst
<1> QED
  BY <1>4, <1>5, <1>6, <1>7, <1>8, <1>9, <1>10, SinceRead, SinceLastRead DEF Receive

LEMMA SinceStep ==
  ASSUME Control, Versions, Since, [Next]_vars
  PROVE  Since'
<1>1. CASE UNCHANGED vars
  <2>1. UNCHANGED <<live, wire, working, batch, waiting, opened, asked, acked, tool, fetched, phase>>
    BY <1>1 DEF vars, server, client, history
  <2>2. FetchedEntitled' /\ Answers' \subseteq Answers
    BY <2>1 DEF Since, FetchedEntitled, Entitled, Answers
  <2> QED
    BY <2>1, <2>2, SinceClient DEF Since, AskedFirst
<1> QED
  BY <1>1, SinceWorker, SinceEnvironment, SinceConnect, SinceBegin, SinceReceive DEF Next

LEMMA ViewInit == Init => Behind /\ Since
<1> SUFFICES ASSUME Init PROVE Behind /\ Since
  OBVIOUS
<1>1. /\ mirror = Unread /\ fetched = Unread /\ tool = NoTool /\ phase = "idle"
      /\ live = [s \in Slices |-> 0] /\ asked = live /\ acked = live
  BY DEF Init
<1>2. Behind
  BY <1>1 DEF Behind, Reached, Unread
<1>3. Since
  BY <1>1 DEF Since, AskedFirst, AnswersEntitled, FetchedEntitled, Entitled, NoTool
<1> QED
  BY <1>2, <1>3

-----------------------------------------------------------------------------
(* The session implements the view that its tools are promised.           *)

Promised == Control /\ Versions /\ Behind /\ Since

\* The session shows its mirror once it is active, and serves a call until it ends.
LEMMA ShownFacts ==
  ASSUME Promised
  PROVE  /\ Asking = View!NoCall <=> tool.kind = "none"
         /\ View!Opened <=> phase = "active"
         /\ phase # "active" => Shown = View!Nothing
         /\ phase = "active" => Shown = mirror
         /\ Asking.kind = tool.kind /\ Asking.slice = tool.slice
<1>1. Asking = View!NoCall <=> tool.kind = "none"
  BY DEF Promised, Since, AskedFirst, Asking, View!NoCall, NoTool
<1>2. phase # "active" => Shown = View!Nothing
  BY DEF Shown, View!Nothing, Unread
<1>3. phase = "active" => Shown = mirror
  BY DEF Shown
<1>4. phase = "active" => mirror # View!Nothing
  <2>1. PICK s \in Slices : TRUE
    BY SessionAssumption
  <2>2. phase = "active" => mirror[s] \in Nat
    BY DEF Promised, Versions, Fresh, MirrorRecent
  <2> QED
    BY <2>1, <2>2, SessionAssumption DEF View!Nothing
<1> QED
  BY <1>1, <1>2, <1>3, <1>4 DEF Asking, View!Opened

\* A step that the tools see nothing of.
LEMMA Unseen ==
  ASSUME UNCHANGED <<live, tool, result, asked, acked>>,
         \/ UNCHANGED <<phase, mirror>>
         \/ phase # "active" /\ phase' # "active"
  PROVE  UNCHANGED View!viewVars
BY DEF View!viewVars, Shown, Asking, Answered

\* A step that ends a call.
LEMMA Answering ==
  ASSUME Promised, tool.kind # "none", NEW ok \in BOOLEAN, NEW after, Finish(ok, after)
  PROVE  View!Answer(ok)
BY ShownFacts DEF View!Answer, View!NoCall, Finish, Asking, Answered, NoTool

LEMMA ThrowSeen ==
  ASSUME Promised, tool.kind # "none", Finish(FALSE, 0), UNCHANGED <<live, asked, acked>>,
         phase' = "idle" \/ UNCHANGED <<phase, mirror>>
  PROVE  View!Throw
<1>1. View!Answer(FALSE)
  BY Answering
<1>2. Shown' \in {Shown, View!Nothing}
  BY DEF Shown, Unread, View!Nothing
<1> QED
  BY <1>1, <1>2 DEF View!Throw

LEMMA ChangeSeen ==
  ASSUME NEW s \in Slices, Change(s), UNCHANGED <<client, history>>
  PROVE  View!Change(s)
BY DEF Change, View!Change, client, history, Shown, Asking, Answered, Unread

\* A view that is opened or refreshed is all of this call.
LEMMA SnapshotIsCurrent ==
  ASSUME Promised, (Versions /\ Behind)', UNCHANGED live, phase' = "active",
         \A s \in Slices : asked[s] <= mirror'[s] /\ acked[s] <= mirror'[s],
         mirror' \in [Slices -> Nat \cup {NotRead}]
  PROVE  View!CurrentView(Shown')
<1>1. Shown' = mirror'
  BY DEF Shown
<1>2. ASSUME NEW s \in Slices PROVE mirror'[s] \in Nat /\ mirror'[s] <= live[s]
  BY SessionAssumption DEF Versions, Fresh, MirrorRecent, Behind, Reached
<1>3. mirror' \in [Slices -> Nat]
  BY <1>2
<1> QED
  BY <1>1, <1>2, <1>3 DEF View!CurrentView, View!Current

LEMMA ServerSeen ==
  ASSUME Promised, Worker
  PROVE  [View!Next]_View!viewVars
<1>1. UNCHANGED <<client, history>>
  BY DEF Worker, WorkerSubscribe, WorkerGet, WorkerMutate, WorkerSend
<1>2. ASSUME UNCHANGED live PROVE UNCHANGED View!viewVars
  BY <1>1, <1>2, Unseen DEF client, history
<1>3. CASE WorkerMutate
  <2>1. PICK r \in Range(requests) : Change(r.slice) \/ UNCHANGED live
    BY <1>3 DEF WorkerMutate
  <2>2. r.slice \in Slices
    BY RangeTypes DEF Promised, Control, Requests
  <2>3. CASE Change(r.slice)
    <3>1. View!Change(r.slice)
      BY <1>1, <2>2, <2>3, ChangeSeen
    <3> QED
      BY <2>2, <3>1 DEF View!Next
  <2> QED
    BY <1>2, <2>1, <2>3
<1>4. CASE WorkerSubscribe \/ WorkerGet \/ WorkerSend
  BY <1>2, <1>4 DEF WorkerSubscribe, WorkerGet, WorkerSend
<1> QED
  BY <1>3, <1>4 DEF Worker

LEMMA EnvironmentSeen ==
  ASSUME Promised, Environment
  PROVE  [View!Next]_View!viewVars
<1>1. CASE \E s \in Slices : UserEdit(s) \/ LateApply(s)
  <2>1. PICK s \in Slices : Change(s) /\ UNCHANGED <<client, history>>
    BY <1>1 DEF UserEdit, LateApply
  <2>2. View!Change(s)
    BY <2>1, ChangeSeen
  <2> QED
    BY <2>2 DEF View!Next
<1>2. ASSUME NEW k \in Kinds, NEW s \in Target(k), Call(k, s) PROVE View!Next
  <2>1. s \in Slices \cup {NotRead} /\ k \in {"read", "write", "refresh", "context"}
    BY SessionAssumption DEF Target, Kinds
  <2>2. Asking = View!NoCall
    BY <1>2, ShownFacts DEF Call
  <2>3. Shown' = Shown
    BY <1>2 DEF Call, Shown, Unread
  <2>4. Asking' = [kind |-> k, slice |-> s]
    BY <1>2 DEF Call, Asking
  <2>5. asked' = live /\ UNCHANGED <<live, result, acked>>
    BY <1>2 DEF Call, server
  <2>6. View!Ask(k, s)
    BY <2>2, <2>3, <2>4, <2>5 DEF View!Ask, Answered
  <2> QED
    BY <2>1, <2>6 DEF View!Next
<1>3. CASE LinkLost
  <2>1. UNCHANGED <<live, asked, acked>> /\ phase' = "idle"
    BY <1>3 DEF LinkLost, history, DropConnection
  <2>2. CASE tool.kind = "none"
    <3>1. UNCHANGED <<tool, result>>
      BY <1>3, <2>2 DEF LinkLost
    <3>2. Shown' = View!Nothing
      BY <2>1 DEF Shown, Unread, View!Nothing
    <3>3. View!Lose
      BY <2>1, <2>2, <3>1, <3>2, ShownFacts DEF View!Lose, Asking, Answered
    <3> QED
      BY <3>3 DEF View!Next
  <2>3. CASE tool.kind # "none"
    <3>1. View!Throw
      BY <1>3, <2>1, <2>3, ThrowSeen DEF LinkLost
    <3> QED
      BY <3>1 DEF View!Next
  <2> QED
    BY <2>2, <2>3
<1> QED
  BY <1>1, <1>2, <1>3 DEF Environment

LEMMA ConnectSeen ==
  ASSUME Promised, Connect
  PROVE  [View!Next]_View!viewVars
<1>1. UNCHANGED <<live, asked, acked>> /\ phase = "connecting"
  BY DEF Connect, ConnectOk, ConnectFails, server, history
<1>2. CASE ConnectOk
  BY <1>1, <1>2, Unseen DEF ConnectOk
<1>3. CASE ConnectFails
  <2>1. tool.kind # "none"
    BY <1>1 DEF Promised, Control, Typed, TypeOK
  <2>2. View!Throw
    BY <1>1, <1>3, <2>1, ThrowSeen DEF ConnectFails
  <2> QED
    BY <2>2 DEF View!Next
<1> QED
  BY <1>2, <1>3 DEF Connect

LEMMA BeginSeen ==
  ASSUME Promised, Begin
  PROVE  [View!Next]_View!viewVars
<1>1. UNCHANGED <<live, asked, acked, mirror, phase>> /\ tool.step = "begin"
  BY DEF Begin, BeginRead, BeginWrite, BeginRefresh, BeginContext, server, history
<1>2. phase = "active" /\ tool.kind # "none"
  BY <1>1 DEF Promised, Control, Typed, TypeOK, Following, Phases
<1>3. CASE BeginRead
  <2>2. View!Answer(TRUE) /\ tool.kind = "read"
    BY <1>2, <1>3, ShownFacts DEF BeginRead, View!Answer, View!NoCall, Asking, Answered, NoTool
  <2>3. View!Read
    BY <1>1, <1>2, <2>2, ShownFacts DEF View!Read, Shown
  <2> QED
    BY <2>3 DEF View!Next
<1>4. CASE BeginWrite \/ BeginRefresh \/ BeginContext
  <2>1. result' = result /\ tool'.kind = tool.kind /\ tool'.slice = tool.slice
    <3>1. tool \in [kind : Kinds \cup {"none"}, step : Steps, slice : Slices \cup {NotRead},
                    before : Nat, wrote : Nat]
      BY DEF Promised, Control, Typed
    <3> QED
      BY <1>4, <3>1 DEF BeginWrite, BeginRefresh, BeginContext
  <2> QED
    BY <1>1, <2>1 DEF View!viewVars, Shown, Asking, Answered
<1> QED
  BY <1>3, <1>4 DEF Begin

\* An event carries a newer version of its slice to a view that is open.
LEMMA EventSeen ==
  ASSUME Promised, DeliverEvent
  PROVE  [View!Next]_View!viewVars
<1>1. PICK m \in Range(wire) : Deliver(m) /\ m.type = "event"
                               /\ mirror' = [mirror EXCEPT ![m.slice] = m.version]
  BY DEF DeliverEvent
<1>2. UNCHANGED server /\ UNCHANGED <<live, phase, tool, result, asked, acked>>
  BY DEF DeliverEvent, server
<1>3. CASE phase # "active"
  BY <1>2, <1>3, Unseen
<1>4. CASE phase = "active"
  <2>1. m.slice \in Slices /\ m.version \in Nat /\ mirror \in [Slices -> Nat \cup {NotRead}]
    BY <1>1, <1>2, Received DEF Promised, TypeOK
  <2>2. m.version <= live[m.slice]
    BY <1>1 DEF Promised, Versions, Past
  <2>3. mirror[m.slice] \in Nat
    BY <1>4, <2>1 DEF Promised, Versions, Fresh, MirrorRecent
  <2>4. mirror[m.slice] < m.version
    BY <1>1, <2>1, <2>3, SessionAssumption DEF Promised, Behind, Reached
  <2>5. Shown = mirror /\ Shown' = mirror'
    BY <1>2, <1>4 DEF Shown
  <2>6. Shown'[m.slice] = m.version
    BY <1>1, <2>1, <2>5
  <2>7. View!Told(m.slice)
    BY <1>1, <1>2, <1>4, <2>1, <2>2, <2>4, <2>5, <2>6, ShownFacts DEF View!Told, Asking, Answered
  <2> QED
    BY <2>1, <2>7 DEF View!Next
<1> QED
  BY <1>3, <1>4

\* The last answer of a snapshot opens the view, or ends the call with all that the call
\* was entitled to.
LEMMA LastReadSeen ==
  ASSUME Promised, (Versions /\ Behind)', DeliverLastRead
  PROVE  [View!Next]_View!viewVars
<1>0. Typed /\ TypeOK /\ Following
  BY DEF Promised, Control, Typed
<1>1. PICK m \in Range(wire), n \in DOMAIN wire :
        LET read == [fetched EXCEPT ![m.slice] = m.version]
            events == {i \in 2..n : wire[i].type = "event"}
        IN
        /\ DeliverChunk(m, n) /\ Pending(m) /\ m.ok /\ Syncing /\ waiting = {m.slice}
        /\ waiting' = {} /\ fetched' = read
        /\ ApplySnapshot(read, version + Cardinality(events))
        /\ overlap' = overlap \cup {wire[i].slice : i \in events}
        /\ raced' = overlap' /\ phase' = "active"
        /\ IF phase = "snapshot"
           THEN tool' = [tool EXCEPT !.step = "begin"] /\ UNCHANGED <<result, acked>>
           ELSE /\ Finish(TRUE, version')
                /\ acked' = IF tool.kind = "write"
                            THEN [acked EXCEPT ![tool.slice] = tool.wrote] ELSE acked
  BY Zenon DEF DeliverLastRead
<1>2. UNCHANGED server /\ UNCHANGED <<live, asked, opened>>
  BY DEF DeliverLastRead, server
<1>3. m.slice \in Slices /\ m.version \in Nat
  BY <1>1, <1>2, Received DEF Promised, Chunk
<1>4. fetched' \in [Slices -> Nat \cup {NotRead}]
  BY <1>0, <1>1, <1>3 DEF TypeOK
<1>5. tool \in [kind : Kinds \cup {"none"}, step : Steps, slice : Slices \cup {NotRead},
                before : Nat, wrote : Nat]
  BY <1>0 DEF Typed
<1>7. CASE phase = "snapshot"
  <2>1. /\ phase' = "active" /\ mirror' = fetched' /\ UNCHANGED <<result, acked>>
        /\ tool'.kind = tool.kind /\ tool'.slice = tool.slice
    BY <1>1, <1>5, <1>7 DEF ApplySnapshot
  <2>2. ASSUME NEW s \in Slices PROVE asked[s] <= mirror'[s] /\ acked[s] <= mirror'[s]
    <3>1. mirror'[s] \in Nat /\ opened[s] <= mirror'[s] /\ acked[s] <= mirror'[s]
      BY <1>2, <2>1 DEF Versions, Fresh, MirrorRecent
    <3>2. asked[s] \in Nat /\ opened[s] \in Nat /\ asked[s] <= opened[s]
      BY <1>0, <1>7 DEF Promised, Since, AskedFirst, Typed
    <3> QED
      BY <3>1, <3>2
  <2>3. View!CurrentView(Shown')
    BY <1>2, <1>4, <2>1, <2>2, SnapshotIsCurrent
  <2>4. tool.kind # "none"
    BY <1>0, <1>7 DEF TypeOK
  <2>5. View!Open
    BY <1>2, <1>7, <2>1, <2>3, <2>4, ShownFacts DEF View!Open, Asking, Answered
  <2> QED
    BY <2>5 DEF View!Next
<1>8. CASE phase # "snapshot"
  <2>1. /\ phase' = "active" /\ mirror' = fetched' /\ waiting' = {} /\ tool.step = "sync"
        /\ Finish(TRUE, version')
        /\ acked' = IF tool.kind = "write" THEN [acked EXCEPT ![tool.slice] = tool.wrote] ELSE acked
    BY <1>1, <1>8 DEF ApplySnapshot, Syncing
  <2>2. phase = "active" /\ \A s \in Slices : Entitled(mirror'[s], s)
    BY <1>1, <1>2, <2>1, SyncEntitled DEF Promised, Chunk
  <2>3. View!CurrentView(Shown')
    BY <1>2, <1>4, <2>1, <2>2, SnapshotIsCurrent DEF Entitled
  <2>4. tool.kind \in {"write", "refresh"}
    BY <1>0, <2>1 DEF Following
  <2>5. View!Answer(TRUE)
    BY <2>1, <2>4, Answering
  <2>6. CASE tool.kind = "refresh"
    <3>1. View!Refresh
      BY <1>2, <2>1, <2>2, <2>3, <2>5, <2>6, ShownFacts DEF View!Refresh
    <3> QED
      BY <3>1 DEF View!Next
  <2>7. CASE tool.kind = "write"
    <3>1. tool.slice \in Slices /\ acked \in [Slices -> Nat] /\ tool.wrote \in Nat
      BY <1>0, <1>5, <2>7 DEF Following, Typed
    <3>2. acked' = [acked EXCEPT ![tool.slice] = tool.wrote] /\ acked'[tool.slice] = tool.wrote
      BY <2>1, <2>7, <3>1
    <3>3. Entitled(tool.wrote, tool.slice)
      BY <2>1, <2>7 DEF Promised, Since, FetchedEntitled
    <3>4. tool.wrote <= live[tool.slice]
      <4>1. Recent(live[tool.slice], tool.slice) /\ live[tool.slice] \in Nat
        BY <1>0, <3>1 DEF Promised, Versions, Past, TypeOK
      <4> QED
        BY <2>1, <2>7, <3>1, <4>1 DEF Recent
    <3>5. tool.wrote <= mirror'[tool.slice] /\ Shown' = mirror'
      BY <2>1, <3>1, <3>2 DEF Versions, Fresh, MirrorRecent, Shown
    <3>6. View!Write
      BY <1>2, <2>2, <2>3, <2>5, <2>7, <3>1, <3>2, <3>3, <3>4, <3>5, ShownFacts
      DEF View!Write, View!Current, Entitled
    <3> QED
      BY <3>6 DEF View!Next
  <2> QED
    BY <2>4, <2>6, <2>7
<1> QED
  BY <1>7, <1>8

LEMMA ContextSeen ==
  ASSUME Promised, DeliverContext
  PROVE  [View!Next]_View!viewVars
<1>0. Typed /\ TypeOK /\ Following
  BY DEF Promised, Control, Typed
<1>1. PICK m \in Range(wire) :
        /\ Deliver(m) /\ Pending(m) /\ m.ok /\ tool.step = "select"
        /\ mirror' = [mirror EXCEPT ![m.slice] = m.version] /\ Finish(TRUE, version')
  BY Zenon DEF DeliverContext
<1>2. UNCHANGED server /\ UNCHANGED <<live, phase, asked, acked>>
  BY DEF DeliverContext, server, history
<1>3. /\ m.slice \in Slices /\ m.version \in Nat /\ m \in Answers /\ Connected
      /\ mirror \in [Slices -> Nat \cup {NotRead}]
  BY <1>0, <1>1, <1>2, Received DEF Promised, Pending, TypeOK
<1>4. phase = "active" /\ m.slice = tool.slice /\ tool.kind = "context"
  BY <1>0, <1>1, <1>3 DEF Following, Connected, Pending
<1>5. Entitled(m.version, m.slice)
  BY <1>1, <1>3, <1>4 DEF Promised, Since, AnswersEntitled, Awaited, Pending
<1>6. m.version <= live[m.slice]
  BY <1>1 DEF Promised, Versions, Past
<1>7. Shown = mirror /\ Shown' = mirror' /\ Shown'[m.slice] = m.version
  BY <1>1, <1>2, <1>3, <1>4 DEF Shown
<1>8. View!Answer(TRUE)
  BY <1>1, <1>4, Answering
<1>9. View!Look
  BY <1>1, <1>2, <1>3, <1>4, <1>5, <1>6, <1>7, <1>8, ShownFacts DEF View!Look, View!Current, Entitled
<1> QED
  BY <1>9 DEF View!Next

LEMMA ReceiveSeen ==
  ASSUME Promised, (Versions /\ Behind)', Receive
  PROVE  [View!Next]_View!viewVars
<1>0. Typed /\ TypeOK /\ Following
  BY DEF Promised, Control, Typed
<1>1. CASE DeliverUnawaited
  BY <1>1, Unseen DEF DeliverUnawaited, server, client, history
<1>2. CASE DeliverSubscribed
  <2>1. phase = "subscribing" /\ phase' \in {phase, "snapshot"}
    BY <1>2 DEF DeliverSubscribed
  <2>2. UNCHANGED <<live, tool, result, asked, acked>>
    BY <1>2 DEF DeliverSubscribed, server
  <2> QED
    BY <2>1, <2>2, Unseen
<1>3. CASE DeliverMutated
  <2>1. UNCHANGED <<live, phase, mirror, result, asked, acked>>
    BY <1>3 DEF DeliverMutated, server
  <2>2. tool'.kind = tool.kind /\ tool'.slice = tool.slice
    <3>1. tool \in [kind : Kinds \cup {"none"}, step : Steps, slice : Slices \cup {NotRead},
                    before : Nat, wrote : Nat]
      BY <1>0 DEF Typed
    <3> QED
      BY <1>3, <3>1 DEF DeliverMutated
  <2> QED
    BY <2>1, <2>2 DEF View!viewVars, Shown, Asking, Answered
<1>4. CASE DeliverStartError
  <2>1. /\ phase \in {"subscribing", "snapshot"} /\ phase' = "idle" /\ Finish(FALSE, 0)
        /\ UNCHANGED <<live, asked, acked>>
    BY <1>4 DEF DeliverStartError, DropConnection, history
  <2>2. tool.kind # "none"
    BY <1>0, <2>1 DEF TypeOK
  <2>3. View!Throw
    BY <2>1, <2>2, ThrowSeen
  <2> QED
    BY <2>3 DEF View!Next
<1>5. CASE DeliverCallError
  <2>1. PICK m \in Range(wire) : Pending(m) /\ Finish(FALSE, 0)
    BY <1>5 DEF DeliverCallError
  <2>2. UNCHANGED <<live, phase, mirror, asked, acked>>
    BY <1>5 DEF DeliverCallError, server, history
  <2>3. tool.kind # "none"
    BY <1>0, <2>1 DEF TypeOK, Following, Pending
  <2>4. View!Throw
    BY <2>1, <2>2, <2>3, ThrowSeen
  <2> QED
    BY <2>4 DEF View!Next
<1>6. CASE DeliverRead
  BY <1>6, Unseen DEF DeliverRead, server, history
<1> QED
  BY <1>1, <1>2, <1>3, <1>4, <1>5, <1>6, EventSeen, LastReadSeen, ContextSeen DEF Receive

\* What a tool is shown is never ahead of Live, and never behind what Live was when it
\* was called, nor behind what a write before it was told: with its messages, snapshots,
\* failures and reconnections the session implements the view of SetView.
THEOREM SessionImplementsView == Spec => ImplementsView
<1>1. Init => View!Init
  BY DEF Init, View!Init, Shown, Asking, Answered, Unread, NoTool, View!Nothing, View!NoCall
<1>2. Init => Promised
  BY ControlInit, VersionsInit, ViewInit DEF Promised
<1>3. Promised /\ [Next]_vars => Promised'
  BY ControlStep, VersionsStep, BehindStep, SinceStep DEF Promised
<1>4. Promised /\ Promised' /\ [Next]_vars => [View!Next]_View!viewVars
  <2> SUFFICES ASSUME Promised, Promised', [Next]_vars PROVE [View!Next]_View!viewVars
    OBVIOUS
  <2>1. (Versions /\ Behind)'
    BY DEF Promised
  <2>2. CASE UNCHANGED vars
    BY <2>2, Unseen DEF vars, server, client, history
  <2> QED
    BY <2>1, <2>2, ServerSeen, EnvironmentSeen, ConnectSeen, BeginSeen, ReceiveSeen DEF Next
<1> QED
  BY <1>1, <1>2, <1>3, <1>4, PTL DEF Spec, ImplementsView, View!Spec
=============================================================================
