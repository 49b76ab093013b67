------------------------------ MODULE TaskQueue ------------------------------
(***************************************************************************)
(* The path of a mutation inside the Remote Script: a worker thread (one   *)
(* per connected client) takes a request off its socket, process_request   *)
(* hands it to MainThreadTaskQueue.submit, which queues it, asks Live to   *)
(* call drain back on its main thread, and waits five seconds for the      *)
(* answer.  Every step below is one that the interpreter can interleave    *)
(* with the steps of the other threads; the clock of the five seconds is   *)
(* abstracted to "may have elapsed".                                       *)
(*                                                                         *)
(* The shortcut of submit for a caller that is the main thread (lines      *)
(* 19-20) is taken by unit tests only: in the running script every request *)
(* comes from a worker.                                                    *)
(***************************************************************************)
EXTENDS Naturals, Sequences, Functions

CONSTANTS
  Workers,      \* the worker threads, one per client connection
  Main,         \* Live's main thread
  MaxRequests,  \* bound: how many mutation requests the client of each worker sends
  Scheduling,   \* what schedule_message may do: "defer" the callback to the
                \* main thread; "inline": raise, or be the class's own stub,
                \* and the drain runs on the calling worker
  NoTask

Task == UNION {{w} \X (1..MaxRequests[w]) : w \in Workers}

ASSUME ThreadAssumption ==
  /\ Main \notin Workers
  /\ MaxRequests \in [Workers -> Nat]
  /\ Scheduling \subseteq {"defer", "inline"}
  /\ NoTask \notin Task

Threads == Workers \cup {Main}

VARIABLES
  pc,         \* where each thread is
  sent,       \* how many requests each client has sent
  queue,      \* MainThreadTaskQueue._queue
  draining,   \* MainThreadTaskQueue._draining
  scheduled,  \* callbacks Live has accepted and not called yet
  current,    \* drain's local (handler, args, response_queue), per thread
  response,   \* what is in the response_queue of each request
  replied,    \* what the client of each request was told
  submitted,  \* history: the requests in the order they were queued
  executed    \* history: the requests in the order their handlers ran

vars == <<pc, sent, queue, draining, scheduled, current, response, replied,
          submitted, executed>>

DrainPoints == {"check", "enter", "take", "run", "leave"}

TypeOK ==
  /\ pc \in [Threads -> {"recv", "schedule", "wait", "idle"} \cup DrainPoints]
  /\ sent \in [Workers -> Nat] /\ \A w \in Workers : sent[w] <= MaxRequests[w]
  /\ queue \in Seq(Task)
  /\ draining \in BOOLEAN
  /\ scheduled \in Nat
  /\ current \in [Threads -> Task \cup {NoTask}]
  /\ response \in [Task -> {"none", "ok", "error"}]
  /\ replied \in [Task -> {"none", "ok", "error", "timeout"}]
  /\ submitted \in Seq(Task)
  /\ executed \in Seq(Task)

Init ==
  /\ pc = [t \in Threads |-> IF t = Main THEN "idle" ELSE "recv"]
  /\ sent = [w \in Workers |-> 0]
  /\ queue = <<>>
  /\ draining = FALSE
  /\ scheduled = 0
  /\ current = [t \in Threads |-> NoTask]
  /\ response = [t \in Task |-> "none"]
  /\ replied = [t \in Task |-> "none"]
  /\ submitted = <<>>
  /\ executed = <<>>

Goto(t, label) == pc' = [pc EXCEPT ![t] = label]

\* The request a worker is serving: a worker serves its client's requests in
\* turn, so this is the last one sent.
Own(w) == <<w, sent[w]>>

-----------------------------------------------------------------------------
(* submit, on a worker thread.                                             *)

\* A request arrives and submit puts (handler, args, response_queue).
Submit(w) ==
  /\ pc[w] = "recv"
  /\ sent[w] < MaxRequests[w]
  /\ sent' = [sent EXCEPT ![w] = @ + 1]
  /\ queue' = Append(queue, <<w, sent[w] + 1>>)
  /\ submitted' = Append(submitted, <<w, sent[w] + 1>>)
  /\ Goto(w, "schedule")
  /\ UNCHANGED <<draining, scheduled, current, response, replied, executed>>

\* Mutant of Defer: no new callback while a drain is running, which is taken to
\* be about to see the task anyway.
DeferUnlessDraining(w) ==
  /\ pc[w] = "schedule"
  /\ "defer" \in Scheduling
  /\ scheduled' = IF draining THEN scheduled ELSE scheduled + 1
  /\ Goto(w, "wait")
  /\ UNCHANGED <<sent, queue, draining, current, response, replied, submitted,
                 executed>>

\* schedule_message(0, drain) accepts the callback.
Defer(w) ==
  /\ pc[w] = "schedule"
  /\ "defer" \in Scheduling
  /\ scheduled' = scheduled + 1
  /\ Goto(w, "wait")
  /\ UNCHANGED <<sent, queue, draining, current, response, replied, submitted,
                 executed>>

\* schedule_message raises, or calls back at once: the worker itself drains.
DrainInline(w) ==
  /\ pc[w] = "schedule"
  /\ "inline" \in Scheduling
  /\ Goto(w, "check")
  /\ UNCHANGED <<sent, queue, draining, scheduled, current, response, replied,
                 submitted, executed>>

\* Mutant of Return: one response_queue per worker instead of one per request,
\* so that the answer to an earlier, timed-out request may be read.
ReturnFromSharedQueue(w) ==
  /\ pc[w] = "wait"
  /\ \E n \in 1..sent[w] :
        /\ response[<<w, n>>] # "none"
        /\ n = sent[w] \/ replied[<<w, n>>] = "timeout"
        /\ replied' = [replied EXCEPT ![Own(w)] = response[<<w, n>>]]
  /\ Goto(w, "recv")
  /\ UNCHANGED <<sent, queue, draining, scheduled, current, response, submitted,
                 executed>>

\* response_queue.get returns; the handler's result or error is the reply.
Return(w) ==
  /\ pc[w] = "wait"
  /\ response[Own(w)] # "none"
  /\ replied' = [replied EXCEPT ![Own(w)] = response[Own(w)]]
  /\ Goto(w, "recv")
  /\ UNCHANGED <<sent, queue, draining, scheduled, current, response, submitted,
                 executed>>

\* Mutant of Timeout: the worker gives up waiting and calls the handler itself.
TimeoutRunsHere(w) ==
  /\ pc[w] = "wait"
  /\ response[Own(w)] = "none"
  /\ executed' = Append(executed, Own(w))
  /\ replied' = [replied EXCEPT ![Own(w)] = "ok"]
  /\ Goto(w, "recv")
  /\ UNCHANGED <<sent, queue, draining, scheduled, current, response, submitted>>

\* Mutant of Timeout: response_queue.get() with no timeout.
NoTimeout(w) == pc[w] = "timed out" /\ UNCHANGED vars

\* response_queue.get raises Empty after five seconds; process_request turns
\* it into a "runtime_error" reply.  The task stays where it is.
Timeout(w) ==
  /\ pc[w] = "wait"
  /\ response[Own(w)] = "none"
  /\ replied' = [replied EXCEPT ![Own(w)] = "timeout"]
  /\ Goto(w, "recv")
  /\ UNCHANGED <<sent, queue, draining, scheduled, current, response, submitted,
                 executed>>

-----------------------------------------------------------------------------
(* drain, on the main thread or inline on a worker.                        *)

\* Mutant of RunCallback: the callback is called without having been accepted.
RunCallbackUnasked ==
  /\ pc[Main] = "idle"
  /\ scheduled' = scheduled - 1
  /\ Goto(Main, "check")
  /\ UNCHANGED <<sent, queue, draining, current, response, replied, submitted,
                 executed>>

\* Live calls a scheduled callback when its main thread is free.
RunCallback ==
  /\ pc[Main] = "idle"
  /\ scheduled > 0
  /\ scheduled' = scheduled - 1
  /\ Goto(Main, "check")
  /\ UNCHANGED <<sent, queue, draining, current, response, replied, submitted,
                 executed>>

\* Where a thread goes after drain.
AfterDrain(t) == IF t = Main THEN "idle" ELSE "wait"

\* if self._draining: return
CheckDraining(t) ==
  /\ pc[t] = "check"
  /\ Goto(t, IF draining THEN AfterDrain(t) ELSE "enter")
  /\ UNCHANGED <<sent, queue, draining, scheduled, current, response, replied,
                 submitted, executed>>

\* self._draining = True
EnterDrain(t) ==
  /\ pc[t] = "enter"
  /\ draining' = TRUE
  /\ Goto(t, "take")
  /\ UNCHANGED <<sent, queue, scheduled, current, response, replied, submitted,
                 executed>>

\* Mutant of Take: a LIFO queue.
TakeNewest(t) ==
  /\ pc[t] = "take"
  /\ queue # <<>>
  /\ current' = [current EXCEPT ![t] = queue[Len(queue)]]
  /\ queue' = SubSeq(queue, 1, Len(queue) - 1)
  /\ Goto(t, "run")
  /\ UNCHANGED <<sent, draining, scheduled, response, replied, submitted,
                 executed>>

\* Mutant of Take: the task is looked at, and removed by nobody.
TakeAndLeave(t) ==
  /\ pc[t] = "take"
  /\ queue # <<>>
  /\ Len(executed) < 4
  /\ current' = [current EXCEPT ![t] = Head(queue)]
  /\ Goto(t, "run")
  /\ UNCHANGED <<sent, queue, draining, scheduled, response, replied, submitted,
                 executed>>

\* Mutant of Take: the drain swaps the whole queue for an empty one, and serves
\* only the first of the tasks it took away.
TakeAndClear(t) ==
  /\ pc[t] = "take"
  /\ queue # <<>>
  /\ current' = [current EXCEPT ![t] = Head(queue)]
  /\ queue' = <<>>
  /\ Goto(t, "run")
  /\ UNCHANGED <<sent, draining, scheduled, response, replied, submitted,
                 executed>>

\* self._queue.get_nowait() returns a task.
Take(t) ==
  /\ pc[t] = "take"
  /\ queue # <<>>
  /\ current' = [current EXCEPT ![t] = Head(queue)]
  /\ queue' = Tail(queue)
  /\ Goto(t, "run")
  /\ UNCHANGED <<sent, draining, scheduled, response, replied, submitted,
                 executed>>

\* The handler runs to its end, and its result or its error is put in the
\* response_queue; the local variables are not used again.
RunHandler(t) ==
  /\ pc[t] = "run"
  /\ executed' = Append(executed, current[t])
  /\ \E outcome \in {"ok", "error"} :
        response' = [response EXCEPT ![current[t]] = outcome]
  /\ current' = [current EXCEPT ![t] = NoTask]
  /\ Goto(t, "take")
  /\ UNCHANGED <<sent, queue, draining, scheduled, replied, submitted>>

\* get_nowait raises Empty: break.
FindEmpty(t) ==
  /\ pc[t] = "take"
  /\ queue = <<>>
  /\ Goto(t, "leave")
  /\ UNCHANGED <<sent, queue, draining, scheduled, current, response, replied,
                 submitted, executed>>

\* Mutant of LeaveDrain: no finally.
LeaveDrainSet(t) ==
  /\ pc[t] = "leave"
  /\ Goto(t, AfterDrain(t))
  /\ UNCHANGED <<sent, queue, draining, scheduled, current, response, replied,
                 submitted, executed>>

\* finally: self._draining = False
LeaveDrain(t) ==
  /\ pc[t] = "leave"
  /\ draining' = FALSE
  /\ Goto(t, AfterDrain(t))
  /\ UNCHANGED <<sent, queue, scheduled, current, response, replied, submitted,
                 executed>>

-----------------------------------------------------------------------------
Worker(w) ==
  \/ Submit(w) \/ Defer(w) \/ DrainInline(w) \/ Return(w) \/ Timeout(w)

Drain(t) ==
  \/ CheckDraining(t) \/ EnterDrain(t) \/ Take(t) \/ RunHandler(t)
  \/ FindEmpty(t) \/ LeaveDrain(t)

Next ==
  \/ \E w \in Workers : Worker(w)
  \/ RunCallback
  \/ \E t \in Threads : Drain(t)

Spec == Init /\ [][Next]_vars

\* The interpreter runs every thread that can run, Live calls the callbacks it
\* has accepted, and the five seconds elapse.  Nothing obliges a client to send.
FairSpec ==
  /\ Spec
  /\ WF_vars(RunCallback)
  /\ \A w \in Workers : WF_vars(Worker(w) /\ ~Submit(w))
  /\ \A t \in Threads : WF_vars(Drain(t))

-----------------------------------------------------------------------------
NoRepeats(s) == \A i, j \in DOMAIN s : s[i] = s[j] => i = j

\* Two callers of drain at once would lose requests or run them twice if the
\* queue were not popped before the handler is called, and a retry inside the
\* queue would repeat a mutation: no handler runs twice for one request.
AtMostOnce == NoRepeats(executed)

\* An answer other than a timeout is the outcome of this very request's
\* handler: a late answer to an earlier request that timed out is never taken
\* for the answer of the next one.
AnswerIsTheHandlers ==
  \A t \in Task : replied[t] \in {"ok", "error"} =>
                    t \in Range(executed) /\ replied[t] = response[t]

\* _draining is never left set by a drain that ended, whatever the overlap of
\* several drains: it would turn every later drain into an early return.
FlagHeldByDrainer ==
  draining => \E t \in Threads : pc[t] \in {"take", "run", "leave"}

\* Every request taken from a client is in exactly one place, however many
\* drains overlap and stop early on _draining: in the queue, in the hands of one
\* thread that will call its handler, or done.  None is dropped in between.
OnePlace ==
  /\ \A x \in Range(submitted) :
        \/ x \in Range(queue) \cup Range(executed)
        \/ \E t \in Threads : pc[t] = "run" /\ current[t] = x
  /\ NoRepeats(queue) /\ NoRepeats(executed)
  /\ Range(queue) \cap Range(executed) = {}
  /\ Range(queue) \cup Range(executed) \subseteq Range(submitted)
  /\ \A t \in Threads : pc[t] = "run" =>
        current[t] \in Range(submitted) \ (Range(queue) \cup Range(executed))
  /\ \A t, u \in Threads :
        pc[t] = "run" /\ pc[u] = "run" /\ current[t] = current[u] => t = u

\* A request is answered only after it was queued, its handler's outcome is there
\* exactly when the handler has run, and the request a worker is still serving
\* has had no answer yet.
Accounted ==
  /\ \A x \in Range(submitted) : x[2] <= sent[x[1]]
  /\ \A x \in Task : response[x] # "none" <=> x \in Range(executed)
  /\ \A x \in Task : replied[x] \in {"ok", "error"} => replied[x] = response[x]
  /\ \A x \in Task : replied[x] # "none" => x \in Range(submitted)
  /\ \A w \in Workers : pc[w] # "recv" =>
        Own(w) \in Range(submitted) /\ replied[Own(w)] = "none"

\* With a scheduler that defers, handlers run in the order the requests were
\* queued, none is lost and none is repeated, over all clients together.
InHand == IF pc[Main] = "run" THEN <<current[Main]>> ELSE <<>>
FifoExecution == submitted = executed \o InHand \o queue

\* With a scheduler that defers, a queued request always has a drain that will
\* see it: one still to be asked for, one Live has accepted, or one that is
\* running and has not yet found the queue empty.
NoLostWakeup ==
  queue # <<>> =>
    \/ scheduled > 0
    \/ \E w \in Workers : pc[w] = "schedule"
    \/ pc[Main] \in {"check", "enter", "take", "run"}

\* Every request is answered, even one whose task no drain ever takes.
EveryRequestAnswered ==
  \A t \in Task : t \in Range(submitted) ~> replied[t] # "none"

\* With a scheduler that defers, every request taken from a client is applied,
\* whether or not its client was told that it timed out.
EveryMutationRuns ==
  \A t \in Task : t \in Range(submitted) ~> t \in Range(executed)

\* A request reported as failed by the timeout was not, and will not be,
\* applied.  This is what a client that retries relies on.
TimeoutMeansNotApplied ==
  \A t \in Task : replied[t] = "timeout" => t \notin Range(executed)

\* The threads, the queue and the scheduler implement the promise.
Service == INSTANCE MutationService
  WITH accepted <- Range(submitted), applied <- executed, answer <- replied
ImplementsService == Service!Spec

=============================================================================
