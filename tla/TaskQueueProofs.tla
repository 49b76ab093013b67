-------------------------- MODULE TaskQueueProofs ---------------------------
(***************************************************************************)
(* What holds of the mutation path of the Remote Script for every set of   *)
(* clients and every number of requests.                                   *)
(***************************************************************************)
EXTENDS TaskQueue, SequenceTheorems, TLAPS

-----------------------------------------------------------------------------
(* Types.                                                                  *)

\* A worker's next request, and the one it is serving, are requests.
LEMMA OwnIsTask ==
  ASSUME NEW w \in Workers, NEW n \in Nat, n > 0, n <= MaxRequests[w]
  PROVE  <<w, n>> \in Task
<1>1. n \in 1..MaxRequests[w]
  BY ThreadAssumption
<1> QED
  BY <1>1 DEF Task

-----------------------------------------------------------------------------
(* What the operations on the queue do to its elements.                    *)

\* The elements of a sequence over S are in S.
LEMMA RangeType ==
  ASSUME NEW S, NEW s \in Seq(S)
  PROVE  Range(s) \subseteq S
BY ElementOfSeq, LenProperties DEF Range

\* Submit's put and drain's end of a handler add one element to a sequence.
LEMMA RangeAppend ==
  ASSUME NEW S, NEW s \in Seq(S), NEW e \in S
  PROVE  Range(Append(s, e)) = Range(s) \cup {e}
<1>1. /\ DOMAIN Append(s, e) = 1..(Len(s) + 1)
      /\ DOMAIN s = 1..Len(s)
      /\ Len(s) \in Nat
  OBVIOUS
<1>2. /\ \A i \in 1..Len(s) : Append(s, e)[i] = s[i]
      /\ Append(s, e)[Len(s) + 1] = e
  OBVIOUS
<1>3. 1..(Len(s) + 1) = 1..Len(s) \cup {Len(s) + 1}
  BY <1>1
<1> QED
  BY <1>1, <1>2, <1>3 DEF Range

\* A request that is not in the queue yet may be put there without a repetition.
LEMMA NoRepeatsAppend ==
  ASSUME NEW S, NEW s \in Seq(S), NEW e \in S, NoRepeats(s), e \notin Range(s)
  PROVE  NoRepeats(Append(s, e))
<1>1. /\ DOMAIN Append(s, e) = 1..(Len(s) + 1)
      /\ DOMAIN s = 1..Len(s)
      /\ Len(s) \in Nat
  OBVIOUS
<1>2. /\ \A i \in 1..Len(s) : Append(s, e)[i] = s[i]
      /\ Append(s, e)[Len(s) + 1] = e
  OBVIOUS
<1>3. 1..(Len(s) + 1) = 1..Len(s) \cup {Len(s) + 1}
  BY <1>1
<1>4. \A i \in 1..Len(s) : s[i] # e
  BY <1>1 DEF Range
<1> QED
  BY <1>1, <1>2, <1>3, <1>4 DEF NoRepeats

\* get_nowait splits the queue into the request taken and the others.
LEMMA RangeHeadTail ==
  ASSUME NEW S, NEW s \in Seq(S), s # <<>>
  PROVE  Range(s) = {Head(s)} \cup Range(Tail(s))
<1>1. /\ DOMAIN s = 1..Len(s) /\ Len(s) \in Nat \ {0}
      /\ DOMAIN Tail(s) = 1..(Len(s) - 1)
      /\ Head(s) = s[1]
      /\ \A i \in 1..(Len(s) - 1) : Tail(s)[i] = s[i + 1]
  BY EmptySeq, HeadTailProperties, LenProperties
<1>2. ASSUME NEW x \in Range(s) PROVE x \in {Head(s)} \cup Range(Tail(s))
  <2>1. PICK i \in 1..Len(s) : x = s[i]
    BY <1>1, <1>2 DEF Range
  <2>2. CASE i = 1
    BY <1>1, <2>1, <2>2
  <2>3. CASE i # 1
    <3>1. i - 1 \in 1..(Len(s) - 1) /\ (i - 1) + 1 = i
      BY <1>1, <2>3
    <3> QED
      BY <1>1, <2>1, <3>1 DEF Range
  <2> QED
    BY <2>2, <2>3
<1>3. ASSUME NEW x \in {Head(s)} \cup Range(Tail(s)) PROVE x \in Range(s)
  <2>1. CASE x = Head(s)
    BY <1>1, <2>1 DEF Range
  <2>2. CASE x \in Range(Tail(s))
    <3>1. PICK i \in 1..(Len(s) - 1) : x = s[i + 1]
      BY <1>1, <2>2 DEF Range
    <3>2. i + 1 \in 1..Len(s)
      BY <1>1
    <3> QED
      BY <1>1, <3>1, <3>2 DEF Range
  <2> QED
    BY <1>3, <2>1, <2>2
<1> QED
  BY <1>2, <1>3

\* The request get_nowait took is not in the queue any more.
LEMMA NoRepeatsTail ==
  ASSUME NEW S, NEW s \in Seq(S), s # <<>>, NoRepeats(s)
  PROVE  NoRepeats(Tail(s)) /\ Head(s) \notin Range(Tail(s))
<1>1. /\ DOMAIN s = 1..Len(s) /\ Len(s) \in Nat \ {0}
      /\ DOMAIN Tail(s) = 1..(Len(s) - 1)
      /\ Head(s) = s[1]
      /\ \A i \in 1..(Len(s) - 1) : Tail(s)[i] = s[i + 1]
  BY EmptySeq, HeadTailProperties, LenProperties
<1>2. \A i \in 1..(Len(s) - 1) : i + 1 \in 1..Len(s) /\ i + 1 # 1
  BY <1>1
<1>3. NoRepeats(Tail(s))
  BY <1>1, <1>2 DEF NoRepeats
<1>4. \A i \in 1..(Len(s) - 1) : s[i + 1] # s[1]
  BY <1>1, <1>2 DEF NoRepeats
<1> QED
  BY <1>1, <1>3, <1>4 DEF Range

-----------------------------------------------------------------------------
(* The invariant of every scheduler.  TypeOK is not inductive by itself: a *)
(* handler is run on current[t], a request only because OnePlace says so;  *)
(* OnePlace is not inductive by itself either: the request that Submit     *)
(* queues is new only because Accounted numbers the ones before it.        *)

QueueInv == TypeOK /\ OnePlace /\ Accounted

\* No thread has anything in hand and nothing is queued when the bridge starts.
LEMMA QueueInit == Init => QueueInv
<1> SUFFICES ASSUME Init PROVE QueueInv
  OBVIOUS
<1>1. <<>> \in Seq(Task) /\ Range(<<>>) = {} /\ NoRepeats(<<>>)
  BY EmptySeq DEF Range, NoRepeats
<1>2. \A w \in Workers : MaxRequests[w] \in Nat /\ w # Main
  BY ThreadAssumption
<1>3. TypeOK
  <2>1. pc \in [Threads -> {"recv", "schedule", "wait", "idle"} \cup DrainPoints]
    BY DEF Init
  <2>2. sent \in [Workers -> Nat] /\ \A w \in Workers : sent[w] <= MaxRequests[w]
    BY <1>2 DEF Init
  <2> QED
    BY <1>1, <2>1, <2>2 DEF Init, TypeOK
<1>4. OnePlace
  BY <1>1 DEF Init, OnePlace
<1>5. Accounted
  BY <1>1, <1>2 DEF Init, Accounted, Threads
<1> QED
  BY <1>3, <1>4, <1>5 DEF QueueInv

\* A step that only moves a thread, between places where it has no request in
\* hand, and starts or ends no request.
LEMMA QuietStep ==
  ASSUME QueueInv,
         UNCHANGED <<sent, queue, current, response, replied, submitted, executed>>,
         \A t \in Threads : pc'[t] = "run" <=> pc[t] = "run",
         \A w \in Workers : pc'[w] # "recv" => pc[w] # "recv"
  PROVE  OnePlace' /\ Accounted'
<1>1. OnePlace'
  BY DEF QueueInv, OnePlace, NoRepeats, Range
<1>2. Accounted'
  BY DEF QueueInv, Accounted, Own, Range
<1> QED
  BY <1>1, <1>2

\* Submit puts a request that is nowhere yet into the queue.
LEMMA SubmitStep ==
  ASSUME QueueInv, NEW w \in Workers, Submit(w)
  PROVE  QueueInv'
<1> DEFINE new == <<w, sent[w] + 1>>
<1>1. sent[w] \in Nat /\ MaxRequests[w] \in Nat /\ sent[w] < MaxRequests[w]
  BY ThreadAssumption DEF Submit, QueueInv, TypeOK
<1>2. new \in Task /\ new[1] = w /\ new[2] = sent[w] + 1
  BY <1>1, OwnIsTask
<1>3. new \notin Range(submitted)
  BY <1>1, <1>2 DEF QueueInv, Accounted
<1>4. /\ queue' \in Seq(Task) /\ Range(queue') = Range(queue) \cup {new}
      /\ submitted' \in Seq(Task) /\ Range(submitted') = Range(submitted) \cup {new}
  <2>1. queue' = Append(queue, new) /\ submitted' = Append(submitted, new)
    BY DEF Submit
  <2>2. queue \in Seq(Task) /\ submitted \in Seq(Task)
    BY DEF QueueInv, TypeOK
  <2>3. queue' \in Seq(Task) /\ submitted' \in Seq(Task)
    BY <1>2, <2>1, <2>2
  <2>4. Range(queue') = Range(queue) \cup {new}
    <3> HIDE DEF new
    <3>1. Range(Append(queue, new)) = Range(queue) \cup {new}
      BY <1>2, <2>2, RangeAppend
    <3> QED
      BY <2>1, <3>1
  <2>5. Range(submitted') = Range(submitted) \cup {new}
    <3> HIDE DEF new
    <3>1. Range(Append(submitted, new)) = Range(submitted) \cup {new}
      BY <1>2, <2>2, RangeAppend
    <3> QED
      BY <2>1, <3>1
  <2> QED
    BY <2>3, <2>4, <2>5
<1>5. sent' \in [Workers -> Nat] /\ \A v \in Workers : sent'[v] <= MaxRequests[v]
  BY <1>1 DEF Submit, QueueInv, TypeOK
<1>6. w \in Threads /\ pc' = [pc EXCEPT ![w] = "schedule"] /\ pc[w] = "recv"
  BY DEF Submit, Goto, Threads
<1>7. TypeOK'
  BY <1>4, <1>5, <1>6 DEF Submit, QueueInv, TypeOK
<1>8. NoRepeats(queue')
  BY <1>2, <1>3, NoRepeatsAppend DEF Submit, QueueInv, TypeOK, OnePlace
<1>9. /\ \A t \in Threads : pc'[t] = "run" <=> pc[t] = "run"
      /\ \A t \in Threads : pc[t] = "run" => current'[t] # new
  BY <1>3, <1>6 DEF Submit, QueueInv, TypeOK, OnePlace
<1>10. OnePlace'
  BY <1>3, <1>4, <1>8, <1>9 DEF Submit, QueueInv, OnePlace
<1>11. \A x \in Range(submitted') : x[2] <= sent'[x[1]]
  <2>1. ASSUME NEW x \in Range(submitted) PROVE x[2] <= sent'[x[1]]
    <3>1. x \in Task
      BY RangeType DEF QueueInv, TypeOK
    <3>2. PICK v \in Workers : x \in {v} \X (1..MaxRequests[v])
      BY <3>1 DEF Task
    <3>3. x[1] = v /\ x[2] \in 1..MaxRequests[v] /\ x[2] <= sent[v]
      BY <2>1, <3>2 DEF QueueInv, Accounted
    <3>4. sent'[v] >= sent[v] /\ sent'[v] \in Nat /\ sent[v] \in Nat
      BY <1>1 DEF Submit, QueueInv, TypeOK
    <3>5. MaxRequests[v] \in Nat
      BY ThreadAssumption
    <3> QED
      BY <3>3, <3>4, <3>5
  <2>2. new[2] <= sent'[new[1]]
    BY <1>1, <1>2 DEF Submit, QueueInv, TypeOK
  <2> QED
    BY <1>4, <2>1, <2>2
<1>12. \A v \in Workers : pc'[v] # "recv" =>
          Own(v)' \in Range(submitted') /\ replied'[Own(v)'] = "none"
  <2> SUFFICES ASSUME NEW v \in Workers, pc'[v] # "recv"
               PROVE  Own(v)' \in Range(submitted') /\ replied'[Own(v)'] = "none"
    OBVIOUS
  <2>1. CASE v = w
    <3>1. Own(v)' = new
      BY <2>1 DEF Submit, Own, QueueInv, TypeOK
    <3>2. replied[new] = "none"
      BY <1>2, <1>3 DEF QueueInv, Accounted
    <3> QED
      BY <1>4, <3>1, <3>2 DEF Submit
  <2>2. CASE v # w
    <3>1. Own(v)' = Own(v)
      BY <2>2 DEF Submit, Own, QueueInv, TypeOK
    <3>2. pc[v] # "recv"
      BY <1>6, <2>2 DEF QueueInv, TypeOK
    <3> QED
      BY <1>4, <3>1, <3>2 DEF Submit, QueueInv, Accounted
  <2> QED
    BY <2>1, <2>2
<1>13. Accounted'
  BY <1>4, <1>11, <1>12 DEF Submit, QueueInv, Accounted
<1> QED
  BY <1>7, <1>10, <1>13 DEF QueueInv

\* Take moves a request from the queue to the hands of one thread.
LEMMA TakeStep ==
  ASSUME QueueInv, NEW t \in Threads, Take(t)
  PROVE  QueueInv'
<1> DEFINE task == Head(queue)
<1>1. queue \in Seq(Task) /\ queue # <<>>
  BY DEF Take, QueueInv, TypeOK
<1>2. /\ task \in Task /\ Tail(queue) \in Seq(Task)
      /\ Range(queue) = {task} \cup Range(Tail(queue))
  BY <1>1, HeadTailProperties, RangeHeadTail
<1>3. NoRepeats(Tail(queue)) /\ task \notin Range(Tail(queue))
  BY <1>1, NoRepeatsTail DEF QueueInv, OnePlace
<1>4. /\ pc' = [pc EXCEPT ![t] = "run"] /\ pc[t] = "take"
      /\ current' = [current EXCEPT ![t] = task] /\ queue' = Tail(queue)
      /\ UNCHANGED <<sent, draining, scheduled, response, replied, submitted, executed>>
  BY DEF Take, Goto
<1> HIDE DEF task
<1>5. TypeOK'
  BY <1>2, <1>4 DEF QueueInv, TypeOK, DrainPoints
<1>6. /\ pc'[t] = "run" /\ current'[t] = task
      /\ \A u \in Threads \ {t} : pc'[u] = pc[u] /\ current'[u] = current[u]
  BY <1>4 DEF QueueInv, TypeOK
<1>7. task \in Range(submitted) \ Range(executed)
  BY <1>2 DEF QueueInv, OnePlace
<1>8. \A u \in Threads : pc[u] = "run" => current[u] # task
  BY <1>2 DEF QueueInv, OnePlace
<1>9. OnePlace'
  <2>1. NoRepeats(queue') /\ NoRepeats(executed')
    BY <1>3, <1>4 DEF QueueInv, OnePlace
  <2>2. /\ Range(queue') \cap Range(executed') = {}
        /\ Range(queue') \cup Range(executed') \subseteq Range(submitted')
    BY <1>2, <1>4 DEF QueueInv, OnePlace
  <2>3. \A u \in Threads : pc'[u] = "run" =>
           current'[u] \in Range(submitted') \ (Range(queue') \cup Range(executed'))
    BY <1>2, <1>3, <1>4, <1>6, <1>7 DEF QueueInv, OnePlace
  <2>4. \A u, v \in Threads :
           pc'[u] = "run" /\ pc'[v] = "run" /\ current'[u] = current'[v] => u = v
    BY <1>6, <1>8 DEF QueueInv, OnePlace
  <2>5. \A x \in Range(submitted') :
           \/ x \in Range(queue') \cup Range(executed')
           \/ \E u \in Threads : pc'[u] = "run" /\ current'[u] = x
    BY <1>2, <1>4, <1>6 DEF QueueInv, OnePlace
  <2> QED
    BY <2>1, <2>2, <2>3, <2>4, <2>5 DEF OnePlace
<1>10. Accounted'
  BY <1>4, <1>6 DEF QueueInv, Accounted, Own
<1> QED
  BY <1>5, <1>9, <1>10 DEF QueueInv

\* RunHandler moves a request from the hands of one thread to the done ones,
\* and leaves its outcome for the worker that waits.
LEMMA RunHandlerStep ==
  ASSUME QueueInv, NEW t \in Threads, RunHandler(t)
  PROVE  QueueInv' /\ current[t] \in Range(submitted) \ Range(executed)
<1> DEFINE task == current[t]
<1>1. PICK outcome \in {"ok", "error"} :
         response' = [response EXCEPT ![task] = outcome]
  BY DEF RunHandler
<1>2. /\ pc' = [pc EXCEPT ![t] = "take"] /\ pc[t] = "run"
      /\ current' = [current EXCEPT ![t] = NoTask]
      /\ executed' = Append(executed, task)
      /\ UNCHANGED <<sent, queue, draining, scheduled, replied, submitted>>
  BY DEF RunHandler, Goto
<1>3. task \in Range(submitted) \ (Range(queue) \cup Range(executed))
  BY <1>2 DEF QueueInv, OnePlace
<1>4. executed \in Seq(Task) /\ submitted \in Seq(Task)
  BY DEF QueueInv, TypeOK
<1>5. task \in Task
  BY <1>3, <1>4, RangeType
<1>6. \A u \in Threads \ {t} : pc[u] = "run" => current[u] # task
  BY <1>2 DEF QueueInv, OnePlace
<1> HIDE DEF task
<1>7. executed' \in Seq(Task) /\ Range(executed') = Range(executed) \cup {task}
  <2>1. Range(Append(executed, task)) = Range(executed) \cup {task}
    BY <1>4, <1>5, RangeAppend
  <2> QED
    BY <1>2, <1>4, <1>5, <2>1
<1>8. NoRepeats(executed')
  <2>1. NoRepeats(Append(executed, task))
    BY <1>3, <1>4, <1>5, NoRepeatsAppend DEF QueueInv, OnePlace
  <2> QED
    BY <1>2, <2>1
<1>9. TypeOK'
  BY <1>1, <1>2, <1>7 DEF QueueInv, TypeOK, DrainPoints
<1>10. /\ pc'[t] = "take"
       /\ \A u \in Threads \ {t} : pc'[u] = pc[u] /\ current'[u] = current[u]
  BY <1>2 DEF QueueInv, TypeOK
<1>11. OnePlace'
  <2>1. NoRepeats(queue')
    BY <1>2 DEF QueueInv, OnePlace
  <2>2. /\ Range(queue') \cap Range(executed') = {}
        /\ Range(queue') \cup Range(executed') \subseteq Range(submitted')
    BY <1>2, <1>3, <1>7 DEF QueueInv, OnePlace
  <2>3. \A u \in Threads : pc'[u] = "run" =>
           current'[u] \in Range(submitted') \ (Range(queue') \cup Range(executed'))
    BY <1>2, <1>6, <1>7, <1>10 DEF QueueInv, OnePlace
  <2>4. \A u, v \in Threads :
           pc'[u] = "run" /\ pc'[v] = "run" /\ current'[u] = current'[v] => u = v
    BY <1>10 DEF QueueInv, OnePlace
  <2>5. \A x \in Range(submitted') :
           \/ x \in Range(queue') \cup Range(executed')
           \/ \E u \in Threads : pc'[u] = "run" /\ current'[u] = x
    BY <1>2, <1>7, <1>10 DEF QueueInv, OnePlace, task
  <2> QED
    BY <1>8, <2>1, <2>2, <2>3, <2>4, <2>5 DEF OnePlace
<1>12. \A x \in Task : response'[x] # "none" <=> x \in Range(executed')
  BY <1>1, <1>7 DEF QueueInv, TypeOK, Accounted
<1>13. \A x \in Task : replied[x] \in {"ok", "error"} => replied[x] = response'[x]
  <2>1. response[task] = "none"
    BY <1>3, <1>5 DEF QueueInv, Accounted
  <2> QED
    BY <1>1, <2>1 DEF QueueInv, TypeOK, Accounted
<1>14. \A w \in Workers : pc'[w] # "recv" =>
          Own(w)' \in Range(submitted') /\ replied'[Own(w)'] = "none"
  BY <1>2, <1>10 DEF QueueInv, Accounted, Own, Threads
<1>15. Accounted'
  BY <1>2, <1>12, <1>13, <1>14 DEF QueueInv, Accounted
<1> QED
  BY <1>3, <1>9, <1>11, <1>15 DEF QueueInv, task

\* A worker that waits gives one answer to the request it serves: the outcome
\* of its handler, or a timeout while there is none.
LEMMA AnswerStep ==
  ASSUME QueueInv, NEW w \in Workers, Return(w) \/ Timeout(w)
  PROVE  /\ QueueInv'
         /\ Own(w) \in Range(submitted) /\ replied[Own(w)] = "none"
         /\ \E a \in {"ok", "error", "timeout"} :
               /\ a # "timeout" => Own(w) \in Range(executed)
               /\ replied' = [replied EXCEPT ![Own(w)] = a]
<1> DEFINE own == Own(w)
<1>1. /\ pc[w] = "wait" /\ pc' = [pc EXCEPT ![w] = "recv"]
      /\ UNCHANGED <<sent, queue, draining, scheduled, current, response, submitted,
                     executed>>
  BY DEF Return, Timeout, Goto
<1>2. own \in Range(submitted) /\ replied[own] = "none"
  BY <1>1 DEF QueueInv, Accounted
<1>3. own \in Task
  BY <1>2, RangeType DEF QueueInv, TypeOK
<1>4. PICK a \in {"ok", "error", "timeout"} :
         /\ a # "timeout" => a = response[own] /\ own \in Range(executed)
         /\ replied' = [replied EXCEPT ![own] = a]
  <2>1. response[own] \in {"none", "ok", "error"}
    BY <1>3 DEF QueueInv, TypeOK
  <2>2. response[own] # "none" => own \in Range(executed)
    BY <1>3 DEF QueueInv, Accounted
  <2>3. CASE Return(w)
    BY <2>1, <2>2, <2>3 DEF Return
  <2>4. CASE Timeout(w)
    BY <2>4 DEF Timeout
  <2> QED
    BY <2>3, <2>4
<1>5. w \in Threads /\ \A t \in Threads : pc'[t] = IF t = w THEN "recv" ELSE pc[t]
  BY <1>1 DEF QueueInv, TypeOK, Threads
<1>6. own[1] = w /\ \A v \in Workers : v # w => Own(v) # own
  BY DEF Own
<1>7. \A v \in Workers : Own(v)' = Own(v)
  BY <1>1 DEF Own
<1> HIDE DEF own
<1>8. TypeOK'
  BY <1>1, <1>3, <1>4 DEF QueueInv, TypeOK
<1>9. OnePlace'
  BY <1>1, <1>5 DEF QueueInv, OnePlace
<1>10. \A x \in Task : replied'[x] = IF x = own THEN a ELSE replied[x]
  BY <1>3, <1>4 DEF QueueInv, TypeOK
<1>11. \A v \in Workers : pc'[v] # "recv" =>
          Own(v)' \in Range(submitted') /\ replied'[Own(v)'] = "none"
  <2> SUFFICES ASSUME NEW v \in Workers, pc'[v] # "recv"
               PROVE  Own(v)' \in Range(submitted') /\ replied'[Own(v)'] = "none"
    OBVIOUS
  <2>1. v # w /\ pc[v] # "recv"
    BY <1>5 DEF Threads
  <2>2. Own(v) \in Range(submitted) /\ replied[Own(v)] = "none"
    BY <2>1 DEF QueueInv, Accounted
  <2>3. Own(v) \in Task
    BY <2>2, RangeType DEF QueueInv, TypeOK
  <2> QED
    BY <1>1, <1>6, <1>7, <1>10, <2>1, <2>2, <2>3
<1>12. Accounted'
  BY <1>1, <1>2, <1>4, <1>10, <1>11 DEF QueueInv, Accounted
<1> QED
  BY <1>2, <1>4, <1>8, <1>9, <1>12 DEF QueueInv, own

\* Every step of a worker, of a drain or of Live keeps a request in one place and
\* its answer accounted for.
LEMMA QueueStep == QueueInv /\ [Next]_vars => QueueInv'
<1> SUFFICES ASSUME QueueInv, [Next]_vars PROVE QueueInv'
  OBVIOUS
<1> DEFINE Still == UNCHANGED <<sent, queue, current, response, replied, submitted, executed>>
<1>0. TypeOK /\ Main \notin Workers /\ \A w \in Workers : w \in Threads
  BY ThreadAssumption DEF QueueInv, Threads
<1>1. ASSUME NEW w \in Workers, Submit(w) PROVE QueueInv'
  BY <1>1, SubmitStep
<1>2. ASSUME NEW w \in Workers, Defer(w) \/ DrainInline(w) PROVE QueueInv'
  <2>1. TypeOK'
    BY <1>0, <1>2 DEF Defer, DrainInline, TypeOK, Goto, DrainPoints
  <2>2. Still /\ \A t \in Threads : /\ pc'[t] = "run" <=> pc[t] = "run"
                                    /\ pc'[t] # "recv" => pc[t] # "recv"
    BY <1>0, <1>2 DEF Defer, DrainInline, TypeOK, Goto
  <2> QED
    BY <1>0, <2>1, <2>2, QuietStep DEF QueueInv
<1>3. ASSUME NEW w \in Workers, Return(w) \/ Timeout(w) PROVE QueueInv'
  BY <1>3, AnswerStep
<1>4. CASE RunCallback
  <2>1. TypeOK'
    <3>1. scheduled' \in Nat
      BY <1>0, <1>4 DEF RunCallback, TypeOK
    <3>2. pc' \in [Threads -> {"recv", "schedule", "wait", "idle"} \cup DrainPoints]
      BY <1>0, <1>4 DEF RunCallback, TypeOK, Goto, DrainPoints
    <3> QED
      BY <1>0, <1>4, <3>1, <3>2 DEF RunCallback, TypeOK
  <2>2. Still /\ \A t \in Threads : /\ pc'[t] = "run" <=> pc[t] = "run"
                                    /\ pc'[t] # "recv" => pc[t] # "recv"
    BY <1>0, <1>4 DEF RunCallback, TypeOK, Goto
  <2> QED
    BY <1>0, <2>1, <2>2, QuietStep DEF QueueInv
<1>5. ASSUME NEW t \in Threads, CheckDraining(t) \/ EnterDrain(t) \/ FindEmpty(t) \/ LeaveDrain(t)
      PROVE  QueueInv'
  <2>1. TypeOK'
    <3>1. draining' \in BOOLEAN
      BY <1>0, <1>5 DEF CheckDraining, EnterDrain, FindEmpty, LeaveDrain, TypeOK
    <3>2. pc' \in [Threads -> {"recv", "schedule", "wait", "idle"} \cup DrainPoints]
      BY <1>0, <1>5 DEF CheckDraining, EnterDrain, FindEmpty, LeaveDrain, AfterDrain,
                        TypeOK, Goto, DrainPoints
    <3> QED
      BY <1>0, <1>5, <3>1, <3>2 DEF CheckDraining, EnterDrain, FindEmpty, LeaveDrain,
                                    TypeOK
  <2>2. Still /\ \A u \in Threads : /\ pc'[u] = "run" <=> pc[u] = "run"
                                    /\ pc'[u] # "recv" => pc[u] # "recv"
    BY <1>0, <1>5 DEF CheckDraining, EnterDrain, FindEmpty, LeaveDrain, AfterDrain,
                      TypeOK, Goto
  <2> QED
    BY <1>0, <2>1, <2>2, QuietStep DEF QueueInv
<1>6. ASSUME NEW t \in Threads, Take(t) PROVE QueueInv'
  BY <1>6, TakeStep
<1>7. ASSUME NEW t \in Threads, RunHandler(t) PROVE QueueInv'
  BY <1>7, RunHandlerStep
<1>8. CASE UNCHANGED vars
  <2>1. TypeOK'
    BY <1>0, <1>8 DEF vars, TypeOK
  <2> QED
    BY <1>8, <2>1, QuietStep DEF vars, QueueInv
<1> QED
  BY <1>1, <1>2, <1>3, <1>4, <1>5, <1>6, <1>7, <1>8 DEF Next, Worker, Drain

\* Whatever the clients, their requests and the scheduler, a request taken from a
\* client is in the queue, in the hands of one thread or done, and its outcome and
\* its answer agree (task_queue.py, 18-47): the invariant the others rest on.
THEOREM QueueCorrect == Spec => []QueueInv
BY QueueInit, QueueStep, PTL DEF Spec

\* Whatever the clients, their requests and the scheduler, every variable of the
\* mutation path keeps its type, and a thread that runs a handler has a request
\* (task_queue.py, control_surface.py).
THEOREM TypeCorrect == Spec => []TypeOK
<1>1. QueueInv => TypeOK
  BY DEF QueueInv
<1> QED
  BY <1>1, QueueCorrect, PTL

\* No mutation's handler is ever run twice, even when workers drain the queue
\* beside the main thread and pass the unprotected _draining flag together.
THEOREM MutationsRunAtMostOnce == Spec => []AtMostOnce
<1>1. QueueInv => AtMostOnce
  BY DEF QueueInv, OnePlace, AtMostOnce
<1> QED
  BY <1>1, QueueCorrect, PTL

\* A client that is told an outcome is told the outcome of its own request,
\* whatever earlier request of the same client timed out.
THEOREM AnswersAreTheHandlers == Spec => []AnswerIsTheHandlers
<1>1. QueueInv => AnswerIsTheHandlers
  BY DEF QueueInv, TypeOK, Accounted, AnswerIsTheHandlers
<1> QED
  BY <1>1, QueueCorrect, PTL

\* However many drains overlap, in any number of threads, each request a client has
\* handed over is in exactly one place: queued, in the hands of one thread, or done.
THEOREM RequestsAreInOnePlace == Spec => []OnePlace
<1>1. QueueInv => OnePlace
  BY DEF QueueInv
<1> QED
  BY <1>1, QueueCorrect, PTL

\* Answers, outcomes and requests are accounted for: nobody is answered before the
\* request was queued, nor while a worker still serves it.
THEOREM AnswersAreAccountedFor == Spec => []Accounted
<1>1. QueueInv => Accounted
  BY DEF QueueInv
<1> QED
  BY <1>1, QueueCorrect, PTL

\* No drain has begun.
LEMMA FlagInit == Init => FlagHeldByDrainer
BY DEF Init, FlagHeldByDrainer

\* The flag goes up with a thread in the drain, and the one that leaves takes it down
\* even for the others.
LEMMA FlagStep == TypeOK /\ FlagHeldByDrainer /\ [Next]_vars => FlagHeldByDrainer'
<1> SUFFICES ASSUME TypeOK, FlagHeldByDrainer, [Next]_vars PROVE FlagHeldByDrainer'
  OBVIOUS
<1> DEFINE Inside(t) == pc[t] \in {"take", "run", "leave"}
           Kept == draining' = draining /\ \A t \in Threads : Inside(t) => Inside(t)'
<1>0. /\ pc \in [Threads -> {"recv", "schedule", "wait", "idle"} \cup DrainPoints]
      /\ Main \in Threads /\ \A w \in Workers : w \in Threads
  BY DEF TypeOK, Threads
<1>1. Kept => FlagHeldByDrainer'
  BY DEF FlagHeldByDrainer
<1>2. ASSUME NEW w \in Workers, Worker(w) PROVE Kept
  BY <1>0, <1>2 DEF Worker, Submit, Defer, DrainInline, Return, Timeout, Goto
<1>3. CASE RunCallback
  BY <1>0, <1>1, <1>3 DEF RunCallback, Goto
<1>4. ASSUME NEW t \in Threads, CheckDraining(t) \/ Take(t) \/ RunHandler(t) \/ FindEmpty(t)
      PROVE  Kept
  BY <1>0, <1>4 DEF CheckDraining, Take, RunHandler, FindEmpty, Goto
<1>5. ASSUME NEW t \in Threads, EnterDrain(t) PROVE FlagHeldByDrainer'
  <2>1. pc'[t] = "take"
    BY <1>0, <1>5 DEF EnterDrain, Goto
  <2> QED
    BY <2>1 DEF FlagHeldByDrainer
<1>6. ASSUME NEW t \in Threads, LeaveDrain(t) PROVE FlagHeldByDrainer'
  BY <1>6 DEF LeaveDrain, FlagHeldByDrainer
<1>7. CASE UNCHANGED vars
  BY <1>1, <1>7 DEF vars
<1> QED
  BY <1>1, <1>2, <1>3, <1>4, <1>5, <1>6, <1>7 DEF Next, Drain

\* The flag that turns a drain away is never left up by a drain that ended, whatever
\* the overlap (task_queue.py, 36-51).
THEOREM FlagIsHeldByADrainer == Spec => []FlagHeldByDrainer
BY FlagInit, FlagStep, TypeCorrect, PTL DEF Spec

-----------------------------------------------------------------------------
(* The threads, the queue and the scheduler implement the promise.         *)

\* A bridge that starts has accepted, applied and answered nothing.
LEMMA ServiceInit == Init => Service!Init
BY DEF Init, Service!Init, Range

\* Submit accepts, RunHandler applies, Return and Timeout answer; every other step
\* is one the promise does not see.
LEMMA ServiceStep ==
  ASSUME QueueInv, QueueInv', [Next]_vars
  PROVE  [Service!Next]_Service!vars
<1> USE DEF Service!vars
<1>1. ASSUME NEW w \in Workers, Submit(w) PROVE \E t \in Task : Service!Accept(t)
  <2> DEFINE new == <<w, sent[w] + 1>>
  <2>1. sent[w] \in Nat /\ MaxRequests[w] \in Nat /\ sent[w] < MaxRequests[w]
    BY <1>1, ThreadAssumption DEF Submit, QueueInv, TypeOK
  <2>2. new \in Task /\ new[1] = w /\ new[2] = sent[w] + 1
    BY <2>1, OwnIsTask
  <2>3. new \notin Range(submitted)
    BY <2>1, <2>2 DEF QueueInv, Accounted
  <2>4. submitted \in Seq(Task) /\ submitted' = Append(submitted, new)
    BY <1>1 DEF Submit, QueueInv, TypeOK
  <2> HIDE DEF new
  <2>5. Range(Append(submitted, new)) = Range(submitted) \cup {new}
    BY <2>2, <2>4, RangeAppend
  <2>6. Range(submitted)' = Range(submitted) \cup {new}
    BY <2>4, <2>5
  <2>7. Service!Accept(new)
    BY <1>1, <2>3, <2>6 DEF Submit, Service!Accept
  <2> QED
    BY <2>2, <2>7
<1>2. ASSUME NEW t \in Threads, RunHandler(t) PROVE \E x \in Task : Service!Apply(x)
  <2>1. current[t] \in Range(submitted) \ Range(executed)
    BY <1>2, RunHandlerStep
  <2>2. current[t] \in Task
    BY <2>1, RangeType DEF QueueInv, TypeOK
  <2>3. Service!Apply(current[t])
    BY <1>2, <2>1 DEF RunHandler, Service!Apply, Service!Done,
                    Service!Range, Range
  <2> QED
    BY <2>2, <2>3
<1>3. ASSUME NEW w \in Workers, Return(w) \/ Timeout(w)
      PROVE  \E t \in Task : Service!Answer(t)
  <2>1. /\ Own(w) \in Range(submitted) /\ replied[Own(w)] = "none"
        /\ \E a \in {"ok", "error", "timeout"} :
              /\ a # "timeout" => Own(w) \in Range(executed)
              /\ replied' = [replied EXCEPT ![Own(w)] = a]
    BY <1>3, AnswerStep
  <2>2. Own(w) \in Task
    BY <2>1, RangeType DEF QueueInv, TypeOK
  <2>3. Service!Done = Range(executed)
    BY DEF Service!Done, Service!Range, Range
  <2>4. UNCHANGED <<submitted, executed>>
    BY <1>3 DEF Return, Timeout
  <2>5. UNCHANGED Range(submitted)
    BY <2>4 DEF Range
  <2>6. Service!Answer(Own(w))
    BY <2>1, <2>3, <2>4, <2>5 DEF Service!Answer
  <2> QED
    BY <2>2, <2>6
<1>4. ASSUME NEW w \in Workers, Defer(w) \/ DrainInline(w)
      PROVE  UNCHANGED <<submitted, executed, replied>>
  BY <1>4 DEF Defer, DrainInline
<1>5. CASE RunCallback
  BY <1>5 DEF RunCallback
<1>6. ASSUME NEW t \in Threads,
             CheckDraining(t) \/ EnterDrain(t) \/ Take(t) \/ FindEmpty(t) \/ LeaveDrain(t)
      PROVE  UNCHANGED <<submitted, executed, replied>>
  BY <1>6 DEF CheckDraining, EnterDrain, Take, FindEmpty, LeaveDrain
<1>7. CASE UNCHANGED vars
  BY <1>7 DEF vars
<1> QED
  BY <1>1, <1>2, <1>3, <1>4, <1>5, <1>6, <1>7
     DEF Next, Worker, Drain, Service!Next

\* For every scheduler, the mutation path implements MutationService: a mutation
\* is applied at most once, and an answer from the handler follows its run.
THEOREM MutationPathImplementsService == Spec => ImplementsService
<1>1. QueueInv /\ QueueInv' /\ [Next]_vars => [Service!Next]_Service!vars
  BY ServiceStep
<1> QED
  BY <1>1, ServiceInit, QueueCorrect, PTL DEF Spec, ImplementsService, Service!Spec

-----------------------------------------------------------------------------
(* A scheduler that only defers, as Live's does: all drains run on the     *)
(* main thread, so _draining says where that thread is, and the queue is   *)
(* served in order with no request left without a drain to come.           *)

DeferInv ==
  /\ \A w \in Workers : pc[w] \in {"recv", "schedule", "wait"}
  /\ draining <=> pc[Main] \in {"take", "run", "leave"}
  /\ FifoExecution
  /\ NoLostWakeup

\* Putting a request at the end of the queue puts it at the end of the whole order.
LEMMA ConcatAppend ==
  ASSUME NEW s \in Seq(Task), NEW h \in Seq(Task), NEW q \in Seq(Task), NEW e \in Task
  PROVE  Append((s \o h) \o q, e) = (s \o h) \o Append(q, e)
<1>1. (s \o h) \in Seq(Task) /\ (s \o h) \o q \in Seq(Task) /\ <<e>> \in Seq(Task)
  BY ConcatProperties
<1>2. Append((s \o h) \o q, e) = ((s \o h) \o q) \o <<e>>
  BY <1>1, AppendIsConcat
<1>3. Append(q, e) = q \o <<e>>
  BY AppendIsConcat
<1> QED
  BY <1>1, <1>2, <1>3, ConcatAssociative

\* The head of the queue becomes the request in hand.
LEMMA ConcatTake ==
  ASSUME NEW S, NEW s \in Seq(S), NEW q \in Seq(S), q # <<>>
  PROVE  s \o <<>> \o q = s \o <<Head(q)>> \o Tail(q)
<1>1. Head(q) \in S /\ Tail(q) \in Seq(S) /\ <<Head(q)>> \in Seq(S)
  BY HeadTailProperties
<1>2. q = <<Head(q)>> \o Tail(q)
  BY <1>1, HeadTailProperties, ConcatProperties, SeqEqual
<1>3. s \o <<Head(q)>> \o Tail(q) = s \o (<<Head(q)>> \o Tail(q))
  BY <1>1, ConcatAssociative
<1>4. s \o <<>> = s
  BY ConcatEmptySeq
<1> QED
  BY <1>2, <1>3, <1>4

\* The request in hand becomes the last executed one.
LEMMA ConcatDone ==
  ASSUME NEW S, NEW s \in Seq(S), NEW e \in S, NEW q \in Seq(S)
  PROVE  s \o <<e>> \o q = Append(s, e) \o <<>> \o q
<1>1. Append(s, e) = s \o <<e>> /\ Append(s, e) \in Seq(S)
  BY AppendIsConcat
<1>2. Append(s, e) \o <<>> = Append(s, e)
  BY <1>1, ConcatEmptySeq
<1> QED
  BY <1>1, <1>2

\* When the bridge starts, nothing is queued and no drain is needed.
LEMMA DeferInit == Init => DeferInv
<1> SUFFICES ASSUME Init PROVE DeferInv
  OBVIOUS
<1>1. Main \in Threads /\ \A w \in Workers : w \in Threads /\ w # Main
  BY ThreadAssumption DEF Threads
<1>2. <<>> \o <<>> \o <<>> = <<>>
  BY EmptySeq, ConcatEmptySeq
<1>3. pc[Main] = "idle" /\ \A w \in Workers : pc[w] = "recv"
  BY <1>1 DEF Init
<1>4. FifoExecution
  BY <1>2, <1>3 DEF Init, FifoExecution, InHand
<1> QED
  BY <1>3, <1>4 DEF Init, DeferInv, NoLostWakeup

\* The order of execution: Submit extends both sides, Take and RunHandler move
\* the head of the queue, through the hand of the main thread, to the done ones.
LEMMA FifoStep ==
  ASSUME Scheduling = {"defer"}, QueueInv, DeferInv, [Next]_vars
  PROVE  FifoExecution'
<1>0. /\ TypeOK /\ FifoExecution
      /\ Main \in Threads /\ \A w \in Workers : w \in Threads /\ w # Main
  BY ThreadAssumption DEF QueueInv, DeferInv, Threads
<1>1. ASSUME NEW w \in Workers, Submit(w) PROVE FifoExecution'
  <2> DEFINE new == <<w, sent[w] + 1>>
  <2>1. sent[w] \in Nat /\ MaxRequests[w] \in Nat /\ sent[w] < MaxRequests[w]
    BY <1>1, ThreadAssumption DEF Submit, QueueInv, TypeOK
  <2>2. new \in Task
    BY <2>1, OwnIsTask
  <2>3. /\ queue' = Append(queue, new) /\ submitted' = Append(submitted, new)
        /\ executed' = executed /\ current' = current /\ pc'[Main] = pc[Main]
    BY <1>0, <1>1 DEF Submit, Goto, TypeOK
  <2> HIDE DEF new
  <2>4. InHand' = InHand
    BY <2>3 DEF InHand
  <2>5. InHand \in Seq(Task)
    <3>1. CASE pc[Main] = "run"
      <4>1. current[Main] \in Range(submitted) /\ Range(submitted) \subseteq Task
        BY <1>0, <3>1, RangeType DEF QueueInv, OnePlace, TypeOK
      <4> QED
        BY <3>1, <4>1 DEF InHand
    <3>2. CASE pc[Main] # "run"
      BY <3>2, EmptySeq DEF InHand
    <3> QED
      BY <3>1, <3>2
  <2>6. Append(executed \o InHand \o queue, new) = executed \o InHand \o Append(queue, new)
    <3>1. executed \in Seq(Task) /\ queue \in Seq(Task)
      BY <1>0 DEF TypeOK
    <3> QED
      BY <2>2, <2>5, <3>1, ConcatAppend
  <2>7. submitted = executed \o InHand \o queue
    BY <1>0 DEF FifoExecution
  <2> QED
    BY <2>3, <2>4, <2>6, <2>7 DEF FifoExecution
<1>2. ASSUME UNCHANGED <<submitted, executed, queue, current>>,
             pc'[Main] = "run" <=> pc[Main] = "run"
      PROVE  FifoExecution'
  BY <1>0, <1>2 DEF FifoExecution, InHand
<1>3. ASSUME NEW w \in Workers,
             Defer(w) \/ DrainInline(w) \/ Return(w) \/ Timeout(w)
      PROVE  FifoExecution'
  <2>1. pc'[Main] = pc[Main]
    BY <1>0, <1>3 DEF Defer, DrainInline, Return, Timeout, Goto, TypeOK
  <2>2. UNCHANGED <<submitted, executed, queue, current>>
    BY <1>3 DEF Defer, DrainInline, Return, Timeout
  <2> QED
    BY <1>2, <2>1, <2>2
<1>4. CASE RunCallback
  <2>1. pc[Main] = "idle" /\ pc'[Main] = "check"
    BY <1>0, <1>4 DEF RunCallback, Goto, TypeOK
  <2> QED
    BY <1>2, <1>4, <2>1 DEF RunCallback
<1>5. ASSUME NEW t \in Threads, Drain(t) PROVE t = Main
  BY <1>5 DEF Drain, CheckDraining, EnterDrain, Take, RunHandler, FindEmpty, LeaveDrain,
              DeferInv, Threads
<1>6. CASE CheckDraining(Main) \/ EnterDrain(Main) \/ FindEmpty(Main) \/ LeaveDrain(Main)
  <2>1. pc'[Main] # "run" /\ pc[Main] # "run"
    BY <1>0, <1>6 DEF CheckDraining, EnterDrain, FindEmpty, LeaveDrain, AfterDrain, Goto,
                      TypeOK
  <2>2. UNCHANGED <<submitted, executed, queue, current>>
    BY <1>6 DEF CheckDraining, EnterDrain, FindEmpty, LeaveDrain
  <2> QED
    BY <1>2, <2>1, <2>2
<1>7. CASE Take(Main)
  <2>1. /\ pc[Main] = "take" /\ pc'[Main] = "run" /\ current'[Main] = Head(queue)
        /\ queue # <<>> /\ queue' = Tail(queue) /\ UNCHANGED <<submitted, executed>>
    BY <1>0, <1>7 DEF Take, Goto, TypeOK
  <2>2. submitted = executed \o <<>> \o queue
    BY <1>0, <2>1 DEF FifoExecution, InHand
  <2>3. executed \o <<>> \o queue = executed \o <<Head(queue)>> \o Tail(queue)
    BY <1>0, <2>1, ConcatTake DEF TypeOK
  <2> QED
    BY <2>1, <2>2, <2>3 DEF FifoExecution, InHand
<1>8. CASE RunHandler(Main)
  <2>1. /\ pc[Main] = "run" /\ pc'[Main] = "take"
        /\ executed' = Append(executed, current[Main]) /\ UNCHANGED <<submitted, queue>>
    BY <1>0, <1>8 DEF RunHandler, Goto, TypeOK
  <2>2. submitted = executed \o <<current[Main]>> \o queue
    BY <1>0, <2>1 DEF FifoExecution, InHand
  <2>3. current[Main] \in Range(submitted) /\ Range(submitted) \subseteq Task
    BY <1>0, <2>1, RangeType DEF QueueInv, OnePlace, TypeOK
  <2>4. executed \o <<current[Main]>> \o queue
          = Append(executed, current[Main]) \o <<>> \o queue
    BY <1>0, <2>3, ConcatDone DEF TypeOK
  <2> QED
    BY <2>1, <2>2, <2>4 DEF FifoExecution, InHand
<1>9. CASE UNCHANGED vars
  BY <1>2, <1>9 DEF vars
<1> QED
  BY <1>1, <1>3, <1>4, <1>5, <1>6, <1>7, <1>8, <1>9 DEF Next, Worker, Drain

\* The places of the threads and the callbacks owed to the queue.
LEMMA DeferStep ==
  ASSUME Scheduling = {"defer"}, QueueInv, DeferInv, [Next]_vars
  PROVE  DeferInv'
<1> DEFINE Placed == /\ \A w \in Workers : pc[w] \in {"recv", "schedule", "wait"}
                     /\ draining <=> pc[Main] \in {"take", "run", "leave"}
<1>0. /\ TypeOK /\ Placed /\ NoLostWakeup
      /\ Main \in Threads /\ \A w \in Workers : w \in Threads /\ w # Main
  BY ThreadAssumption DEF QueueInv, DeferInv, Threads
<1> SUFFICES Placed' /\ NoLostWakeup'
  BY FifoStep DEF DeferInv
<1>1. ASSUME NEW w \in Workers, Submit(w) PROVE Placed' /\ NoLostWakeup'
  BY <1>0, <1>1 DEF Submit, Goto, TypeOK, NoLostWakeup
<1>2. ASSUME NEW w \in Workers, Defer(w) PROVE Placed' /\ NoLostWakeup'
  <2>1. scheduled' > 0
    BY <1>0, <1>2 DEF Defer, TypeOK
  <2>2. Placed'
    BY <1>0, <1>2 DEF Defer, Goto, TypeOK
  <2> QED
    BY <2>1, <2>2 DEF NoLostWakeup
<1>3. ASSUME NEW w \in Workers, Return(w) \/ Timeout(w) PROVE Placed' /\ NoLostWakeup'
  <2>1. /\ pc[w] = "wait" /\ pc' = [pc EXCEPT ![w] = "recv"]
        /\ UNCHANGED <<draining, queue, scheduled>>
    BY <1>3 DEF Return, Timeout, Goto
  <2>2. Placed'
    BY <1>0, <2>1 DEF TypeOK
  <2>3. NoLostWakeup'
    BY <1>0, <2>1 DEF TypeOK, NoLostWakeup
  <2> QED
    BY <2>2, <2>3
<1>4. CASE RunCallback
  <2>1. pc'[Main] = "check"
    BY <1>0, <1>4 DEF RunCallback, Goto, TypeOK
  <2>2. Placed'
    BY <1>0, <1>4 DEF RunCallback, Goto, TypeOK
  <2> QED
    BY <2>1, <2>2 DEF NoLostWakeup
<1>5. ASSUME NEW t \in Threads, Drain(t) PROVE t = Main
  BY <1>5 DEF Drain, CheckDraining, EnterDrain, Take, RunHandler, FindEmpty, LeaveDrain,
              DeferInv, Threads
<1>6. CASE CheckDraining(Main)
  BY <1>0, <1>6 DEF CheckDraining, AfterDrain, Goto, TypeOK, NoLostWakeup
<1>7. CASE EnterDrain(Main)
  BY <1>0, <1>7 DEF EnterDrain, Goto, TypeOK, NoLostWakeup
<1>8. CASE Take(Main)
  BY <1>0, <1>8 DEF Take, Goto, TypeOK, NoLostWakeup
<1>9. CASE RunHandler(Main)
  BY <1>0, <1>9 DEF RunHandler, Goto, TypeOK, NoLostWakeup
<1>10. CASE FindEmpty(Main)
  BY <1>0, <1>10 DEF FindEmpty, Goto, TypeOK, NoLostWakeup
<1>11. CASE LeaveDrain(Main)
  BY <1>0, <1>11 DEF LeaveDrain, AfterDrain, Goto, TypeOK, NoLostWakeup
<1>12. CASE UNCHANGED vars
  BY <1>0, <1>12 DEF vars, NoLostWakeup
<1>13. ASSUME NEW w \in Workers PROVE ~DrainInline(w)
  BY DEF DrainInline
<1> QED
  BY <1>1, <1>2, <1>3, <1>4, <1>5, <1>6, <1>7, <1>8, <1>9, <1>10, <1>11, <1>12, <1>13
     DEF Next, Worker, Drain

\* With a scheduler that defers, only the main thread drains, in order.
LEMMA DeferCorrect ==
  ASSUME Scheduling = {"defer"}
  PROVE  Spec => []DeferInv
<1>1. QueueInv /\ DeferInv /\ [Next]_vars => DeferInv'
  BY DeferStep
<1> QED
  BY <1>1, DeferInit, QueueCorrect, PTL DEF Spec

\* Over all clients together, a scheduler that defers runs the handlers in the
\* order the requests were queued and loses none (task_queue.py, 30-47).
THEOREM MutationsRunInOrder ==
  ASSUME Scheduling = {"defer"}
  PROVE  Spec => []FifoExecution
<1>1. DeferInv => FifoExecution
  BY DEF DeferInv
<1> QED
  BY <1>1, DeferCorrect, PTL

\* With a scheduler that defers, a request in the queue always has a drain to
\* come: the early return on _draining and the break on Empty lose none.
THEOREM NoRequestIsLeftWaiting ==
  ASSUME Scheduling = {"defer"}
  PROVE  Spec => []NoLostWakeup
<1>1. DeferInv => NoLostWakeup
  BY DEF DeferInv
<1> QED
  BY <1>1, DeferCorrect, PTL

=============================================================================
