\* schedule_message may also raise, so that workers drain beside the main thread.
SPECIFICATION FairSpec
CONSTANTS
  w1 = w1
  w2 = w2
  Workers <- TwoWorkers
  Main = main
  MaxRequests <- TwoAndOne
  Scheduling <- DeferOrInline
  NoTask = NoTask
INVARIANTS
  AtMostOnce
  OnePlace
  Accounted
  AnswerIsTheHandlers
  FlagHeldByDrainer
PROPERTIES
  EveryRequestAnswered
  ImplementsService
\* The system stops when every client has sent all its requests.
CHECK_DEADLOCK FALSE
