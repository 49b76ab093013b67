\* Ableton's scheduler accepts every callback and calls it on its main thread.
SPECIFICATION FairSpec
CONSTANTS
  w1 = w1
  w2 = w2
  Workers <- TwoWorkers
  Main = main
  MaxRequests <- TwoEach
  Scheduling <- DeferOnly
  NoTask = NoTask
INVARIANTS
  TypeOK
  FifoExecution
  NoLostWakeup
PROPERTIES
  EveryMutationRuns
\* The system stops when every client has sent all its requests.
CHECK_DEADLOCK FALSE
