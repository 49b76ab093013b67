\* Does a reply that reports the timeout mean that the mutation was not applied?
SPECIFICATION Spec
CONSTANTS
  w1 = w1
  w2 = w2
  Workers <- TwoWorkers
  Main = main
  MaxRequests <- TwoAndOne
  Scheduling <- DeferOnly
  NoTask = NoTask
INVARIANT
  TimeoutMeansNotApplied
CHECK_DEADLOCK FALSE
