\* Does the mirror catch up with Live when nothing is on its way?
SPECIFICATION Spec
CONSTANTS
  transport = transport
  selection = selection
  SliceOrder <- TransportAndSelection
  Evented <- Told
  Selected <- Selection
  MaxLive <- Once
  MaxConns = 1
  MaxCalls = 1
  NotRead = NotRead
INVARIANT
  MirrorCatchesUp
\* The system stops when the calls and the edits are used up.
CHECK_DEADLOCK FALSE
