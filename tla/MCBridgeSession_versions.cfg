\* Do the state versions that calls report only grow?
SPECIFICATION Spec
CONSTANTS
  transport = transport
  selection = selection
  SliceOrder <- TransportAndSelection
  Evented <- Told
  Selected <- Selection
  MaxLive <- Once
  MaxConns = 2
  MaxCalls = 2
  NotRead = NotRead
PROPERTY
  VersionsNeverGoBack
\* The system stops when the calls and the edits are used up.
CHECK_DEADLOCK FALSE
