\* Lost links, failed starts, late mutations and edits between the calls.
SPECIFICATION FairSpec
CONSTANTS
  transport = transport
  selection = selection
  SliceOrder <- TransportAndSelection
  Evented <- Told
  Selected <- Selection
  MaxLive <- TransportTwice
  MaxConns = 2
  MaxCalls = 2
  NotRead = NotRead
INVARIANTS
  TypeOK
  ReadYourWrites
  MirrorPostdatesConnection
  UnracedIsCurrent
  RefreshAdvances
PROPERTIES
  ImplementsView
  EveryCallReturns
\* The system stops when the calls and the edits are used up.
CHECK_DEADLOCK FALSE
