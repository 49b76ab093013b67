\* Two calls, with and without the device's file, the helper and the browser item.
SPECIFICATION Spec
CONSTANTS
  lead = lead
  echo = echo
  Tracks <- TwoTracks
  Visible <- OneVisible
  Roots <- TwoRoots
  Score <- Scores
  Browsers <- Libraries
  MaxDepth = 2
  Attempts = 2
  MaxCalls = 2
  MaxMoves = 2
CHECK_DEADLOCK FALSE
INVARIANTS
  TypeOK
  SearchFindsAll
PROPERTIES
  NoDoubleLoad
  PreviewChangesNothing
  CallEnds
