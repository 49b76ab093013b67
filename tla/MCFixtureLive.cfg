\* Every operation on the default set, in any order.
SPECIFICATION Spec
CONSTANTS
  Slots <- TwoSlots
  Beats <- ThreeBeats
  Lengths <- AnyLengths
  Names = {"b"}
  Tempos = {2}
  Values <- OutOfRange
  NoteLists <- Notes
  Top = 1
  RoutingChoice <- SendsOnly
  MaxCalls = 3
CHECK_DEADLOCK FALSE
INVARIANTS
  TypeOK
  PlayingAgrees
PROPERTIES
  NumberingLasts
  MoveKeepsClips
  SplitKeepsNotes
  ChangesAreTold
