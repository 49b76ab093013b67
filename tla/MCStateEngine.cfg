\* Every event the engine handles, in any order.
SPECIFICATION Spec
CONSTANTS
  drums = drums
  reverb = reverb
  main = main
  kick = kick
  tail = tail
  rack = rack
  eq = eq
  macro = macro
  drive = drive
  Tracks <- ThreeTracks
  Clips <- TwoClips
  Devices <- TwoDevices
  Parameters <- TwoParameters
  TrackOf <- Owner
  DeviceOf <- DeviceOwner
  Section <- Sections
  Kinds <- AllKinds
  NoTrack = NoTrack
INVARIANTS
  TypeOK
  ListsAgree
  NoDangling
PROPERTIES
  ImplementsTree
