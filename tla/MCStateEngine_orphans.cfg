\* Do the tables hold the project's parameters only, with the events the bridge
\* sends?
SPECIFICATION Spec
CONSTANTS
  drums = drums
  reverb = reverb
  main = main
  kick = kick
  tail = tail
  rack = rack
  eq = eq
  macro = macro
  drive = drive
  Tracks <- ThreeTracks
  Clips <- TwoClips
  Devices <- TwoDevices
  Parameters <- TwoParameters
  TrackOf <- Owner
  DeviceOf <- DeviceOwner
  Section <- Sections
  Kinds <- BridgeKinds
  NoTrack = NoTrack
INVARIANT
  NoOrphanParameters
