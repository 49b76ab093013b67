\* A snapshot applied to a track that is given by name.
SPECIFICATION Spec
CONSTANTS
  bass = bass
  synth = synth
  reverb = reverb
  Letters <- Letter
  Targets <- Three
  NameOf <- Names
  Returns <- ReturnTracks
  InitialOrder <- BassSynth
  MaxEdits = 1
  Plans <- Catalogue
  Previewable <- WithPreview
  Versioned <- WithVersions
INVARIANTS
  NamedTargetHonoured
