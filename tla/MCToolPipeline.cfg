\* Every tool, with every argument, while the set is rearranged twice.
SPECIFICATION Spec
CONSTANTS
  bass = bass
  synth = synth
  reverb = reverb
  Letters <- Letter
  Targets <- Three
  NameOf <- Names
  Returns <- ReturnTracks
  InitialOrder <- BassSynth
  MaxEdits = 2
  Plans <- Catalogue
  Previewable <- WithPreview
  Versioned <- WithVersions
INVARIANTS
  TypeOK
  ActsOnNamed
  SuccessIsShown
  RefusalChangesNothing
  Consent
