\* Every MODE line of MC_Lines, checked against spec.md P7.
CONSTANTS
  Lines <- MC_Lines
  ArgModes <- MC_ArgModes
  Source <- MC_Source
SPECIFICATION Spec
INVARIANT ModeRoundTrip
