SPECIFICATION Spec
CONSTANTS
  MaxPlain = 7
  MaxPad = 2
  IBufLen = 11
  OBufLen = 24
  Shared = FALSE
  InFormats <- mc_formats
  OutFormats <- mc_formats
  FragLens = {2, 9}
  RecordLens = {0, 1, 3, 6, 7}
  ForceValues = {FALSE, TRUE}
INVARIANTS
  RegionsInBounds
  NeverStuck
  OneUseOfOutput
  NoByteLost
PROPERTIES
  ImplementsChannel
