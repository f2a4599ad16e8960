SPECIFICATION MCSpec
SYMMETRY Symmetric
CONSTANTS
  MaxPlain = 3
  MaxPad = 2
  IBufLen = 24
  OBufLen = 24
  Shared = TRUE
  InFormats <- mc_formats
  OutFormats <- mc_formats
  FragLens = {2, 9}
  RecordLens = {0, 1, 3, 8, 20}
  ForceValues = {FALSE}
  Devices = {d1, d2}
  Blocks = {b1, b2, b3}
  ChainSize = 2
  Null = Null
  AppMemory = AppMemory
INVARIANTS
  Inv
  HalfDuplex
  BuffersFreedOnce
  OfferedCredentialsMatch
