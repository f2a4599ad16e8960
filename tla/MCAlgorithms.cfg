SPECIFICATION PartsSpec
CONSTANTS
  BlockLen = 4
  LengthLen = 2
  DigestLen = 3
  Start = 1
  Round <- ToyRound
  Encode <- ToyEncode
  BlockSize = 2
  MacLen = 3
  PadValues = 6
  MaxPayload = 8
  Changes <- MCChanges
  MacKeys <- MacKeysMC
  CbcPayloads <- PayloadsMC
  ContentTypes <- TypesMC
  FirstNumbers = {3}
  W = 4
  ByteBits = 3
  MaxWindow = 3
  MaxRsaSize = 32
  MaxRsaFactor = 12
  Secrets <- SecretsMC
  Data <- DataMC
  MaxCount = 7
  Sessions <- FiveSessions
  Masks <- CollidingMasks
  Forgotten = {2}
  StoreLens = {1, 3, 9}
  EntryLen = 2
  CipherBlock = 4
  ByteValues = 3
  PlainNonce = 3
  NonceLens = {0, 1, 3, 4, 5}
  TagLens = {1, 2, 4, 6}
  ShortAad = 3
  LongAad = 6
  MaxPart = 9
  MaxAad = 9
  MaxInput = 9
  Suites = {"gcm", "ccm", "chapol"}
  Types = {20, 23}
  SwitchType = 20
  Versions = {771}
  Plaintexts = {"p", "q"}
  Garbage = "garbage"
  MaxSent = 4
  Dns <- MCDns
  Keys <- MCKeys
  KeyType <- MCKeyType
  WeakKeys = {"kweak"}
  Verifiers = {"rsa", "ec"}
  Anchors <- MCAnchors
  Now <- MCNow
  Certificates <- MCCertificates
  Hosts <- MCHosts
  MaxChain = 3
  Starts <- MCStarts
  Clocks <- MCClocks
  BeginBanner <- ShortBegin
  EndBanner <- ShortEnd
  NameRoom = 5
  BufferLen = 4
  Texts <- MCTexts
CHECK_DEADLOCK FALSE
INVARIANTS
  RecordsOpenExactly
  DivisionCorrect
  RsaComputesPower
  EntriesLinked
  ModesAsDefined
  RecordsInOrder
  PemAsDefined
  VerdictIsPathValidation
  KeyOfEndEntity
  DatesAreTheirDays
PROPERTIES
  ImplementsDigestStream
  ImplementsLruMap
