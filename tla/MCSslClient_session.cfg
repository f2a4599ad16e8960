SPECIFICATION Spec
CONSTANTS
  OutCap = 2
  Ephemeral = TRUE
  ClientCert = TRUE
  NoRenegotiation = FALSE
  PipeLen = 2
  Honest = TRUE
  MaxRecords = 0
  SecureReneg = {TRUE}
  RequestsCert = TRUE
  Resumes = TRUE
  MaxData = 1
  MaxRequests = 1
  MaxWarnings = 1
  ServerCloses = TRUE
  LinkFaults = TRUE
  Calls = {"write", "read", "available", "flush", "stop"}
  MaxWrites = 3
  MaxEpochs = 2
  MaxConnects = 2
INVARIANTS
  WrittenInOrder
  DeliveredInOrder
  DataProtected
  ServerUnderstands
  CloseAgreed
CHECK_DEADLOCK FALSE
