SPECIFICATION Spec
CONSTANTS
  OutCap = 2
  Ephemeral = TRUE
  ClientCert = TRUE
  NoRenegotiation = FALSE
  PipeLen = 2
  Honest = TRUE
  MaxRecords = 0
  SecureReneg = {TRUE}
  RequestsCert = FALSE
  Resumes = FALSE
  MaxData = 1
  MaxRequests = 0
  MaxWarnings = 0
  ServerCloses = TRUE
  LinkFaults = TRUE
  Calls = {"read", "stop"}
  MaxWrites = 1
  MaxEpochs = 2
  MaxConnects = 1
PROPERTIES
  ErrorsArePermanent
CHECK_DEADLOCK FALSE
