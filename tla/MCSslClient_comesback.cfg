SPECIFICATION FairSpec
CONSTANTS
  OutCap = 2
  Ephemeral = TRUE
  ClientCert = TRUE
  NoRenegotiation = FALSE
  PipeLen = 2
  Honest = TRUE
  MaxRecords = 0
  SecureReneg = {TRUE, FALSE}
  RequestsCert = TRUE
  Resumes = TRUE
  MaxData = 1
  MaxRequests = 1
  MaxWarnings = 1
  ServerCloses = TRUE
  LinkFaults = FALSE
  Calls = {"write", "read", "available", "stop", "br_ssl_engine_renegotiate"}
  MaxWrites = 2
  MaxEpochs = 2
  MaxConnects = 1
INVARIANTS
  NoInsecureRenegotiation
PROPERTIES
  CallsComeBack
CHECK_DEADLOCK FALSE
