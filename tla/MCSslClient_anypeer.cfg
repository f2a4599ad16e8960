SPECIFICATION Spec
CONSTANTS
  OutCap = 2
  Ephemeral = TRUE
  ClientCert = TRUE
  NoRenegotiation = FALSE
  PipeLen = 2
  Honest = FALSE
  MaxRecords = 6
  SecureReneg = {TRUE}
  RequestsCert = TRUE
  Resumes = TRUE
  MaxData = 0
  MaxRequests = 0
  MaxWarnings = 0
  ServerCloses = FALSE
  LinkFaults = TRUE
  Calls = {"br_sslio_read", "br_sslio_write", "br_sslio_flush", "br_sslio_close", "br_ssl_engine_renegotiate"}
  MaxWrites = 1
  MaxEpochs = 3
  MaxConnects = 1
INVARIANTS
  EngineInv
  NoUnfinishedMessage
PROPERTIES
  FlushDelivers
  ImplementsSession
CHECK_DEADLOCK FALSE
