SPECIFICATION Spec
CONSTANTS
  OutCap = 2
  Ephemeral = TRUE
  ClientCert = TRUE
  NoRenegotiation = FALSE
  ServerOptions <- FourOptions
  Peers = {"client", "anything"}
  PipeLen = 1
  Limits <- LimitsOf
  ClientConfigs <- Clients
  ServerConfigs <- Servers
  MaxClientSuites = 3
  MaxHandshakes = 2
CHECK_DEADLOCK FALSE
INVARIANTS
  FinishedAgrees
  ClientProven
  RenegotiationSecure
  HonestErrors
  AgreesOnBest
  SameSession
PROPERTIES
  ServerImplementsSession
  ClosesEnd
