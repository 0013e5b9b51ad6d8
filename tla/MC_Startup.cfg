CONSTANTS
  Protos <- MCProtos
  SocketGroup = "custom"
  Tls = TRUE
  TlsVerify = FALSE
  BufferRequests = TRUE
  MaxConns = 1

SPECIFICATION Spec

INVARIANT TypeOK
INVARIANT NoServeBeforeInstall
INVARIANT UmaskRestored
INVARIANT FanInFaithful

PROPERTY ServedOnceOpen
