CONSTANTS
  Protos <- MCProtos
  SocketGroup = "custom"
  Tls = TRUE
  TlsVerify = FALSE
  BufferRequests = TRUE
  MaxConns = 1

SPECIFICATION Spec


PROPERTY ImplementsGate
