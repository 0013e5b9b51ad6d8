\* Two ListenAndServe goroutines changing the process umask concurrently.
CONSTANTS
  Protos <- MCProtos
  SocketGroup = "docker"
  Tls = FALSE
  TlsVerify = FALSE
  BufferRequests = TRUE
  MaxConns = 1

SPECIFICATION Spec

INVARIANT UmaskRestored
