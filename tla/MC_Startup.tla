----------------------------- MODULE MC_Startup -----------------------------
(* TLC instance of Startup: one address of each protocol, --tls, an        *)
(* explicit socket group, BufferRequests as mainDaemon sets it.            *)
EXTENDS Startup

MCProtos == <<"unix", "tcp", "fd">>

=============================================================================
