---------------------------- MODULE MC_StartupFd ----------------------------
(* TLC instance of Startup with two socket-activated (fd://) addresses,    *)
(* each of which may have no inherited socket: the only way a listener     *)
(* returns nil and ServeApi can return StatusOK.                           *)
EXTENDS Startup

MCProtos == <<"fd", "fd">>

=============================================================================
