--------------------------- MODULE MC_StartupUnix ---------------------------
(* TLC instance of Startup with two unix-socket addresses               *)
(* (docker -d -H unix:///a -H unix:///b).                                  *)
EXTENDS Startup

MCProtos == <<"unix", "unix">>

=============================================================================
