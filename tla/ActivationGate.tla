--------------------------- MODULE ActivationGate ---------------------------
(***************************************************************************)
(* What the daemon's start-up promises the API clients (spec 4.5): the     *)
(* job handlers become ready, after that the activation gate opens, once, *)
(* and only through an open gate is a client connection handed to the     *)
(* router, each connection once.  The process may end at any point.       *)
(*                                                                         *)
(* Startup implements this specification under the mapping of             *)
(* Startup!GateAbs: ready is "d.Install has returned", open is             *)
(* "activationLock is closed", handled is the set of accepted connections *)
(* and ended is "the process has exited".                                  *)
(***************************************************************************)
CONSTANT Conns   \* the client connections that can be made

VARIABLES
  ready,    \* the daemon's job handlers are registered
  open,     \* the activation gate is open
  handled,  \* the connections handed to the router
  ended     \* the process has ended

gvars == <<ready, open, handled, ended>>

Init ==
  /\ ready = FALSE
  /\ open = FALSE
  /\ handled = {}
  /\ ended = FALSE

\* The job handlers are installed.
Ready ==
  /\ ~ended /\ ~ready
  /\ ready' = TRUE
  /\ UNCHANGED <<open, handled, ended>>

\* The gate opens, and only after the handlers are ready.
Open ==
  /\ ~ended /\ ready /\ ~open
  /\ open' = TRUE
  /\ UNCHANGED <<ready, handled, ended>>

\* A connection not handled before goes through the open gate.
Handle ==
  /\ ~ended /\ open
  /\ \E c \in Conns \ handled : handled' = handled \cup {c}
  /\ UNCHANGED <<ready, open, ended>>

\* The process ends (a fatal error, or the API server returned).
End ==
  /\ ~ended
  /\ ended' = TRUE
  /\ UNCHANGED <<ready, open, handled>>

Next == Ready \/ Open \/ Handle \/ End

Spec == Init /\ [][Next]_gvars

=============================================================================
