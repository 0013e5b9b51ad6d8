------------------------- MODULE StartupRefinement -------------------------
(***************************************************************************)
(* Proof that the daemon start-up (Startup) implements the abstract        *)
(* activation gate (ActivationGate) under the mapping GateAbs, for every   *)
(* list of addresses, every flag setting and every connection bound, with  *)
(* listenbuffer on as mainDaemon sets it.  Each step of Startup is a step  *)
(* of the gate or leaves the mapped state alone; the invariant IInv of     *)
(* StartupProofs supplies the facts a step needs.                          *)
(***************************************************************************)
EXTENDS StartupProofs

\* The mapped state, one conjunct per variable of ActivationGate.
MappedSame ==
  /\ Installed' = Installed
  /\ (lock' = "closed") = (lock = "closed")
  /\ served' = served
  /\ exited' = exited

LEMMA Stutter ==
  ASSUME MappedSame PROVE UNCHANGED GateAbs!gvars
BY DEF MappedSame, Accepted, Installed, GateAbs!gvars

\* A fatal error (log.Fatal) or the return of main is the gate's End.
LEMMA Ending ==
  ASSUME ~exited, exited' = TRUE, Installed' = Installed,
         (lock' = "closed") = (lock = "closed"), served' = served
  PROVE  [GateAbs!Next]_GateAbs!gvars
BY DEF GateAbs!Next, GateAbs!End, Accepted, Installed

\* A queued connection leaves room below MaxConns for one more accepted.
LEMMA NextConn ==
  ASSUME NEW m \in Nat, NEW p \in 0 .. m, NEW s \in 0 .. m, NEW n \in 0 .. m,
         p + s = n, p > 0
  PROVE  s + 1 \in 1 .. m
BY SMT

-----------------------------------------------------------------------------
(* One lemma per group of actions.                                         *)

LEMMA MainStepMaps ==
  ASSUME IInv, ~exited, MainStep PROVE [GateAbs!Next]_GateAbs!gvars
<1>1. CASE MainDaemon
  <2>1. daemonPc = "unspawned"
    BY <1>1 DEF MainDaemon, IInv, GateInv, GateLock
  <2>2. Installed' = Installed
    BY <1>1, <2>1 DEF MainDaemon, Installed
  <2>3. CASE exited' = TRUE
    BY <1>1, <2>2, <2>3, Ending DEF MainDaemon
  <2>4. CASE exited' # TRUE
    BY <1>1, <2>2, <2>4, Stutter DEF MainDaemon, MappedSame
  <2>5. QED
    BY <2>3, <2>4
<1>2. CASE ServeApi
  <2>1. lock = "nil"
    BY <1>2 DEF ServeApi, IInv, GateInv, GateLock
  <2>2. QED
    BY <1>2, <2>1, Stutter DEF ServeApi, MappedSame, Installed
<1>3. CASE SpawnListener
  BY <1>3, Stutter DEF SpawnListener, MappedSame, Installed
<1>4. CASE CollectResult
  <2>1. CASE exited' = TRUE
    BY <1>4, <2>1, Ending DEF CollectResult, Installed
  <2>2. CASE exited' # TRUE
    BY <1>4, <2>2, Stutter DEF CollectResult, MappedSame, Installed
  <2>3. QED
    BY <2>1, <2>2
<1>5. QED
  BY <1>1, <1>2, <1>3, <1>4 DEF MainStep

LEMMA DaemonStepMaps ==
  ASSUME IInv, ~exited, DaemonStep PROVE [GateAbs!Next]_GateAbs!gvars
<1>1. CASE NewDaemon
  <2>1. Installed' = Installed
    BY <1>1 DEF NewDaemon, Installed
  <2>2. CASE exited' = TRUE
    BY <1>1, <2>1, <2>2, Ending DEF NewDaemon
  <2>3. CASE exited' # TRUE
    BY <1>1, <2>1, <2>3, Stutter DEF NewDaemon, MappedSame
  <2>4. QED
    BY <2>2, <2>3
\* d.Install returning is the gate's Ready
<1>2. CASE Install
  <2>1. CASE daemonPc' = "acceptConns"
    BY <1>2, <2>1 DEF Install, GateAbs!Next, GateAbs!Ready, Installed, Accepted
  <2>2. CASE daemonPc' # "acceptConns"
    <3>1. exited' = TRUE /\ daemonPc' = daemonPc
      BY <1>2, <2>2 DEF Install
    <3>2. QED
      BY <1>2, <3>1, Ending DEF Install, Installed
  <2>3. QED
    BY <2>1, <2>2
\* closing an open activationLock is the gate's Open
<1>3. CASE AcceptConnections
  <2>1. CASE lock = "open"
    BY <1>3, <2>1 DEF AcceptConnections, GateAbs!Next, GateAbs!Open, Installed, Accepted
  <2>2. CASE lock # "open"
    BY <1>3, <2>2, Stutter DEF AcceptConnections, MappedSame, Installed
  <2>3. QED
    BY <2>1, <2>2
<1>4. QED
  BY <1>1, <1>2, <1>3 DEF DaemonStep

\* Accept(a) hands the next connection of a to the router: the gate's Handle.
LEMMA AcceptMaps ==
  ASSUME BufferRequests = TRUE, IInv, ~exited, NEW a \in Addrs, Accept(a)
  PROVE  GateAbs!Handle
<1> DEFINE c == <<a, served[a] + 1>>
<1>1. served \in [Addrs -> 0 .. MaxConns] /\ pending \in [Addrs -> 0 .. MaxConns]
      /\ connected \in [Addrs -> 0 .. MaxConns]
      /\ pending[a] + served[a] = connected[a]
  BY DEF IInv, TInv, TypeConns, Bookkeeping
<1>0. pending[a] > 0
  BY DEF Accept
<1>2. served[a] + 1 \in 1 .. MaxConns
  <2>1. /\ pending[a] \in 0 .. MaxConns /\ served[a] \in 0 .. MaxConns
        /\ connected[a] \in 0 .. MaxConns
    BY <1>1, Zenon
  <2>2. pending[a] + served[a] = connected[a]
    BY <1>1
  <2>3. MaxConns \in Nat
    BY ConstFacts
  <2>4. QED
    BY <1>0, <2>1, <2>2, <2>3, NextConn
<1>3. c \in (Addrs \X (1 .. MaxConns)) \ Accepted
  BY <1>1, <1>2 DEF Accepted
<1>4. Accepted' = Accepted \cup {c}
  BY <1>1, <1>2 DEF Accept, Accepted
<1>5. lock = "closed"
  BY DEF Accept, IInv, GateInv, GateListen
<1>6. QED
  BY <1>3, <1>4, <1>5 DEF Accept, GateAbs!Handle, Installed

LEMMA ListenerStepMaps ==
  ASSUME BufferRequests = TRUE, IInv, ~exited, NEW a \in Addrs, ListenerStep(a)
  PROVE  [GateAbs!Next]_GateAbs!gvars
<1>1. CASE Accept(a)
  BY <1>1, AcceptMaps DEF GateAbs!Next
<1>2. CASE Start(a) \/ Mask(a) \/ Listen(a) \/ Unmask(a) \/ TlsSetup(a)
           \/ Check(a) \/ FdActivate(a) \/ Send(a)
  <2>1. MappedSame
    BY <1>2 DEF Start, Mask, Listen, Unmask, TlsSetup, Check, FdActivate, Send,
                Fail, OtherThanListener, MappedSame, Installed
  <2>2. QED
    BY <2>1, Stutter
<1>3. QED
  BY <1>1, <1>2 DEF ListenerStep

-----------------------------------------------------------------------------
\* The daemon start-up implements the activation gate: d.Install returns
\* before activationLock is closed, the lock is closed once and stays
\* closed, and every connection httpSrv.Serve accepts on any listener has
\* passed the closed lock and is accepted once, for every list of -H
\* addresses and every flag setting, with listenbuffer on (mainDaemon sets
\* BufferRequests).
THEOREM GateRefinement ==
  ASSUME BufferRequests = TRUE PROVE Spec => ImplementsGate
<1>1. Init => IInv
  BY InitTInv, InitGate DEF IInv
<1>2. IInv /\ [Next]_vars => IInv'
  BY NextTInv, NextGate DEF IInv
<1>3. Init => GateAbs!Init
  BY DEF Init, GateAbs!Init, Installed, Accepted
<1>4. IInv /\ [Next]_vars => [GateAbs!Next]_GateAbs!gvars
  <2> SUFFICES ASSUME IInv, [Next]_vars PROVE [GateAbs!Next]_GateAbs!gvars
    OBVIOUS
  <2>1. CASE ~exited /\ MainStep
    BY <2>1, MainStepMaps
  <2>2. CASE ~exited /\ DaemonStep
    BY <2>2, DaemonStepMaps
  <2>3. CASE ~exited /\ SdNotify
    BY <2>3, Stutter DEF SdNotify, MappedSame, Installed
  <2>4. ASSUME NEW a \in Addrs, ~exited /\ ListenerStep(a)
        PROVE  [GateAbs!Next]_GateAbs!gvars
    BY <2>4, ListenerStepMaps
  <2>5. ASSUME NEW a \in Addrs, ~exited /\ (ServeFail(a) \/ Connect(a))
        PROVE  [GateAbs!Next]_GateAbs!gvars
    BY <2>5, Stutter DEF ServeFail, Connect, Fail, OtherThanListener,
                         ListenerVars, MappedSame, Installed
  <2>6. CASE Terminated \/ UNCHANGED vars
    BY <2>6, Stutter DEF Terminated, vars, MappedSame, Installed
  <2>7. QED
    BY <2>1, <2>2, <2>3, <2>4, <2>5, <2>6 DEF Next
<1>5. QED
  BY <1>1, <1>2, <1>3, <1>4, PTL DEF Spec, GateAbs!Spec, ImplementsGate

=============================================================================
