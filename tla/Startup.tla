------------------------------ MODULE Startup ------------------------------
(***************************************************************************)
(* Daemon start-up of the API server (docker 1.2.0):                       *)
(*   - mainDaemon (docker/daemon.go) starts a goroutine that builds the    *)
(*     daemon, installs its job handlers and runs "acceptconnections",     *)
(*     then runs the "serveapi" job on the main goroutine;                 *)
(*   - ServeApi (api/server/server.go) makes the process-global channel    *)
(*     activationLock, spawns one ListenAndServe goroutine per -H address  *)
(*     and collects their results from the buffered channel chErrors;      *)
(*   - ListenAndServe sets up a tcp, unix or fd listener; the unix branch  *)
(*     changes the process-wide umask around the bind; listenbuffer        *)
(*     (BufferRequests) and ServeFd hold accepts until activationLock is   *)
(*     closed;                                                             *)
(*   - AcceptConnections spawns SdNotify("READY=1") and closes             *)
(*     activationLock if it is not nil.                                    *)
(* A log.Fatal anywhere ends the process: the variable exited.             *)
(***************************************************************************)
EXTENDS Naturals, Sequences

CONSTANTS
  Protos,          \* Protos[i] is the protocol of the i-th -H address
  SocketGroup,     \* the -G flag: "none" for -G '' (no chgrp), "docker" (default) or another group
  Tls,             \* the --tls flag
  TlsVerify,       \* the --tlsverify flag
  BufferRequests,  \* the job's BufferRequests setting (mainDaemon sets TRUE)
  MaxConns         \* bound on the client connections made to one address

\* opts.ValidateHost (api.ParseHost) admits only these three schemes.
ProtoNames == {"tcp", "unix", "fd"}

ASSUME ConstantsAssumption ==
  /\ Protos \in Seq(ProtoNames)
  \* main() appends the default unix socket when no -H is given, so the
  \* serveapi job always has an address and ServeApi's usage error is dead
  /\ Len(Protos) > 0
  /\ SocketGroup \in {"none", "docker", "custom"}
  /\ Tls \in BOOLEAN /\ TlsVerify \in BOOLEAN /\ BufferRequests \in BOOLEAN
  /\ MaxConns \in Nat

\* len(protoAddrs)
NAddrs == Len(Protos)

Addrs == 1 .. NAddrs

VARIABLES
  mainPc,     \* the main goroutine: mainDaemon, then ServeApi
  spawnIdx,   \* ServeApi's loop index over protoAddrs (1-based)
  recvd,      \* number of nil results ServeApi has received from chErrors
  apiResult,  \* what ServeApi returned: "none", "ok" or "err"
  daemonPc,   \* the goroutine started by mainDaemon
  notify,     \* the SdNotify goroutine: "none", "pending", "sent"
  lock,       \* activationLock: "nil", "open" (made) or "closed"
  lpc,        \* lpc[a]: where the ListenAndServe goroutine of address a is
  lres,       \* lres[a]: the error ListenAndServe(a) returns: "none", "ok", "err"
  bound,      \* bound[a]: a socket exists on a and queues client connections
  gated,      \* gated[a]: accepts on a wait for activationLock (listenbuffer)
  umask,      \* the process-wide umask: "orig" or "0777"
  saved,      \* saved[a]: oldmask of the unix branch of ListenAndServe(a)
  chErrors,   \* the buffered channel of listener results
  pending,    \* pending[a]: connections queued on a, not yet accepted
  connected,  \* connected[a]: connections ever made to a
  served,     \* served[a]: connections accepted and handed to the router
  exited      \* the process has ended (log.Fatal or main returned)

vars == <<mainPc, spawnIdx, recvd, apiResult, daemonPc, notify, lock, lpc,
          lres, bound, gated, umask, saved, chErrors, pending, connected,
          served, exited>>

MainPcs   == {"mainDaemon", "serveApi", "spawn", "collect", "returned"}
DaemonPcs == {"unspawned", "newDaemon", "install", "acceptConns", "done"}
LPcs == {"idle", "start", "mask", "listen", "unmask", "tls", "check",
         "fdWait", "serving", "send", "exit"}

\* Capacity of chErrors: make(chan error, len(protoAddrs)).
ChCap == NAddrs

\* Between Umask(0777) and the restore of oldmask.
UmaskWindow == {"listen", "unmask"}

\* The daemon's job handlers are registered once d.Install has returned.
Installed == daemonPc \in {"acceptConns", "done"}

-----------------------------------------------------------------------------

Init ==
  /\ mainPc = "mainDaemon"
  /\ spawnIdx = 1
  /\ recvd = 0
  /\ apiResult = "none"
  /\ daemonPc = "unspawned"
  /\ notify = "none"
  /\ lock = "nil"
  /\ lpc = [a \in Addrs |-> "idle"]
  /\ lres = [a \in Addrs |-> "none"]
  \* an inherited (socket-activated) descriptor may or may not exist
  /\ bound \in {f \in [Addrs -> BOOLEAN] : \A a \in Addrs : f[a] => Protos[a] = "fd"}
  /\ gated = [a \in Addrs |-> FALSE]
  /\ umask = "orig"
  /\ saved = [a \in Addrs |-> "orig"]
  /\ chErrors = <<>>
  /\ pending = [a \in Addrs |-> 0]
  /\ connected = [a \in Addrs |-> 0]
  /\ served = [a \in Addrs |-> 0]
  /\ exited = FALSE

-----------------------------------------------------------------------------
(* The main goroutine.                                                     *)

\* mainDaemon: builtins.Register (fatal on error), then "go func()" for the
\* daemon, then the serveapi job is built and run.
MainDaemon ==
  /\ mainPc = "mainDaemon"
  /\ \/ /\ daemonPc' = "newDaemon"
        /\ mainPc' = "serveApi"
        /\ UNCHANGED exited
     \/ /\ exited' = TRUE                  \* builtins.Register failed
        /\ UNCHANGED <<mainPc, daemonPc>>
  /\ UNCHANGED <<spawnIdx, recvd, apiResult, notify, lock, lpc, lres, bound,
                 gated, umask, saved, chErrors, pending, connected, served>>

\* ServeApi: activationLock = make(chan struct{}) (its usage error on an
\* empty address list cannot happen, see ConstantsAssumption).
ServeApi ==
  /\ mainPc = "serveApi"
  /\ lock' = "open"
  /\ mainPc' = "spawn"
  /\ UNCHANGED <<apiResult, exited, spawnIdx, recvd, daemonPc, notify, lpc, lres, bound, gated,
                 umask, saved, chErrors, pending, connected, served>>

\* One iteration of the loop "for _, protoAddr := range protoAddrs { go ... }".
SpawnListener ==
  /\ mainPc = "spawn"
  /\ lpc' = [lpc EXCEPT ![spawnIdx] = "start"]
  /\ spawnIdx' = spawnIdx + 1
  /\ mainPc' = IF spawnIdx = NAddrs THEN "collect" ELSE "spawn"
  /\ UNCHANGED <<recvd, apiResult, daemonPc, notify, lock, lres, bound, gated,
                 umask, saved, chErrors, pending, connected, served, exited>>

\* Mutant: "if err == nil" in place of "if err != nil" (a nil result is
\* returned as the failure).
CollectResultInverted ==
  /\ mainPc = "collect"
  /\ chErrors # <<>>
  /\ chErrors' = Tail(chErrors)
  /\ IF Head(chErrors) = "ok"
       THEN /\ apiResult' = "err" /\ mainPc' = "returned" /\ exited' = TRUE
            /\ UNCHANGED recvd
       ELSE /\ recvd' = recvd + 1
            /\ IF recvd + 1 = NAddrs
                 THEN apiResult' = "ok" /\ mainPc' = "returned" /\ exited' = TRUE
                 ELSE UNCHANGED <<apiResult, mainPc, exited>>
  /\ UNCHANGED <<spawnIdx, daemonPc, notify, lock, lpc, lres, bound, gated,
                 umask, saved, pending, connected, served>>

CollectResult ==
  /\ mainPc = "collect"
  /\ chErrors # <<>>
  /\ chErrors' = Tail(chErrors)
  /\ IF Head(chErrors) = "err"
       THEN /\ apiResult' = "err" /\ mainPc' = "returned" /\ exited' = TRUE
            /\ UNCHANGED recvd
       ELSE /\ recvd' = recvd + 1
            /\ IF recvd + 1 = NAddrs
                 THEN apiResult' = "ok" /\ mainPc' = "returned" /\ exited' = TRUE
                 ELSE UNCHANGED <<apiResult, mainPc, exited>>
  /\ UNCHANGED <<spawnIdx, daemonPc, notify, lock, lpc, lres, bound, gated,
                 umask, saved, pending, connected, served>>

-----------------------------------------------------------------------------
(* The daemon goroutine of mainDaemon and the jobs it runs.                *)

\* daemon.NewDaemon; log.Fatal on error.
NewDaemon ==
  /\ daemonPc = "newDaemon"
  /\ \/ daemonPc' = "install" /\ UNCHANGED exited
     \/ exited' = TRUE /\ UNCHANGED daemonPc
  /\ UNCHANGED <<mainPc, spawnIdx, recvd, apiResult, notify, lock, lpc, lres,
                 bound, gated, umask, saved, chErrors, pending, connected, served>>

\* d.Install(eng) registers the container and image jobs; log.Fatal on error.
Install ==
  /\ daemonPc = "install"
  /\ \/ daemonPc' = "acceptConns" /\ UNCHANGED exited
     \/ exited' = TRUE /\ UNCHANGED daemonPc
  /\ UNCHANGED <<mainPc, spawnIdx, recvd, apiResult, notify, lock, lpc, lres,
                 bound, gated, umask, saved, chErrors, pending, connected, served>>

\* Mutant: the acceptconnections job is run before d.Install.
AcceptConnectionsBeforeInstall ==
  /\ daemonPc \in {"install", "acceptConns"}
  /\ notify' = "pending"
  /\ lock' = IF lock = "open" THEN "closed" ELSE lock
  /\ daemonPc' = "done"
  /\ UNCHANGED <<mainPc, spawnIdx, recvd, apiResult, exited, lpc, lres, bound,
                 gated, umask, saved, chErrors, pending, connected, served>>

\* The acceptconnections job: "go systemd.SdNotify(...)", then
\* "if activationLock != nil { close(activationLock) }".  activationLock is
\* written by ServeApi without synchronisation, so this reads whichever
\* value it finds.
AcceptConnections ==
  /\ daemonPc = "acceptConns"
  /\ notify' = "pending"
  /\ lock' = IF lock = "open" THEN "closed" ELSE lock
  /\ daemonPc' = "done"
  /\ UNCHANGED <<mainPc, spawnIdx, recvd, apiResult, exited, lpc, lres, bound,
                 gated, umask, saved, chErrors, pending, connected, served>>

\* systemd.SdNotify: best effort, its error is dropped.
SdNotify ==
  /\ notify = "pending"
  /\ notify' = "sent"
  /\ UNCHANGED <<mainPc, spawnIdx, recvd, apiResult, daemonPc, lock, lpc, lres,
                 bound, gated, umask, saved, chErrors, pending, connected,
                 served, exited>>

-----------------------------------------------------------------------------
(* One ListenAndServe goroutine per address a.                             *)

ListenerVars == <<lpc, lres, bound, gated, umask, saved>>
OtherThanListener == <<mainPc, spawnIdx, recvd, apiResult, daemonPc, notify,
                       lock, chErrors, pending, connected, served, exited>>

\* Return err from ListenAndServe: the goroutine then sends it on chErrors.
Fail(a) == lres' = [lres EXCEPT ![a] = "err"] /\ lpc' = [lpc EXCEPT ![a] = "send"]

\* createRouter; "fd" goes to ServeFd, whose systemd.ListenFD either fails,
\* returns no listener, or returns the inherited sockets; "unix" unlinks the
\* stale socket (an error other than ENOENT is returned).
Start(a) ==
  /\ lpc[a] = "start"
  /\ CASE Protos[a] = "fd" ->
            \/ Fail(a)
            \/ lpc' = [lpc EXCEPT ![a] = "fdWait"] /\ UNCHANGED lres
       [] Protos[a] = "unix" ->
            \/ Fail(a)
            \/ lpc' = [lpc EXCEPT ![a] = "mask"] /\ UNCHANGED lres
       [] OTHER -> lpc' = [lpc EXCEPT ![a] = "listen"] /\ UNCHANGED lres
  /\ UNCHANGED <<bound, gated, umask, saved>>
  /\ UNCHANGED OtherThanListener

\* oldmask = syscall.Umask(0777)
Mask(a) ==
  /\ lpc[a] = "mask"
  /\ saved' = [saved EXCEPT ![a] = umask]
  /\ umask' = "0777"
  /\ lpc' = [lpc EXCEPT ![a] = "listen"]
  /\ UNCHANGED <<lres, bound, gated>>
  /\ UNCHANGED OtherThanListener

\* Mutant: "if err != nil { return err }" before the umask is restored.
ListenEarlyReturn(a) ==
  /\ lpc[a] = "listen"
  /\ \/ /\ bound' = [bound EXCEPT ![a] = TRUE]
        /\ gated' = [gated EXCEPT ![a] = BufferRequests]
        /\ lpc' = [lpc EXCEPT ![a] = IF Protos[a] = "unix" THEN "unmask" ELSE "tls"]
        /\ UNCHANGED lres
     \/ /\ lres' = [lres EXCEPT ![a] = "err"]
        /\ lpc' = [lpc EXCEPT ![a] = "send"]
        /\ UNCHANGED <<bound, gated>>
  /\ UNCHANGED <<umask, saved>>
  /\ UNCHANGED OtherThanListener

\* listenbuffer.NewListenBuffer(proto, addr, activationLock) or net.Listen.
\* The unix branch restores the umask before it looks at err.
Listen(a) ==
  /\ lpc[a] = "listen"
  /\ \/ /\ bound' = [bound EXCEPT ![a] = TRUE]
        /\ gated' = [gated EXCEPT ![a] = BufferRequests]
        /\ lpc' = [lpc EXCEPT ![a] = IF Protos[a] = "unix" THEN "unmask" ELSE "tls"]
        /\ UNCHANGED lres
     \/ /\ lres' = [lres EXCEPT ![a] = "err"]
        /\ lpc' = [lpc EXCEPT ![a] = IF Protos[a] = "unix" THEN "unmask" ELSE "send"]
        /\ UNCHANGED <<bound, gated>>
  /\ UNCHANGED <<umask, saved>>
  /\ UNCHANGED OtherThanListener

\* syscall.Umask(oldmask); then "if err != nil { return err }".
Unmask(a) ==
  /\ lpc[a] = "unmask"
  /\ umask' = saved[a]
  /\ lpc' = [lpc EXCEPT ![a] = IF lres[a] = "err" THEN "send" ELSE "tls"]
  /\ UNCHANGED <<lres, bound, gated, saved>>
  /\ UNCHANGED OtherThanListener

\* Non-unix with --tls or --tlsverify: tls.LoadX509KeyPair and, with
\* --tlsverify, reading the CA file; either failing is returned.
TlsSetup(a) ==
  /\ lpc[a] = "tls"
  /\ IF Protos[a] # "unix" /\ (Tls \/ TlsVerify)
       THEN \/ Fail(a)
            \/ lpc' = [lpc EXCEPT ![a] = "check"] /\ UNCHANGED lres
       ELSE lpc' = [lpc EXCEPT ![a] = "check"] /\ UNCHANGED lres
  /\ UNCHANGED <<bound, gated, umask, saved>>
  /\ UNCHANGED OtherThanListener

\* The protocol switch: tcp serves (after a warning); unix does changeGroup
\* (an error is fatal unless the group is the default "docker") then
\* os.Chmod(addr, 0660).  The default branch ("Invalid protocol format")
\* is unreachable: ProtoNames are the only schemes ParseHost lets through.
Check(a) ==
  /\ lpc[a] = "check"
  /\ CASE Protos[a] = "tcp" -> lpc' = [lpc EXCEPT ![a] = "serving"] /\ UNCHANGED lres
       [] Protos[a] = "unix" ->
            \/ lpc' = [lpc EXCEPT ![a] = "serving"] /\ UNCHANGED lres
            \/ /\ SocketGroup \notin {"none", "docker"}  \* changeGroup failed
               /\ Fail(a)
            \/ Fail(a)                               \* os.Chmod failed
  /\ UNCHANGED <<bound, gated, umask, saved>>
  /\ UNCHANGED OtherThanListener

\* ServeFd: "<-activationLock", then one http.Server per inherited socket;
\* with no socket the loops are empty and ServeFd returns nil.
FdActivate(a) ==
  /\ lpc[a] = "fdWait"
  /\ lock = "closed"
  /\ IF bound[a]
       THEN lpc' = [lpc EXCEPT ![a] = "serving"] /\ UNCHANGED lres
       ELSE /\ lpc' = [lpc EXCEPT ![a] = "send"]
            /\ lres' = [lres EXCEPT ![a] = "ok"]
  /\ UNCHANGED <<bound, gated, umask, saved>>
  /\ UNCHANGED OtherThanListener

\* Mutants of Accept: no check for a queued connection; no activation
\* gate (net.Listen in place of listenbuffer); an off-by-one in the queue.
AcceptUnqueued(a) ==
  /\ lpc[a] = "serving"
  /\ ~gated[a] \/ lock = "closed"
  /\ pending' = [pending EXCEPT ![a] = @ - 1]
  /\ served' = [served EXCEPT ![a] = @ + 1]
  /\ UNCHANGED <<mainPc, spawnIdx, recvd, apiResult, daemonPc, notify, lock,
                 chErrors, connected, exited>>
  /\ UNCHANGED ListenerVars

AcceptUngated(a) ==
  /\ lpc[a] = "serving"
  /\ pending[a] > 0
  /\ pending' = [pending EXCEPT ![a] = @ - 1]
  /\ served' = [served EXCEPT ![a] = @ + 1]
  /\ UNCHANGED <<mainPc, spawnIdx, recvd, apiResult, daemonPc, notify, lock,
                 chErrors, connected, exited>>
  /\ UNCHANGED ListenerVars

AcceptOffByOne(a) ==
  /\ lpc[a] = "serving"
  /\ pending[a] > 1
  /\ ~gated[a] \/ lock = "closed"
  /\ pending' = [pending EXCEPT ![a] = @ - 1]
  /\ served' = [served EXCEPT ![a] = @ + 1]
  /\ UNCHANGED <<mainPc, spawnIdx, recvd, apiResult, daemonPc, notify, lock,
                 chErrors, connected, exited>>
  /\ UNCHANGED ListenerVars

\* httpSrv.Serve(l) accepts a queued connection and hands it to the router;
\* a listenbuffer listener blocks its Accept until activationLock is closed.
Accept(a) ==
  /\ lpc[a] = "serving"
  /\ pending[a] > 0
  /\ ~gated[a] \/ lock = "closed"
  /\ pending' = [pending EXCEPT ![a] = @ - 1]
  /\ served' = [served EXCEPT ![a] = @ + 1]
  /\ UNCHANGED <<mainPc, spawnIdx, recvd, apiResult, daemonPc, notify, lock,
                 chErrors, connected, exited>>
  /\ UNCHANGED ListenerVars

\* Serve returns only with an error (a permanent Accept failure).
ServeFail(a) ==
  /\ lpc[a] = "serving"
  /\ Fail(a)
  /\ UNCHANGED <<bound, gated, umask, saved>>
  /\ UNCHANGED OtherThanListener

\* "chErrors <- ListenAndServe(...)"; blocks while the buffer is full.
Send(a) ==
  /\ lpc[a] = "send"
  /\ Len(chErrors) < ChCap
  /\ chErrors' = Append(chErrors, lres[a])
  /\ lpc' = [lpc EXCEPT ![a] = "exit"]
  /\ UNCHANGED <<mainPc, spawnIdx, recvd, apiResult, daemonPc, notify, lock,
                 pending, connected, served, exited>>
  /\ UNCHANGED <<lres, bound, gated, umask, saved>>

-----------------------------------------------------------------------------
(* Clients.                                                                *)

\* A client connects to a bound socket; the kernel queues the connection.
Connect(a) ==
  /\ bound[a]
  /\ connected[a] < MaxConns
  /\ connected' = [connected EXCEPT ![a] = @ + 1]
  /\ pending' = [pending EXCEPT ![a] = @ + 1]
  /\ UNCHANGED <<mainPc, spawnIdx, recvd, apiResult, daemonPc, notify, lock,
                 chErrors, served, exited>>
  /\ UNCHANGED ListenerVars

-----------------------------------------------------------------------------

ListenerStep(a) ==
  \/ Start(a) \/ Mask(a) \/ Listen(a) \/ Unmask(a) \/ TlsSetup(a)
  \/ Check(a) \/ FdActivate(a) \/ Accept(a) \/ Send(a)

MainStep == MainDaemon \/ ServeApi \/ SpawnListener \/ CollectResult

DaemonStep == NewDaemon \/ Install \/ AcceptConnections

\* The process has exited: nothing happens any more.
Terminated == exited /\ UNCHANGED vars

Next ==
  \/ ~exited /\ MainStep
  \/ ~exited /\ DaemonStep
  \/ ~exited /\ SdNotify
  \/ \E a \in Addrs : ~exited /\ ListenerStep(a)
  \/ \E a \in Addrs : ~exited /\ ServeFail(a)
  \/ \E a \in Addrs : ~exited /\ Connect(a)
  \/ Terminated

\* Every goroutine is scheduled eventually (Go's scheduler); clients and
\* accept failures are not obliged to happen.
Fairness ==
  /\ WF_vars(~exited /\ MainStep)
  /\ WF_vars(~exited /\ DaemonStep)
  /\ WF_vars(~exited /\ SdNotify)
  /\ \A a \in Addrs : WF_vars(~exited /\ ListenerStep(a))

Spec == Init /\ [][Next]_vars /\ Fairness

-----------------------------------------------------------------------------
(* Properties.                                                             *)

TypeOK ==
  /\ mainPc \in MainPcs
  /\ spawnIdx \in 1 .. NAddrs + 1
  /\ recvd \in 0 .. NAddrs
  /\ apiResult \in {"none", "ok", "err"}
  /\ daemonPc \in DaemonPcs
  /\ notify \in {"none", "pending", "sent"}
  /\ lock \in {"nil", "open", "closed"}
  /\ lpc \in [Addrs -> LPcs]
  /\ lres \in [Addrs -> {"none", "ok", "err"}]
  /\ bound \in [Addrs -> BOOLEAN]
  /\ gated \in [Addrs -> BOOLEAN]
  /\ umask \in {"orig", "0777"}
  /\ saved \in [Addrs -> {"orig", "0777"}]
  /\ chErrors \in Seq({"ok", "err"})
  /\ Len(chErrors) <= ChCap
  /\ pending \in [Addrs -> 0 .. MaxConns]
  /\ connected \in [Addrs -> 0 .. MaxConns]
  /\ served \in [Addrs -> 0 .. MaxConns]
  /\ exited \in BOOLEAN

\* No connection reaches the router before d.Install has registered the
\* job handlers: the activation gate (listenbuffer, ServeFd) holds every
\* accept until AcceptConnections closes activationLock.
NoServeBeforeInstall == (\E a \in Addrs : served[a] > 0) => Installed

\* Once no unix listener is between Umask(0777) and the restore, the
\* process umask is the original one (files the daemon creates later get
\* their normal permissions).
UmaskRestored == (\A a \in Addrs : lpc[a] \notin UmaskWindow) => umask = "orig"

\* ServeApi's fan-in: it reports success only when every listener returned
\* nil, and an error only when some listener returned one.
FanInFaithful ==
  /\ apiResult = "ok" => \A a \in Addrs : lres[a] = "ok"
  /\ apiResult = "err" => \E a \in Addrs : lres[a] = "err"

\* Once the gate is open, every connection queued on an address is
\* eventually accepted, unless the process ends.
ServedOnceOpen ==
  \A a \in Addrs : (pending[a] > 0 /\ lock = "closed") ~> (pending[a] = 0 \/ exited)

\* After the acceptconnections job has run, the listeners' gate is
\* eventually open (or the process has ended).
ReadyLeadsToGateOpen == daemonPc = "done" ~> (lock = "closed" \/ exited)

-----------------------------------------------------------------------------
(* Refinement of the abstract activation gate.                             *)

\* The connections accepted so far: the k-th one accepted on address a is
\* <<a, k>>.
Accepted == {c \in Addrs \X (1 .. MaxConns) : c[2] <= served[c[1]]}

GateAbs == INSTANCE ActivationGate
             WITH Conns <- Addrs \X (1 .. MaxConns),
                  ready <- Installed,
                  open <- lock = "closed",
                  handled <- Accepted,
                  ended <- exited

\* The start-up implements the activation gate (spec 4.5): the handlers
\* are installed (d.Install) before activationLock is closed, the lock is
\* closed at most once and never reopened, and every connection that
\* httpSrv.Serve accepts, on any listener, passes a closed lock and is
\* accepted once.  It is about AcceptConnections, listenbuffer's and
\* ServeFd's wait, and the order of mainDaemon's two goroutines.
ImplementsGate == GateAbs!Spec

=============================================================================
