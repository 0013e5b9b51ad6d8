--------------------------- MODULE StartupProofs ---------------------------
(***************************************************************************)
(* Proofs about the start-up of the API server (module Startup), for every *)
(* list of addresses and every flag setting.                               *)
(***************************************************************************)
EXTENDS Startup, SequenceTheorems, TLAPS

\* The bookkeeping facts that make TypeOK inductive: ServeApi's loop
\* indices stay in range, every connection made is either queued or has
\* been accepted, and a listener about to send has a result to send.
Bookkeeping ==
  /\ mainPc \in {"mainDaemon", "serveApi"} => spawnIdx = 1
  /\ mainPc \in {"mainDaemon", "serveApi", "spawn"} => recvd = 0
  /\ mainPc = "spawn" => spawnIdx \in Addrs
  /\ mainPc = "collect" => recvd < NAddrs
  /\ \A a \in Addrs : pending[a] + served[a] = connected[a]
  /\ \A a \in Addrs : lpc[a] = "send" => lres[a] \in {"ok", "err"}
  /\ \A a \in Addrs : lpc[a] \in {"mask", "listen", "unmask", "tls", "check"}
                       => Protos[a] # "fd"

\* TypeOK in three parts, one per group of goroutines whose state it
\* types, so that a step's proof only opens the part the step changes.
TypeMain ==
  /\ mainPc \in MainPcs
  /\ spawnIdx \in 1 .. NAddrs + 1
  /\ recvd \in 0 .. NAddrs
  /\ apiResult \in {"none", "ok", "err"}
  /\ daemonPc \in DaemonPcs
  /\ notify \in {"none", "pending", "sent"}
  /\ lock \in {"nil", "open", "closed"}

TypeExit == exited \in BOOLEAN

TypeListen ==
  /\ lpc \in [Addrs -> LPcs]
  /\ lres \in [Addrs -> {"none", "ok", "err"}]
  /\ bound \in [Addrs -> BOOLEAN]
  /\ gated \in [Addrs -> BOOLEAN]
  /\ umask \in {"orig", "0777"}
  /\ saved \in [Addrs -> {"orig", "0777"}]

TypeConns ==
  /\ chErrors \in Seq({"ok", "err"})
  /\ Len(chErrors) <= ChCap
  /\ pending \in [Addrs -> 0 .. MaxConns]
  /\ connected \in [Addrs -> 0 .. MaxConns]
  /\ served \in [Addrs -> 0 .. MaxConns]

TInv == TypeMain /\ TypeExit /\ TypeListen /\ TypeConns /\ Bookkeeping

\* The activation gate: what must hold for the gate to keep every accept
\* away until d.Install has returned.
\*  - the daemon goroutine starts after mainDaemon's Register; activationLock
\*    is made once, by ServeApi, and only closed after Install;
\*  - a tcp or unix listener that got past the bind is gated (listenbuffer);
\*  - a serving listener is gated or the gate is already open.
GateLock ==
  /\ mainPc = "mainDaemon" => daemonPc = "unspawned"
  /\ mainPc \in {"mainDaemon", "serveApi"} => lock = "nil"
  /\ lock = "closed" => Installed

GateListen ==
  \A a \in Addrs :
    /\ lpc[a] = "unmask" => (gated[a] \/ lres[a] = "err")
    /\ lpc[a] \in {"tls", "check"} => gated[a]
    /\ lpc[a] = "serving" => (gated[a] \/ lock = "closed")

GateInv == GateLock /\ GateListen /\ NoServeBeforeInstall

IInv == TInv /\ GateInv

\* The facts about the constants the proofs use.  NAddrs is kept
\* opaque: the SMT backend loops on goals that mention Len(Protos).
LEMMA ConstFacts ==
  /\ NAddrs \in Nat \ {0}
  /\ MaxConns \in Nat
  /\ BufferRequests \in BOOLEAN
  BY ConstantsAssumption DEF NAddrs

USE ConstFacts

\* Every -H address has one of the three schemes.
LEMMA ProtosType == \A a \in Addrs : Protos[a] \in ProtoNames
  BY ConstantsAssumption, ElementOfSeq DEF Addrs, NAddrs

-----------------------------------------------------------------------------
(* TInv is inductive: one lemma per action, one step per part of TInv.    *)

LEMMA TypeParts == TypeOK <=> TypeMain /\ TypeExit /\ TypeListen /\ TypeConns
  BY DEF TypeOK, TypeMain, TypeExit, TypeListen, TypeConns

LEMMA InitTInv == ASSUME Init PROVE TInv
<1>1. TypeMain
  BY DEF Init, TypeMain, MainPcs, DaemonPcs
<1>2. TypeExit
  BY DEF Init, TypeExit
<1>3. TypeListen
  BY DEF Init, TypeListen, LPcs
<1>4. TypeConns
  BY DEF Init, TypeConns, ChCap
<1>5. Bookkeeping
  BY DEF Init, Bookkeeping
<1>6. QED
  BY <1>1, <1>2, <1>3, <1>4, <1>5 DEF TInv

LEMMA MainDaemonTInv == ASSUME TInv, MainDaemon PROVE TInv'
<1>1. TypeMain'
  BY DEF MainDaemon, TInv, TypeMain, MainPcs, DaemonPcs, Bookkeeping, Addrs
<1>2. TypeExit'
  BY DEF MainDaemon, TInv, TypeExit
<1>3. TypeListen'
  BY DEF MainDaemon, TInv, TypeListen, LPcs, Bookkeeping, Addrs
<1>4. TypeConns'
  BY DEF MainDaemon, TInv, TypeConns, ChCap, Bookkeeping, Addrs
<1>5. Bookkeeping'
  BY DEF MainDaemon, TInv, Bookkeeping, TypeMain, TypeListen, TypeConns, Addrs
<1>6. QED
  BY <1>1, <1>2, <1>3, <1>4, <1>5 DEF TInv

LEMMA ServeApiTInv == ASSUME TInv, ServeApi PROVE TInv'
<1>1. TypeMain'
  BY DEF ServeApi, TInv, TypeMain, MainPcs, DaemonPcs, Bookkeeping, Addrs
<1>2. TypeExit'
  BY DEF ServeApi, TInv, TypeExit
<1>3. TypeListen'
  BY DEF ServeApi, TInv, TypeListen, LPcs, Bookkeeping, Addrs
<1>4. TypeConns'
  BY DEF ServeApi, TInv, TypeConns, ChCap, Bookkeeping, Addrs
<1>5. Bookkeeping'
  BY DEF ServeApi, TInv, Bookkeeping, TypeMain, TypeListen, TypeConns, Addrs
<1>6. QED
  BY <1>1, <1>2, <1>3, <1>4, <1>5 DEF TInv

LEMMA SpawnListenerTInv == ASSUME TInv, SpawnListener PROVE TInv'
<1>1. TypeMain'
  BY DEF SpawnListener, TInv, TypeMain, MainPcs, DaemonPcs, Bookkeeping, Addrs
<1>2. TypeExit'
  BY DEF SpawnListener, TInv, TypeExit
<1>3. TypeListen'
  BY DEF SpawnListener, TInv, TypeListen, LPcs, Bookkeeping, Addrs
<1>4. TypeConns'
  BY DEF SpawnListener, TInv, TypeConns, ChCap, Bookkeeping, Addrs
<1>5. Bookkeeping'
  BY DEF SpawnListener, TInv, Bookkeeping, TypeMain, TypeListen, TypeConns, Addrs
<1>6. QED
  BY <1>1, <1>2, <1>3, <1>4, <1>5 DEF TInv

LEMMA CollectResultTInv == ASSUME TInv, CollectResult PROVE TInv'
<1>1. TypeMain'
  BY DEF CollectResult, TInv, TypeMain, MainPcs, DaemonPcs, Bookkeeping, Addrs
<1>2. TypeExit'
  BY DEF CollectResult, TInv, TypeExit
<1>3. TypeListen'
  BY DEF CollectResult, TInv, TypeListen, LPcs, Bookkeeping, Addrs
<1>4. TypeConns'
  <2>1. chErrors \in Seq({"ok", "err"}) /\ chErrors # <<>> /\ Len(chErrors) <= ChCap
    BY DEF CollectResult, TInv, TypeConns
  <2>2. Tail(chErrors) \in Seq({"ok", "err"}) /\ Len(Tail(chErrors)) = Len(chErrors) - 1
    BY <2>1, HeadTailProperties
  <2>4. Len(chErrors) \in Nat
    BY <2>1, LenProperties
  <2>5. Len(Tail(chErrors)) <= ChCap
    BY <2>1, <2>2, <2>4 DEF ChCap
  <2>3. QED
    BY <2>2, <2>5 DEF CollectResult, TInv, TypeConns
<1>5. Bookkeeping'
  BY DEF CollectResult, TInv, Bookkeeping, TypeMain, TypeListen, TypeConns, Addrs
<1>6. QED
  BY <1>1, <1>2, <1>3, <1>4, <1>5 DEF TInv

LEMMA NewDaemonTInv == ASSUME TInv, NewDaemon PROVE TInv'
<1>1. TypeMain'
  BY DEF NewDaemon, TInv, TypeMain, MainPcs, DaemonPcs, Bookkeeping, Addrs
<1>2. TypeExit'
  BY DEF NewDaemon, TInv, TypeExit
<1>3. TypeListen'
  BY DEF NewDaemon, TInv, TypeListen, LPcs, Bookkeeping, Addrs
<1>4. TypeConns'
  BY DEF NewDaemon, TInv, TypeConns, ChCap, Bookkeeping, Addrs
<1>5. Bookkeeping'
  BY DEF NewDaemon, TInv, Bookkeeping, TypeMain, TypeListen, TypeConns, Addrs
<1>6. QED
  BY <1>1, <1>2, <1>3, <1>4, <1>5 DEF TInv

LEMMA InstallTInv == ASSUME TInv, Install PROVE TInv'
<1>1. TypeMain'
  BY DEF Install, TInv, TypeMain, MainPcs, DaemonPcs, Bookkeeping, Addrs
<1>2. TypeExit'
  BY DEF Install, TInv, TypeExit
<1>3. TypeListen'
  BY DEF Install, TInv, TypeListen, LPcs, Bookkeeping, Addrs
<1>4. TypeConns'
  BY DEF Install, TInv, TypeConns, ChCap, Bookkeeping, Addrs
<1>5. Bookkeeping'
  BY DEF Install, TInv, Bookkeeping, TypeMain, TypeListen, TypeConns, Addrs
<1>6. QED
  BY <1>1, <1>2, <1>3, <1>4, <1>5 DEF TInv

LEMMA AcceptConnectionsTInv == ASSUME TInv, AcceptConnections PROVE TInv'
<1>1. TypeMain'
  BY DEF AcceptConnections, TInv, TypeMain, MainPcs, DaemonPcs, Bookkeeping, Addrs
<1>2. TypeExit'
  BY DEF AcceptConnections, TInv, TypeExit
<1>3. TypeListen'
  BY DEF AcceptConnections, TInv, TypeListen, LPcs, Bookkeeping, Addrs
<1>4. TypeConns'
  BY DEF AcceptConnections, TInv, TypeConns, ChCap, Bookkeeping, Addrs
<1>5. Bookkeeping'
  BY DEF AcceptConnections, TInv, Bookkeeping, TypeMain, TypeListen, TypeConns, Addrs
<1>6. QED
  BY <1>1, <1>2, <1>3, <1>4, <1>5 DEF TInv

LEMMA SdNotifyTInv == ASSUME TInv, SdNotify PROVE TInv'
<1>1. TypeMain'
  BY DEF SdNotify, TInv, TypeMain, MainPcs, DaemonPcs, Bookkeeping, Addrs
<1>2. TypeExit'
  BY DEF SdNotify, TInv, TypeExit
<1>3. TypeListen'
  BY DEF SdNotify, TInv, TypeListen, LPcs, Bookkeeping, Addrs
<1>4. TypeConns'
  BY DEF SdNotify, TInv, TypeConns, ChCap, Bookkeeping, Addrs
<1>5. Bookkeeping'
  BY DEF SdNotify, TInv, Bookkeeping, TypeMain, TypeListen, TypeConns, Addrs
<1>6. QED
  BY <1>1, <1>2, <1>3, <1>4, <1>5 DEF TInv

LEMMA StartTInv == ASSUME NEW a \in Addrs, TInv, Start(a) PROVE TInv'
<1>1. TypeMain'
  BY DEF Start, Fail, OtherThanListener, TInv, TypeMain, MainPcs, DaemonPcs, Bookkeeping, Addrs
<1>2. TypeExit'
  BY DEF Start, Fail, OtherThanListener, TInv, TypeExit
<1>3. TypeListen'
  BY DEF Start, Fail, OtherThanListener, TInv, TypeListen, LPcs, Bookkeeping, Addrs
<1>4. TypeConns'
  BY DEF Start, Fail, OtherThanListener, TInv, TypeConns, ChCap, Bookkeeping, Addrs
<1>5. Bookkeeping'
  BY DEF Start, Fail, OtherThanListener, TInv, Bookkeeping, TypeMain, TypeListen, TypeConns, Addrs
<1>6. QED
  BY <1>1, <1>2, <1>3, <1>4, <1>5 DEF TInv

LEMMA MaskTInv == ASSUME NEW a \in Addrs, TInv, Mask(a) PROVE TInv'
<1>1. TypeMain'
  BY DEF Mask, OtherThanListener, TInv, TypeMain, MainPcs, DaemonPcs, Bookkeeping, Addrs
<1>2. TypeExit'
  BY DEF Mask, OtherThanListener, TInv, TypeExit
<1>3. TypeListen'
  BY DEF Mask, OtherThanListener, TInv, TypeListen, LPcs, Bookkeeping, Addrs
<1>4. TypeConns'
  BY DEF Mask, OtherThanListener, TInv, TypeConns, ChCap, Bookkeeping, Addrs
<1>5. Bookkeeping'
  BY DEF Mask, OtherThanListener, TInv, Bookkeeping, TypeMain, TypeListen, TypeConns, Addrs
<1>6. QED
  BY <1>1, <1>2, <1>3, <1>4, <1>5 DEF TInv

LEMMA ListenTInv == ASSUME NEW a \in Addrs, TInv, Listen(a) PROVE TInv'
<1>1. TypeMain'
  BY DEF Listen, OtherThanListener, TInv, TypeMain, MainPcs, DaemonPcs, Bookkeeping, Addrs
<1>2. TypeExit'
  BY DEF Listen, OtherThanListener, TInv, TypeExit
<1>3. TypeListen'
  BY DEF Listen, OtherThanListener, TInv, TypeListen, LPcs, Bookkeeping, Addrs
<1>4. TypeConns'
  BY DEF Listen, OtherThanListener, TInv, TypeConns, ChCap, Bookkeeping, Addrs
<1>5. Bookkeeping'
  BY DEF Listen, OtherThanListener, TInv, Bookkeeping, TypeMain, TypeListen, TypeConns, Addrs
<1>6. QED
  BY <1>1, <1>2, <1>3, <1>4, <1>5 DEF TInv

LEMMA UnmaskTInv == ASSUME NEW a \in Addrs, TInv, Unmask(a) PROVE TInv'
<1>1. TypeMain'
  BY DEF Unmask, OtherThanListener, TInv, TypeMain, MainPcs, DaemonPcs, Bookkeeping, Addrs
<1>2. TypeExit'
  BY DEF Unmask, OtherThanListener, TInv, TypeExit
<1>3. TypeListen'
  BY DEF Unmask, OtherThanListener, TInv, TypeListen, LPcs, Bookkeeping, Addrs
<1>4. TypeConns'
  BY DEF Unmask, OtherThanListener, TInv, TypeConns, ChCap, Bookkeeping, Addrs
<1>5. Bookkeeping'
  BY DEF Unmask, OtherThanListener, TInv, Bookkeeping, TypeMain, TypeListen, TypeConns, Addrs
<1>6. QED
  BY <1>1, <1>2, <1>3, <1>4, <1>5 DEF TInv

LEMMA TlsSetupTInv == ASSUME NEW a \in Addrs, TInv, TlsSetup(a) PROVE TInv'
<1>1. TypeMain'
  BY DEF TlsSetup, Fail, OtherThanListener, TInv, TypeMain, MainPcs, DaemonPcs, Bookkeeping, Addrs
<1>2. TypeExit'
  BY DEF TlsSetup, Fail, OtherThanListener, TInv, TypeExit
<1>3. TypeListen'
  BY DEF TlsSetup, Fail, OtherThanListener, TInv, TypeListen, LPcs, Bookkeeping, Addrs
<1>4. TypeConns'
  BY DEF TlsSetup, Fail, OtherThanListener, TInv, TypeConns, ChCap, Bookkeeping, Addrs
<1>5. Bookkeeping'
  BY DEF TlsSetup, Fail, OtherThanListener, TInv, Bookkeeping, TypeMain, TypeListen, TypeConns, Addrs
<1>6. QED
  BY <1>1, <1>2, <1>3, <1>4, <1>5 DEF TInv

\* What a Check step does, whichever protocol the address has.
LEMMA CheckEffect == ASSUME NEW a \in Addrs, TInv, Check(a) PROVE
  /\ \/ lpc' = [lpc EXCEPT ![a] = "serving"] /\ lres' = lres
     \/ lpc' = [lpc EXCEPT ![a] = "send"] /\ lres' = [lres EXCEPT ![a] = "err"]
  /\ UNCHANGED <<bound, gated, umask, saved>>
  /\ UNCHANGED OtherThanListener
<1>1. Protos[a] \in {"tcp", "unix"}
  BY ProtosType DEF Check, TInv, Bookkeeping, ProtoNames
<1>2. CASE Protos[a] = "tcp"
  BY <1>2 DEF Check, Fail
<1>3. CASE Protos[a] = "unix"
  BY <1>3 DEF Check, Fail
<1>4. QED
  BY <1>1, <1>2, <1>3

LEMMA CheckTInv == ASSUME NEW a \in Addrs, TInv, Check(a) PROVE TInv'
<1>0. /\ \/ lpc' = [lpc EXCEPT ![a] = "serving"] /\ lres' = lres
         \/ lpc' = [lpc EXCEPT ![a] = "send"] /\ lres' = [lres EXCEPT ![a] = "err"]
      /\ UNCHANGED <<bound, gated, umask, saved>>
      /\ UNCHANGED OtherThanListener
  BY CheckEffect
<1>1. TypeMain'
  BY <1>0 DEF OtherThanListener, TInv, TypeMain
<1>2. TypeExit'
  BY <1>0 DEF OtherThanListener, TInv, TypeExit
<1>3. TypeListen'
  BY <1>0 DEF TInv, TypeListen, LPcs
<1>4. TypeConns'
  BY <1>0 DEF OtherThanListener, TInv, TypeConns
<1>5. Bookkeeping'
  BY <1>0 DEF OtherThanListener, TInv, Bookkeeping, TypeListen
<1>6. QED
  BY <1>1, <1>2, <1>3, <1>4, <1>5 DEF TInv

LEMMA FdActivateTInv == ASSUME NEW a \in Addrs, TInv, FdActivate(a) PROVE TInv'
<1>1. TypeMain'
  BY DEF FdActivate, OtherThanListener, TInv, TypeMain, MainPcs, DaemonPcs, Bookkeeping, Addrs
<1>2. TypeExit'
  BY DEF FdActivate, OtherThanListener, TInv, TypeExit
<1>3. TypeListen'
  BY DEF FdActivate, OtherThanListener, TInv, TypeListen, LPcs, Bookkeeping, Addrs
<1>4. TypeConns'
  BY DEF FdActivate, OtherThanListener, TInv, TypeConns, ChCap, Bookkeeping, Addrs
<1>5. Bookkeeping'
  <2>1. \A b \in Addrs : lpc'[b] = "send" => lres'[b] \in {"ok", "err"}
    <3>1. CASE bound[a]
      BY <3>1 DEF FdActivate, TInv, Bookkeeping, TypeListen
    <3>2. CASE ~bound[a]
      BY <3>2 DEF FdActivate, TInv, Bookkeeping, TypeListen
    <3>3. QED
      BY <3>1, <3>2
  <2>2. \A b \in Addrs : lpc'[b] \in {"mask", "listen", "unmask", "tls", "check"}
                          => Protos[b] # "fd"
    BY DEF FdActivate, TInv, Bookkeeping, TypeListen
  <2>3. QED
    BY <2>1, <2>2 DEF FdActivate, OtherThanListener, TInv, Bookkeeping
<1>6. QED
  BY <1>1, <1>2, <1>3, <1>4, <1>5 DEF TInv

LEMMA AcceptTInv == ASSUME NEW a \in Addrs, TInv, Accept(a) PROVE TInv'
<1>1. TypeMain'
  BY DEF Accept, ListenerVars, TInv, TypeMain, MainPcs, DaemonPcs, Bookkeeping, Addrs
<1>2. TypeExit'
  BY DEF Accept, ListenerVars, TInv, TypeExit
<1>3. TypeListen'
  BY DEF Accept, ListenerVars, TInv, TypeListen, LPcs, Bookkeeping, Addrs
<1>0. /\ pending[a] > 0
      /\ pending[a] + served[a] = connected[a]
      /\ pending[a] \in 0 .. MaxConns /\ served[a] \in 0 .. MaxConns
      /\ connected[a] \in 0 .. MaxConns
  BY DEF Accept, TInv, Bookkeeping, TypeConns
<1>4. TypeConns'
  <2>1. pending[a] - 1 \in 0 .. MaxConns /\ served[a] + 1 \in 0 .. MaxConns
    BY <1>0
  <2>2. QED
    BY <2>1 DEF Accept, TInv, TypeConns, ChCap
<1>5. Bookkeeping'
  <2>1. (pending[a] - 1) + (served[a] + 1) = connected[a]
    BY <1>0
  <2>2. QED
    BY <2>1 DEF Accept, ListenerVars, TInv, Bookkeeping, TypeConns
<1>6. QED
  BY <1>1, <1>2, <1>3, <1>4, <1>5 DEF TInv

LEMMA SendTInv == ASSUME NEW a \in Addrs, TInv, Send(a) PROVE TInv'
<1>1. TypeMain'
  BY DEF Send, TInv, TypeMain, MainPcs, DaemonPcs, Bookkeeping, Addrs
<1>2. TypeExit'
  BY DEF Send, TInv, TypeExit
<1>3. TypeListen'
  BY DEF Send, TInv, TypeListen, LPcs, Bookkeeping, Addrs
<1>4. TypeConns'
  <2>1. lres[a] \in {"ok", "err"}
    BY DEF Send, TInv, Bookkeeping
  <2>2. Append(chErrors, lres[a]) \in Seq({"ok", "err"})
    BY <2>1 DEF TInv, TypeConns
  <2>5. Len(Append(chErrors, lres[a])) = Len(chErrors) + 1
    BY <2>1, AppendProperties DEF TInv, TypeConns
  <2>6. Len(chErrors) \in Nat /\ Len(chErrors) < ChCap
    BY LenProperties DEF Send, TInv, TypeConns
  <2>3. Len(Append(chErrors, lres[a])) <= ChCap
    BY <2>5, <2>6 DEF ChCap
  <2>4. QED
    BY <2>2, <2>3 DEF Send, TInv, TypeConns
<1>5. Bookkeeping'
  BY DEF Send, TInv, Bookkeeping, TypeMain, TypeListen, TypeConns, Addrs
<1>6. QED
  BY <1>1, <1>2, <1>3, <1>4, <1>5 DEF TInv

LEMMA ServeFailTInv == ASSUME NEW a \in Addrs, TInv, ServeFail(a) PROVE TInv'
<1>1. TypeMain'
  BY DEF ServeFail, Fail, OtherThanListener, TInv, TypeMain, MainPcs, DaemonPcs, Bookkeeping, Addrs
<1>2. TypeExit'
  BY DEF ServeFail, Fail, OtherThanListener, TInv, TypeExit
<1>3. TypeListen'
  BY DEF ServeFail, Fail, OtherThanListener, TInv, TypeListen, LPcs, Bookkeeping, Addrs
<1>4. TypeConns'
  BY DEF ServeFail, Fail, OtherThanListener, TInv, TypeConns, ChCap, Bookkeeping, Addrs
<1>5. Bookkeeping'
  BY DEF ServeFail, Fail, OtherThanListener, TInv, Bookkeeping, TypeMain, TypeListen, TypeConns, Addrs
<1>6. QED
  BY <1>1, <1>2, <1>3, <1>4, <1>5 DEF TInv

LEMMA ConnectTInv == ASSUME NEW a \in Addrs, TInv, Connect(a) PROVE TInv'
<1>1. TypeMain'
  BY DEF Connect, ListenerVars, TInv, TypeMain, MainPcs, DaemonPcs, Bookkeeping, Addrs
<1>2. TypeExit'
  BY DEF Connect, ListenerVars, TInv, TypeExit
<1>3. TypeListen'
  BY DEF Connect, ListenerVars, TInv, TypeListen, LPcs, Bookkeeping, Addrs
<1>4. TypeConns'
  <2>1. connected[a] < MaxConns /\ pending[a] + served[a] = connected[a]
    BY DEF Connect, TInv, Bookkeeping
  <2>2. pending[a] + 1 \in 0 .. MaxConns /\ connected[a] + 1 \in 0 .. MaxConns
    BY <2>1 DEF TInv, TypeConns
  <2>3. QED
    BY <2>2 DEF Connect, TInv, TypeConns, ChCap
<1>5. Bookkeeping'
  <2>1. \A b \in Addrs : pending'[b] + served'[b] = connected'[b]
    BY DEF Connect, TInv, Bookkeeping, TypeConns
  <2>2. QED
    BY <2>1 DEF Connect, ListenerVars, TInv, Bookkeeping
<1>6. QED
  BY <1>1, <1>2, <1>3, <1>4, <1>5 DEF TInv

LEMMA NextTInv == TInv /\ [Next]_vars => TInv'
<1> SUFFICES ASSUME TInv, [Next]_vars PROVE TInv'
  OBVIOUS
<1>1. CASE MainStep
  BY <1>1, MainDaemonTInv, ServeApiTInv, SpawnListenerTInv, CollectResultTInv DEF MainStep
<1>2. CASE DaemonStep
  BY <1>2, NewDaemonTInv, InstallTInv, AcceptConnectionsTInv DEF DaemonStep
<1>3. CASE SdNotify
  BY <1>3, SdNotifyTInv
<1>4. ASSUME NEW a \in Addrs, ListenerStep(a) PROVE TInv'
  BY <1>4, StartTInv, MaskTInv, ListenTInv, UnmaskTInv, TlsSetupTInv, CheckTInv,
     FdActivateTInv, AcceptTInv, SendTInv DEF ListenerStep
<1>5. ASSUME NEW a \in Addrs, ServeFail(a) PROVE TInv'
  BY <1>5, ServeFailTInv
<1>6. ASSUME NEW a \in Addrs, Connect(a) PROVE TInv'
  BY <1>6, ConnectTInv
<1>7. CASE Terminated \/ UNCHANGED vars
  BY <1>7 DEF Terminated, vars, TInv, TypeMain, TypeExit, TypeListen, TypeConns, Bookkeeping
<1>8. QED
  BY <1>1, <1>2, <1>3, <1>4, <1>5, <1>6, <1>7 DEF Next

\* Type correctness of the start-up model.
THEOREM TypeCorrect == Spec => []TypeOK
<1>1. Init => TInv
  BY InitTInv
<1>2. TInv /\ [Next]_vars => TInv'
  BY NextTInv
<1>3. TInv => TypeOK
  BY TypeParts DEF TInv
<1>4. QED
  BY <1>1, <1>2, <1>3, PTL DEF Spec

-----------------------------------------------------------------------------
(* The activation gate, under BufferRequests as mainDaemon sets it: one   *)
(* lemma per action, one step per part of GateInv.                        *)

LEMMA InitGate == ASSUME Init PROVE GateInv
  BY DEF Init, GateInv, GateLock, GateListen, NoServeBeforeInstall, Installed

LEMMA MainDaemonGate == ASSUME BufferRequests = TRUE, IInv, MainDaemon PROVE GateInv'
<1>1. GateLock'
  BY DEF MainDaemon, IInv, TInv, GateInv, GateLock, Installed
<1>2. GateListen'
  BY DEF MainDaemon, IInv, TInv, GateInv, GateListen, GateLock, TypeListen
<1>3. NoServeBeforeInstall'
  BY DEF MainDaemon, IInv, TInv, GateInv, NoServeBeforeInstall, Installed, GateLock, GateListen, TypeConns
<1>4. QED
  BY <1>1, <1>2, <1>3 DEF GateInv

LEMMA ServeApiGate == ASSUME BufferRequests = TRUE, IInv, ServeApi PROVE GateInv'
<1>1. GateLock'
  BY DEF ServeApi, IInv, TInv, GateInv, GateLock, Installed
<1>2. GateListen'
  BY DEF ServeApi, IInv, TInv, GateInv, GateListen, GateLock, TypeListen
<1>3. NoServeBeforeInstall'
  BY DEF ServeApi, IInv, TInv, GateInv, NoServeBeforeInstall, Installed, GateLock, GateListen, TypeConns
<1>4. QED
  BY <1>1, <1>2, <1>3 DEF GateInv

LEMMA SpawnListenerGate == ASSUME BufferRequests = TRUE, IInv, SpawnListener PROVE GateInv'
<1>1. GateLock'
  BY DEF SpawnListener, IInv, TInv, GateInv, GateLock, Installed
<1>2. GateListen'
  BY DEF SpawnListener, IInv, TInv, GateInv, GateListen, GateLock, TypeListen
<1>3. NoServeBeforeInstall'
  BY DEF SpawnListener, IInv, TInv, GateInv, NoServeBeforeInstall, Installed, GateLock, GateListen, TypeConns
<1>4. QED
  BY <1>1, <1>2, <1>3 DEF GateInv

LEMMA CollectResultGate == ASSUME BufferRequests = TRUE, IInv, CollectResult PROVE GateInv'
<1>1. GateLock'
  BY DEF CollectResult, IInv, TInv, GateInv, GateLock, Installed
<1>2. GateListen'
  BY DEF CollectResult, IInv, TInv, GateInv, GateListen, GateLock, TypeListen
<1>3. NoServeBeforeInstall'
  BY DEF CollectResult, IInv, TInv, GateInv, NoServeBeforeInstall, Installed, GateLock, GateListen, TypeConns
<1>4. QED
  BY <1>1, <1>2, <1>3 DEF GateInv

LEMMA NewDaemonGate == ASSUME BufferRequests = TRUE, IInv, NewDaemon PROVE GateInv'
<1>1. GateLock'
  BY DEF NewDaemon, IInv, TInv, GateInv, GateLock, Installed
<1>2. GateListen'
  BY DEF NewDaemon, IInv, TInv, GateInv, GateListen, GateLock, TypeListen
<1>3. NoServeBeforeInstall'
  BY DEF NewDaemon, IInv, TInv, GateInv, NoServeBeforeInstall, Installed, GateLock, GateListen, TypeConns
<1>4. QED
  BY <1>1, <1>2, <1>3 DEF GateInv

LEMMA InstallGate == ASSUME BufferRequests = TRUE, IInv, Install PROVE GateInv'
<1>1. GateLock'
  BY DEF Install, IInv, TInv, GateInv, GateLock, Installed
<1>2. GateListen'
  BY DEF Install, IInv, TInv, GateInv, GateListen, GateLock, TypeListen
<1>3. NoServeBeforeInstall'
  BY DEF Install, IInv, TInv, GateInv, NoServeBeforeInstall, Installed, GateLock, GateListen, TypeConns
<1>4. QED
  BY <1>1, <1>2, <1>3 DEF GateInv

LEMMA AcceptConnectionsGate == ASSUME BufferRequests = TRUE, IInv, AcceptConnections PROVE GateInv'
<1>1. GateLock'
  BY DEF AcceptConnections, IInv, TInv, GateInv, GateLock, Installed
<1>2. GateListen'
  BY DEF AcceptConnections, IInv, TInv, GateInv, GateListen, GateLock, TypeListen
<1>3. NoServeBeforeInstall'
  BY DEF AcceptConnections, IInv, TInv, GateInv, NoServeBeforeInstall, Installed, GateLock, GateListen, TypeConns
<1>4. QED
  BY <1>1, <1>2, <1>3 DEF GateInv

LEMMA SdNotifyGate == ASSUME BufferRequests = TRUE, IInv, SdNotify PROVE GateInv'
<1>1. GateLock'
  BY DEF SdNotify, IInv, TInv, GateInv, GateLock, Installed
<1>2. GateListen'
  BY DEF SdNotify, IInv, TInv, GateInv, GateListen, GateLock, TypeListen
<1>3. NoServeBeforeInstall'
  BY DEF SdNotify, IInv, TInv, GateInv, NoServeBeforeInstall, Installed, GateLock, GateListen, TypeConns
<1>4. QED
  BY <1>1, <1>2, <1>3 DEF GateInv

LEMMA StartGate == ASSUME BufferRequests = TRUE, NEW a \in Addrs, IInv, Start(a) PROVE GateInv'
<1>1. GateLock'
  BY DEF Start, Fail, OtherThanListener, IInv, TInv, GateInv, GateLock, Installed
<1>2. GateListen'
  BY DEF Start, Fail, OtherThanListener, IInv, TInv, GateInv, GateListen, GateLock, TypeListen
<1>3. NoServeBeforeInstall'
  BY DEF Start, Fail, OtherThanListener, IInv, TInv, GateInv, NoServeBeforeInstall, Installed, GateLock, GateListen, TypeConns
<1>4. QED
  BY <1>1, <1>2, <1>3 DEF GateInv

LEMMA MaskGate == ASSUME BufferRequests = TRUE, NEW a \in Addrs, IInv, Mask(a) PROVE GateInv'
<1>1. GateLock'
  BY DEF Mask, OtherThanListener, IInv, TInv, GateInv, GateLock, Installed
<1>2. GateListen'
  BY DEF Mask, OtherThanListener, IInv, TInv, GateInv, GateListen, GateLock, TypeListen
<1>3. NoServeBeforeInstall'
  BY DEF Mask, OtherThanListener, IInv, TInv, GateInv, NoServeBeforeInstall, Installed, GateLock, GateListen, TypeConns
<1>4. QED
  BY <1>1, <1>2, <1>3 DEF GateInv

LEMMA ListenGate == ASSUME BufferRequests = TRUE, NEW a \in Addrs, IInv, Listen(a) PROVE GateInv'
<1>1. GateLock'
  BY DEF Listen, OtherThanListener, IInv, TInv, GateInv, GateLock, Installed
<1>2. GateListen'
  BY DEF Listen, OtherThanListener, IInv, TInv, GateInv, GateListen, GateLock, TypeListen
<1>3. NoServeBeforeInstall'
  BY DEF Listen, OtherThanListener, IInv, TInv, GateInv, NoServeBeforeInstall, Installed, GateLock, GateListen, TypeConns
<1>4. QED
  BY <1>1, <1>2, <1>3 DEF GateInv

LEMMA UnmaskGate == ASSUME BufferRequests = TRUE, NEW a \in Addrs, IInv, Unmask(a) PROVE GateInv'
<1>1. GateLock'
  BY DEF Unmask, OtherThanListener, IInv, TInv, GateInv, GateLock, Installed
<1>2. GateListen'
  BY DEF Unmask, OtherThanListener, IInv, TInv, GateInv, GateListen, GateLock, TypeListen
<1>3. NoServeBeforeInstall'
  BY DEF Unmask, OtherThanListener, IInv, TInv, GateInv, NoServeBeforeInstall, Installed, GateLock, GateListen, TypeConns
<1>4. QED
  BY <1>1, <1>2, <1>3 DEF GateInv

LEMMA TlsSetupGate == ASSUME BufferRequests = TRUE, NEW a \in Addrs, IInv, TlsSetup(a) PROVE GateInv'
<1>1. GateLock'
  BY DEF TlsSetup, Fail, OtherThanListener, IInv, TInv, GateInv, GateLock, Installed
<1>2. GateListen'
  BY DEF TlsSetup, Fail, OtherThanListener, IInv, TInv, GateInv, GateListen, GateLock, TypeListen
<1>3. NoServeBeforeInstall'
  BY DEF TlsSetup, Fail, OtherThanListener, IInv, TInv, GateInv, NoServeBeforeInstall, Installed, GateLock, GateListen, TypeConns
<1>4. QED
  BY <1>1, <1>2, <1>3 DEF GateInv

LEMMA CheckGate == ASSUME BufferRequests = TRUE, NEW a \in Addrs, IInv, Check(a) PROVE GateInv'
<1>1. GateLock'
  BY DEF Check, Fail, OtherThanListener, IInv, TInv, GateInv, GateLock, Installed
<1>2. GateListen'
  <2>1. /\ \/ lpc' = [lpc EXCEPT ![a] = "serving"] /\ lres' = lres
           \/ lpc' = [lpc EXCEPT ![a] = "send"] /\ lres' = [lres EXCEPT ![a] = "err"]
        /\ UNCHANGED <<bound, gated, umask, saved>>
        /\ UNCHANGED OtherThanListener
    BY CheckEffect DEF IInv
  <2>2. gated[a]
    BY DEF Check, IInv, GateInv, GateListen
  <2>3. QED
    BY <2>1, <2>2 DEF OtherThanListener, IInv, TInv, GateInv, GateListen, TypeListen
<1>3. NoServeBeforeInstall'
  BY DEF Check, Fail, OtherThanListener, IInv, TInv, GateInv, NoServeBeforeInstall, Installed, GateLock, GateListen, TypeConns
<1>4. QED
  BY <1>1, <1>2, <1>3 DEF GateInv

LEMMA FdActivateGate == ASSUME BufferRequests = TRUE, NEW a \in Addrs, IInv, FdActivate(a) PROVE GateInv'
<1>1. GateLock'
  BY DEF FdActivate, OtherThanListener, IInv, TInv, GateInv, GateLock, Installed
<1>2. GateListen'
  BY DEF FdActivate, OtherThanListener, IInv, TInv, GateInv, GateListen, GateLock, TypeListen
<1>3. NoServeBeforeInstall'
  BY DEF FdActivate, OtherThanListener, IInv, TInv, GateInv, NoServeBeforeInstall, Installed, GateLock, GateListen, TypeConns
<1>4. QED
  BY <1>1, <1>2, <1>3 DEF GateInv

LEMMA AcceptGate == ASSUME BufferRequests = TRUE, NEW a \in Addrs, IInv, Accept(a) PROVE GateInv'
<1>1. GateLock'
  BY DEF Accept, ListenerVars, IInv, TInv, GateInv, GateLock, Installed
<1>2. GateListen'
  BY DEF Accept, ListenerVars, IInv, TInv, GateInv, GateListen, GateLock, TypeListen
<1>3. NoServeBeforeInstall'
  BY DEF Accept, ListenerVars, IInv, TInv, GateInv, NoServeBeforeInstall, Installed, GateLock, GateListen, TypeConns
<1>4. QED
  BY <1>1, <1>2, <1>3 DEF GateInv

LEMMA SendGate == ASSUME BufferRequests = TRUE, NEW a \in Addrs, IInv, Send(a) PROVE GateInv'
<1>1. GateLock'
  BY DEF Send, IInv, TInv, GateInv, GateLock, Installed
<1>2. GateListen'
  BY DEF Send, IInv, TInv, GateInv, GateListen, GateLock, TypeListen
<1>3. NoServeBeforeInstall'
  BY DEF Send, IInv, TInv, GateInv, NoServeBeforeInstall, Installed, GateLock, GateListen, TypeConns
<1>4. QED
  BY <1>1, <1>2, <1>3 DEF GateInv

LEMMA ServeFailGate == ASSUME BufferRequests = TRUE, NEW a \in Addrs, IInv, ServeFail(a) PROVE GateInv'
<1>1. GateLock'
  BY DEF ServeFail, Fail, OtherThanListener, IInv, TInv, GateInv, GateLock, Installed
<1>2. GateListen'
  BY DEF ServeFail, Fail, OtherThanListener, IInv, TInv, GateInv, GateListen, GateLock, TypeListen
<1>3. NoServeBeforeInstall'
  BY DEF ServeFail, Fail, OtherThanListener, IInv, TInv, GateInv, NoServeBeforeInstall, Installed, GateLock, GateListen, TypeConns
<1>4. QED
  BY <1>1, <1>2, <1>3 DEF GateInv

LEMMA ConnectGate == ASSUME BufferRequests = TRUE, NEW a \in Addrs, IInv, Connect(a) PROVE GateInv'
<1>1. GateLock'
  BY DEF Connect, ListenerVars, IInv, TInv, GateInv, GateLock, Installed
<1>2. GateListen'
  BY DEF Connect, ListenerVars, IInv, TInv, GateInv, GateListen, GateLock, TypeListen
<1>3. NoServeBeforeInstall'
  BY DEF Connect, ListenerVars, IInv, TInv, GateInv, NoServeBeforeInstall, Installed, GateLock, GateListen, TypeConns
<1>4. QED
  BY <1>1, <1>2, <1>3 DEF GateInv

LEMMA NextGate == ASSUME BufferRequests = TRUE, IInv, [Next]_vars PROVE GateInv'
<1>1. CASE MainStep
  BY <1>1, MainDaemonGate, ServeApiGate, SpawnListenerGate, CollectResultGate DEF MainStep
<1>2. CASE DaemonStep
  BY <1>2, NewDaemonGate, InstallGate, AcceptConnectionsGate DEF DaemonStep
<1>3. CASE SdNotify
  BY <1>3, SdNotifyGate
<1>4. ASSUME NEW a \in Addrs, ListenerStep(a) PROVE GateInv'
  BY <1>4, StartGate, MaskGate, ListenGate, UnmaskGate, TlsSetupGate, CheckGate,
     FdActivateGate, AcceptGate, SendGate DEF ListenerStep
<1>5. ASSUME NEW a \in Addrs, ServeFail(a) PROVE GateInv'
  BY <1>5, ServeFailGate
<1>6. ASSUME NEW a \in Addrs, Connect(a) PROVE GateInv'
  BY <1>6, ConnectGate
<1>7. CASE Terminated \/ UNCHANGED vars
  BY <1>7 DEF Terminated, vars, IInv, GateInv, GateLock, GateListen,
             NoServeBeforeInstall, Installed
<1>8. QED
  BY <1>1, <1>2, <1>3, <1>4, <1>5, <1>6, <1>7 DEF Next

\* No connection is handed to the router before d.Install has registered
\* the daemon's job handlers, for every list of -H addresses and every flag
\* setting, with listenbuffer on as mainDaemon sets it: the activation gate
\* of ServeApi, ListenAndServe and AcceptConnections is sound.
THEOREM GateSafety == ASSUME BufferRequests = TRUE PROVE Spec => []NoServeBeforeInstall
<1>1. Init => IInv
  BY InitTInv, InitGate DEF IInv
<1>2. IInv /\ [Next]_vars => IInv'
  BY NextTInv, NextGate DEF IInv
<1>3. IInv => NoServeBeforeInstall
  BY DEF IInv, GateInv
<1>4. QED
  BY <1>1, <1>2, <1>3, PTL DEF Spec

=============================================================================
