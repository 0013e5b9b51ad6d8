----------------------- MODULE StartupListenerProofs -----------------------
(***************************************************************************)
(* Proofs about the listener goroutines of the start-up (module Startup):  *)
(* ServeApi's fan-in of their results over chErrors, and the umask the     *)
(* unix branch of ListenAndServe changes, for every list of addresses and  *)
(* every flag setting.                                                     *)
(***************************************************************************)
EXTENDS StartupProofs, FiniteSetTheorems

\* ServeApi's loop has not yet started the listener of an address at or
\* after its index.
Unspawned == \A a \in Addrs : a >= spawnIdx => lpc[a] = "idle"

\* The listeners that have sent their result on chErrors.
Sent == {a \in Addrs : lpc[a] = "exit"}

\* What makes FanInFaithful inductive.  Until ServeApi returns, every
\* result sent is either received (all nil so far) or still buffered, so
\* there are recvd + Len(chErrors) senders; an error a listener sent is
\* still in the buffer; an error in the buffer came from a listener.
\* A listener's result does not change once sent, and nothing moves once
\* main has returned.
FanInInv ==
  /\ \A a \in Sent : lres[a] \in {"ok", "err"}
  /\ mainPc = "returned" => exited
  /\ mainPc # "returned" =>
       /\ apiResult = "none"
       /\ Cardinality(Sent) = recvd + Len(chErrors)
       /\ (\E a \in Sent : lres[a] = "err") =>
             \E i \in 1 .. Len(chErrors) : chErrors[i] = "err"
  /\ \A i \in 1 .. Len(chErrors) : chErrors[i] = "err" => \E a \in Sent : lres[a] = "err"
  /\ FanInFaithful

\* At most one -H address is a unix socket (the default: main adds
\* unix:///var/run/docker.sock when no -H is given).
OneUnix == \A a, b \in Addrs : Protos[a] = "unix" /\ Protos[b] = "unix" => a = b

\* What makes UmaskRestored inductive under OneUnix: the umask is 0777 only
\* while the unix listener is inside the window, only the unix branch
\* passes through Umask(0777) and its restore, and the oldmask the unix
\* listener inside the window saved is the original one.
UmaskInv ==
  /\ umask = "0777" => \E a \in Addrs : Protos[a] = "unix" /\ lpc[a] \in UmaskWindow
  /\ \A a \in Addrs : lpc[a] \in {"mask", "unmask"} => Protos[a] = "unix"
  /\ \A a \in Addrs : Protos[a] = "unix" /\ lpc[a] \in UmaskWindow => saved[a] = "orig"

-----------------------------------------------------------------------------
(* Unspawned is inductive together with TInv.                              *)

LEMMA InitUnspawned == ASSUME Init PROVE Unspawned
  BY DEF Init, Unspawned

\* A listener step starts from a pc that is neither idle nor exit, leaves
\* the other listeners alone and does not touch the main or daemon goroutine.
LEMMA ListenerFrame ==
  ASSUME NEW a \in Addrs, TInv, ListenerStep(a) \/ ServeFail(a)
  PROVE  /\ lpc[a] \notin {"idle", "exit"}
         /\ \A b \in Addrs \ {a} :
              lpc'[b] = lpc[b] /\ lres'[b] = lres[b] /\ saved'[b] = saved[b]
         /\ UNCHANGED <<mainPc, spawnIdx, recvd, apiResult, daemonPc, notify, lock, exited>>
<1> USE DEF OtherThanListener
<1>1. CASE Start(a)
  BY <1>1 DEF Start, Fail, TInv, TypeListen, LPcs
<1>2. CASE Mask(a)
  BY <1>2 DEF Mask, TInv, TypeListen, LPcs
<1>3. CASE Listen(a)
  BY <1>3 DEF Listen, TInv, TypeListen, LPcs
<1>4. CASE Unmask(a)
  BY <1>4 DEF Unmask, TInv, TypeListen, LPcs
<1>5. CASE TlsSetup(a)
  BY <1>5 DEF TlsSetup, Fail, TInv, TypeListen, LPcs
<1>6. CASE Check(a)
  BY <1>6, ProtosType DEF Check, Fail, TInv, TypeListen, LPcs, Bookkeeping, ProtoNames
<1>7. CASE FdActivate(a)
  BY <1>7 DEF FdActivate, TInv, TypeListen, LPcs
<1>8. CASE Accept(a)
  BY <1>8 DEF Accept, ListenerVars, OtherThanListener, TInv, TypeListen, LPcs
<1>9. CASE Send(a)
  BY <1>9 DEF Send, OtherThanListener, TInv, TypeListen, LPcs
<1>10. CASE ServeFail(a)
  BY <1>10 DEF ServeFail, Fail, TInv, TypeListen, LPcs
<1> QED
  BY <1>1, <1>2, <1>3, <1>4, <1>5, <1>6, <1>7, <1>8, <1>9, <1>10 DEF ListenerStep

LEMMA NextUnspawned == ASSUME TInv, Unspawned, [Next]_vars PROVE Unspawned'
<1>1. CASE ~exited /\ MainStep
  <2>1. CASE SpawnListener
    <3>1. spawnIdx \in Addrs /\ spawnIdx' = spawnIdx + 1
      BY <2>1 DEF SpawnListener, TInv, Bookkeeping
    <3> QED
      BY <2>1, <3>1 DEF SpawnListener, Unspawned, Addrs, TInv, TypeListen
  <2>3. CASE MainDaemon \/ ServeApi \/ CollectResult
    BY <2>3 DEF MainDaemon, ServeApi, CollectResult, Unspawned
  <2> QED
    BY <1>1, <2>1, <2>3 DEF MainStep
<1>2. CASE ~exited /\ (DaemonStep \/ SdNotify)
  BY <1>2 DEF DaemonStep, NewDaemon, Install, AcceptConnections, SdNotify, Unspawned
<1>3. ASSUME NEW a \in Addrs, ListenerStep(a) \/ ServeFail(a) PROVE Unspawned'
  <2>1. /\ lpc[a] \notin {"idle", "exit"}
        /\ \A b \in Addrs \ {a} : lpc'[b] = lpc[b]
        /\ spawnIdx' = spawnIdx
    BY <1>3, ListenerFrame
  <2> QED
    BY <2>1 DEF Unspawned
<1>4. ASSUME NEW a \in Addrs, Connect(a) PROVE Unspawned'
  BY <1>4 DEF Connect, ListenerVars, Unspawned
<1>5. CASE Terminated \/ UNCHANGED vars
  BY <1>5 DEF Terminated, vars, Unspawned
<1> QED
  BY <1>1, <1>2, <1>3, <1>4, <1>5 DEF Next

-----------------------------------------------------------------------------
(* UmaskInv is inductive under OneUnix: one step per listener action that *)
(* moves a listener into, through or out of the umask window.             *)

LEMMA InitUmask == ASSUME Init PROVE UmaskInv
  BY DEF Init, UmaskInv

\* A listener step outside the window that does not enter it keeps UmaskInv.
LEMMA UmaskKept ==
  ASSUME TInv, UmaskInv, NEW a \in Addrs, ListenerStep(a) \/ ServeFail(a),
         lpc[a] \notin {"mask", "listen", "unmask"},
         lpc'[a] \notin {"mask", "listen", "unmask"},
         UNCHANGED <<umask, saved>>
  PROVE  UmaskInv'
<1>1. \A b \in Addrs \ {a} : lpc'[b] = lpc[b]
  BY ListenerFrame
<1> QED
  BY <1>1 DEF UmaskInv, UmaskWindow

LEMMA ListenerUmask ==
  ASSUME OneUnix, TInv, UmaskInv, NEW a \in Addrs, ListenerStep(a) \/ ServeFail(a)
  PROVE  UmaskInv'
<1>0. /\ \A b \in Addrs \ {a} : lpc'[b] = lpc[b] /\ saved'[b] = saved[b]
      /\ Protos[a] \in ProtoNames
  BY ListenerFrame, ProtosType
<1>1. CASE Start(a)
  <2>1. /\ lpc'[a] \in {"send", "fdWait", "mask", "listen"}
        /\ lpc'[a] = "mask" => Protos[a] = "unix"
        /\ lpc'[a] = "listen" => Protos[a] = "tcp"
        /\ UNCHANGED <<umask, saved>>
    BY <1>0, <1>1 DEF Start, Fail, TInv, TypeListen, ProtoNames
  <2>2. lpc[a] = "start"
    BY <1>1 DEF Start
  <2> QED
    BY <1>0, <2>1, <2>2 DEF UmaskInv, UmaskWindow
<1>2. CASE Mask(a)
  <2>1. Protos[a] = "unix" /\ lpc[a] = "mask"
    BY <1>2 DEF Mask, UmaskInv
  <2>2. umask = "orig"
    BY <2>1 DEF UmaskInv, UmaskWindow, OneUnix, TInv, TypeListen
  <2>3. /\ lpc'[a] = "listen" /\ umask' = "0777" /\ saved'[a] = "orig"
    BY <1>2, <2>2 DEF Mask, TInv, TypeListen
  <2> QED
    BY <1>0, <2>1, <2>3 DEF UmaskInv, UmaskWindow
<1>3. CASE Listen(a)
  <2>1. /\ lpc[a] = "listen"
        /\ Protos[a] = "unix" => lpc'[a] = "unmask"
        /\ lpc'[a] \in {"unmask", "tls", "send"}
        /\ lpc'[a] = "unmask" => Protos[a] = "unix"
        /\ UNCHANGED <<umask, saved>>
    BY <1>3 DEF Listen, TInv, TypeListen
  <2> QED
    BY <1>0, <2>1 DEF UmaskInv, UmaskWindow
<1>4. CASE Unmask(a)
  <2>1. Protos[a] = "unix" /\ saved[a] = "orig" /\ lpc[a] = "unmask"
    BY <1>4 DEF Unmask, UmaskInv, UmaskWindow
  <2>2. /\ umask' = "orig" /\ lpc'[a] \in {"send", "tls"}
        /\ UNCHANGED saved
    BY <1>4, <2>1 DEF Unmask, TInv, TypeListen
  <2> QED
    BY <1>0, <2>1, <2>2 DEF UmaskInv, UmaskWindow
<1>5. CASE TlsSetup(a) \/ Check(a) \/ FdActivate(a) \/ Accept(a) \/ Send(a) \/ ServeFail(a)
  <2>1. /\ lpc[a] \notin {"mask", "listen", "unmask"}
        /\ lpc'[a] \notin {"mask", "listen", "unmask"}
        /\ UNCHANGED <<umask, saved>>
    BY <1>0, <1>5 DEF TlsSetup, Check, FdActivate, Accept, Send, ServeFail, Fail,
                      ListenerVars, TInv, TypeListen, Bookkeeping, ProtoNames
  <2> QED
    BY <2>1, UmaskKept
<1> QED
  BY <1>1, <1>2, <1>3, <1>4, <1>5 DEF ListenerStep

LEMMA NextUmask ==
  ASSUME OneUnix, TInv, Unspawned, UmaskInv, [Next]_vars PROVE UmaskInv'
<1>1. CASE ~exited /\ MainStep
  <2>1. CASE SpawnListener
    <3>0. spawnIdx \in Addrs
      BY <2>1 DEF SpawnListener, TInv, Bookkeeping
    <3>1. spawnIdx \in Addrs /\ lpc[spawnIdx] = "idle"
      BY <3>0 DEF Unspawned, Addrs
    <3> QED
      BY <2>1, <3>1 DEF SpawnListener, UmaskInv, UmaskWindow, TInv, TypeListen
  <2>2. CASE MainDaemon \/ ServeApi \/ CollectResult
    BY <2>2 DEF MainDaemon, ServeApi, CollectResult, UmaskInv
  <2> QED
    BY <1>1, <2>1, <2>2 DEF MainStep
<1>2. CASE ~exited /\ (DaemonStep \/ SdNotify)
  BY <1>2 DEF DaemonStep, NewDaemon, Install, AcceptConnections, SdNotify, UmaskInv
<1>3. ASSUME NEW a \in Addrs, ListenerStep(a) \/ ServeFail(a) PROVE UmaskInv'
  BY <1>3, ListenerUmask
<1>4. ASSUME NEW a \in Addrs, Connect(a) PROVE UmaskInv'
  BY <1>4 DEF Connect, ListenerVars, UmaskInv
<1>5. CASE Terminated \/ UNCHANGED vars
  BY <1>5 DEF Terminated, vars, UmaskInv
<1> QED
  BY <1>1, <1>2, <1>3, <1>4, <1>5 DEF Next

\* With at most one unix -H address, the process umask is the original one
\* whenever no listener is between ListenAndServe's syscall.Umask(0777) and
\* its restore of oldmask: files the daemon creates afterwards get their
\* normal permissions.  (With two unix addresses the two goroutines'
\* save and restore interleave and 0777 can stick: the umask_race run.)
THEOREM UmaskSafety == ASSUME OneUnix PROVE Spec => []UmaskRestored
<1> DEFINE UInv == TInv /\ Unspawned /\ UmaskInv
<1>1. Init => UInv
  BY InitTInv, InitUnspawned, InitUmask
<1>2. UInv /\ [Next]_vars => UInv'
  BY NextTInv, NextUnspawned, NextUmask
<1>3. UInv => UmaskRestored
  BY DEF UmaskInv, UmaskRestored, UmaskWindow, TInv, TypeListen
<1> QED
  BY <1>1, <1>2, <1>3, PTL DEF Spec

-----------------------------------------------------------------------------
(* FanInInv is inductive: the counting argument over Sent.                *)

\* Sent is a finite set of at most len(protoAddrs) listeners.
LEMMA SentFinite ==
  /\ IsFiniteSet(Sent) /\ Cardinality(Sent) \in Nat
  /\ Cardinality(Sent) <= NAddrs
  /\ Cardinality(Sent) = NAddrs => Sent = Addrs
<1>1. IsFiniteSet(Addrs) /\ Cardinality(Addrs) = NAddrs
  <2>1. NAddrs \in Nat \ {0}
    BY ConstFacts
  <2>2. IsFiniteSet(1 .. NAddrs) /\ Cardinality(1 .. NAddrs) = IF 1 > NAddrs THEN 0 ELSE NAddrs - 1 + 1
    BY <2>1, FS_Interval
  <2> QED
    BY <2>1, <2>2 DEF Addrs
<1>2. Sent \in SUBSET Addrs
  BY DEF Sent
<1>3. IsFiniteSet(Sent) /\ Cardinality(Sent) <= Cardinality(Addrs)
      /\ (Cardinality(Addrs) = Cardinality(Sent) => Addrs = Sent)
  BY <1>1, <1>2, FS_Subset
<1>4. Cardinality(Sent) \in Nat
  BY <1>3, FS_CardinalityType
<1> QED
  BY <1>1, <1>3, <1>4

LEMMA InitFanIn == ASSUME Init PROVE FanInInv
<1>1. Sent = {}
  BY DEF Init, Sent
<1> QED
  BY <1>1, FS_EmptySet DEF Init, FanInInv, FanInFaithful

\* A step of a listener that neither sends nor has sent keeps FanInInv.
LEMMA FanInQuiet ==
  ASSUME TInv, FanInInv, ~exited, NEW a \in Addrs, ListenerStep(a) \/ ServeFail(a),
         lpc'[a] # "exit", UNCHANGED chErrors
  PROVE  FanInInv'
<1>1. /\ lpc[a] \notin {"idle", "exit"}
      /\ \A b \in Addrs \ {a} : lpc'[b] = lpc[b] /\ lres'[b] = lres[b]
      /\ UNCHANGED <<mainPc, recvd, apiResult, exited>>
  BY ListenerFrame
<1>2. Sent' = Sent
  BY <1>1 DEF Sent
<1>3. \A b \in Sent : lres'[b] = lres[b]
  BY <1>1 DEF Sent
<1>4. apiResult = "none"
  BY DEF FanInInv
<1> QED
  BY <1>1, <1>2, <1>3, <1>4 DEF FanInInv, FanInFaithful

\* Send: the listener joins Sent and its result is appended to chErrors.
LEMMA SendFanIn ==
  ASSUME TInv, FanInInv, ~exited, NEW a \in Addrs, Send(a) PROVE FanInInv'
<1>1. /\ lpc[a] = "send" /\ lres[a] \in {"ok", "err"}
      /\ lpc' = [lpc EXCEPT ![a] = "exit"] /\ lres' = lres
      /\ chErrors' = Append(chErrors, lres[a])
      /\ UNCHANGED <<mainPc, recvd, apiResult, exited>>
  BY DEF Send, TInv, Bookkeeping
<1>2. Sent' = Sent \cup {a} /\ a \notin Sent
  BY <1>1 DEF Sent, TInv, TypeListen
<1>3. mainPc # "returned" /\ apiResult = "none"
  BY DEF FanInInv
<1>4. Cardinality(Sent') = Cardinality(Sent) + 1
  BY <1>2, SentFinite, FS_AddElement
<1>5. LET s == chErrors IN
        /\ Len(s) \in Nat
        /\ Len(chErrors') = Len(s) + 1
        /\ chErrors'[Len(s) + 1] = lres[a]
        /\ \A i \in 1 .. Len(s) : chErrors'[i] = s[i]
  <2>1. chErrors \in Seq({"ok", "err"})
    BY DEF TInv, TypeConns
  <2> QED
    BY <1>1, <2>1, AppendProperties, LenProperties
<1>6. (\E b \in Sent' : lres'[b] = "err") =>
        \E i \in 1 .. Len(chErrors') : chErrors'[i] = "err"
  BY <1>1, <1>2, <1>3, <1>5 DEF FanInInv
<1>7. \A i \in 1 .. Len(chErrors') : chErrors'[i] = "err" => \E b \in Sent' : lres'[b] = "err"
  BY <1>1, <1>2, <1>5 DEF FanInInv
<1>8. \A b \in Sent' : lres'[b] \in {"ok", "err"}
  BY <1>1, <1>2 DEF FanInInv
<1>9. Cardinality(Sent') = recvd' + Len(chErrors')
  <2>1. Cardinality(Sent) = recvd + Len(chErrors) /\ recvd \in Nat
    BY <1>3 DEF FanInInv, TInv, TypeMain
  <2> QED
    BY <1>1, <1>4, <1>5, <2>1, SentFinite
<1>10. mainPc' # "returned" /\ apiResult' = "none"
  BY <1>1, <1>3
<1> QED
  BY <1>6, <1>7, <1>8, <1>9, <1>10 DEF FanInInv, FanInFaithful

\* One receive of ServeApi's collect loop.
LEMMA CollectFanIn ==
  ASSUME TInv, FanInInv, ~exited, CollectResult PROVE FanInInv'
<1> DEFINE s == chErrors
<1>1. /\ mainPc = "collect" /\ s # <<>> /\ s \in Seq({"ok", "err"})
      /\ chErrors' = Tail(s)
      /\ UNCHANGED <<lpc, lres>>
  BY DEF CollectResult, TInv, TypeConns
<1>2. /\ Head(s) \in {"ok", "err"} /\ Head(s) = s[1]
      /\ Len(s) \in Nat /\ Len(s) >= 1
      /\ Len(Tail(s)) = Len(s) - 1
      /\ \A i \in 1 .. Len(Tail(s)) : Tail(s)[i] = s[i + 1]
  BY <1>1, HeadTailProperties, LenProperties
<1>3. Sent' = Sent
  BY <1>1 DEF Sent
<1>4. /\ apiResult = "none"
      /\ Cardinality(Sent) = recvd + Len(s)
      /\ (\E a \in Sent : lres[a] = "err") => \E i \in 1 .. Len(s) : s[i] = "err"
      /\ \A i \in 1 .. Len(s) : s[i] = "err" => \E a \in Sent : lres[a] = "err"
      /\ \A a \in Sent : lres[a] \in {"ok", "err"}
      /\ recvd \in Nat
  BY <1>1 DEF FanInInv, TInv, TypeMain
<1>5. \A i \in 1 .. Len(chErrors') : chErrors'[i] = "err" => \E a \in Sent' : lres'[a] = "err"
  BY <1>1, <1>2, <1>3, <1>4
\* the first error is returned, and mainDaemon's log.Fatal ends the process
<1>6. CASE Head(s) = "err"
  <2>1. mainPc' = "returned" /\ exited' /\ apiResult' = "err"
    BY <1>6 DEF CollectResult
  <2>2. \E a \in Sent : lres[a] = "err"
    BY <1>2, <1>4, <1>6
  <2> QED
    BY <1>1, <1>3, <1>4, <1>5, <2>1, <2>2 DEF FanInInv, FanInFaithful, Sent
\* the last of len(protoAddrs) nil results: ServeApi returns StatusOK
<1>7. CASE Head(s) = "ok" /\ recvd + 1 = NAddrs
  <2>1. mainPc' = "returned" /\ exited' /\ apiResult' = "ok"
    BY <1>7 DEF CollectResult
  <2>2. Cardinality(Sent) = NAddrs /\ Len(s) = 1
    BY <1>2, <1>4, <1>7, SentFinite, ConstFacts
  <2>3. Sent = Addrs
    BY <2>2, SentFinite
  <2>4. ~\E a \in Sent : lres[a] = "err"
    BY <1>2, <1>4, <1>7, <2>2
  <2>5. \A a \in Addrs : lres[a] = "ok"
    BY <1>4, <2>3, <2>4
  <2> QED
    BY <1>1, <1>3, <1>4, <1>5, <2>1, <2>5 DEF FanInInv, FanInFaithful
\* another nil result: the loop goes on
<1>8. CASE Head(s) = "ok" /\ recvd + 1 # NAddrs
  <2>1. mainPc' = "collect" /\ recvd' = recvd + 1 /\ apiResult' = "none"
        /\ exited' = exited
    BY <1>1, <1>4, <1>8 DEF CollectResult
  <2>2. Cardinality(Sent') = recvd' + Len(chErrors')
    BY <1>1, <1>2, <1>3, <1>4, <2>1
  <2>3. (\E a \in Sent' : lres'[a] = "err") =>
          \E i \in 1 .. Len(chErrors') : chErrors'[i] = "err"
    <3>1. (\E a \in Sent : lres[a] = "err") => \E i \in 2 .. Len(s) : s[i] = "err"
      BY <1>2, <1>4, <1>8
    <3> QED
      BY <1>1, <1>2, <1>3, <3>1
  <2> QED
    BY <1>1, <1>3, <1>4, <1>5, <2>1, <2>2, <2>3 DEF FanInInv, FanInFaithful
<1> QED
  BY <1>2, <1>6, <1>7, <1>8

LEMMA NextFanIn == ASSUME TInv, Unspawned, FanInInv, [Next]_vars PROVE FanInInv'
<1>1. CASE ~exited /\ MainStep
  <2>1. CASE SpawnListener
    <3>1. spawnIdx \in Addrs
      BY <2>1 DEF SpawnListener, TInv, Bookkeeping
    <3>2. lpc[spawnIdx] = "idle"
      BY <3>1 DEF Unspawned, Addrs
    <3>3. Sent' = Sent
      BY <2>1, <3>1, <3>2 DEF SpawnListener, Sent, TInv, TypeListen
    <3> QED
      BY <2>1, <3>3 DEF SpawnListener, FanInInv, FanInFaithful
  <2>2. CASE MainDaemon \/ ServeApi
    BY <2>2 DEF MainDaemon, ServeApi, FanInInv, FanInFaithful, Sent
  <2>3. CASE CollectResult
    BY <1>1, <2>3, CollectFanIn
  <2> QED
    BY <1>1, <2>1, <2>2, <2>3 DEF MainStep
<1>2. CASE ~exited /\ (DaemonStep \/ SdNotify)
  BY <1>2 DEF DaemonStep, NewDaemon, Install, AcceptConnections, SdNotify,
              FanInInv, FanInFaithful, Sent
<1>3. ASSUME NEW a \in Addrs, ~exited, ListenerStep(a) \/ ServeFail(a) PROVE FanInInv'
  <2>1. CASE Send(a)
    BY <1>3, <2>1, SendFanIn
  <2>2. CASE ~Send(a)
    <3>0. Protos[a] \in ProtoNames
      BY ProtosType
    <3>1. lpc'[a] # "exit" /\ UNCHANGED chErrors
      <4>1. CASE Start(a) \/ Mask(a) \/ Listen(a) \/ Unmask(a) \/ TlsSetup(a)
        BY <4>1 DEF Start, Mask, Listen, Unmask, TlsSetup, Fail, OtherThanListener,
                    TInv, TypeListen
      <4>2. CASE Check(a)
        BY <3>0, <4>2 DEF Check, Fail, OtherThanListener, TInv, TypeListen,
                          Bookkeeping, ProtoNames
      <4>3. CASE FdActivate(a) \/ Accept(a) \/ ServeFail(a)
        BY <4>3 DEF FdActivate, Accept, ServeFail, Fail, OtherThanListener,
                    ListenerVars, TInv, TypeListen
      <4> QED
        BY <1>3, <2>2, <4>1, <4>2, <4>3 DEF ListenerStep
    <3> QED
      BY <1>3, <3>1, FanInQuiet
  <2> QED
    BY <2>1, <2>2
<1>4. ASSUME NEW a \in Addrs, Connect(a) PROVE FanInInv'
  BY <1>4 DEF Connect, ListenerVars, FanInInv, FanInFaithful, Sent
<1>5. CASE Terminated \/ UNCHANGED vars
  BY <1>5 DEF Terminated, vars, FanInInv, FanInFaithful, Sent
<1> QED
  BY <1>1, <1>2, <1>3, <1>4, <1>5 DEF Next

\* ServeApi's fan-in is faithful for every list of -H addresses and every
\* flag setting: it returns StatusOK (and main returns) only after every
\* ListenAndServe goroutine returned nil, and an error only one of them
\* returned.  Neither a result lost in chErrors nor one counted twice can
\* make it report success.
THEOREM FanInSafety == Spec => []FanInFaithful
<1> DEFINE FInv == TInv /\ Unspawned /\ FanInInv
<1>1. Init => FInv
  BY InitTInv, InitUnspawned, InitFanIn
<1>2. FInv /\ [Next]_vars => FInv'
  BY NextTInv, NextUnspawned, NextFanIn
<1>3. FInv => FanInFaithful
  BY DEF FanInInv
<1> QED
  BY <1>1, <1>2, <1>3, PTL DEF Spec

=============================================================================
