------------------------------ MODULE ApiProofs ------------------------------
(***************************************************************************)
(* TLAPS proofs about the request model Api.  The code's version comparison *)
(* (pkg/version compareTo) agrees with the numeric order of versions.       *)
(* Every invariant the runs check holds for every value of the constants:  *)
(* makeHttpHandler's gate refuses exactly the newer versions, with 404 and *)
(* before any job runs; the listing endpoints switch format at their       *)
(* cutovers; logs and attach frame all of their output or none of it; the  *)
(* reporting handlers tell the client of every error; and the state stays  *)
(* well typed.                                                             *)
(***************************************************************************)
EXTENDS Api, SequenceTheorems, TLAPS

\* A version as ApiAssumption bounds it.
Bounded(s) == s \in Seq(Nat) /\ Len(s) <= 3 /\ \A i \in 1 .. Len(s) : s[i] < 100

\* Arithmetic of PartBounds, kept apart from sequences: Z3 does not
\* finish on an obligation that has both s[n] and Len(s).
LEMMA PartArith ==
  ASSUME NEW L \in Nat, L <= 3, NEW n \in Nat \ {0}, NEW x,
         n <= L => x \in Nat /\ x < 100
  PROVE  /\ (IF n <= L THEN x ELSE 0) \in 0 .. 99
         /\ n > 3 => (IF n <= L THEN x ELSE 0) = 0
BY SMT

LEMMA UpToThree ==
  ASSUME NEW L \in Nat, L <= 3
  PROVE  L \in 0 .. 3
BY SMT

LEMMA InRange ==
  ASSUME NEW L \in Nat, NEW n \in Nat \ {0}, n <= L
  PROVE  n \in 1 .. L
BY SMT

\* The numbers of a bounded version are below 100, and 0 past its end.
LEMMA PartBounds ==
  ASSUME NEW s, Bounded(s), NEW n \in Nat \ {0}
  PROVE  /\ Part(s, n) \in 0 .. 99
         /\ n > 3 => Part(s, n) = 0
<1>1. Len(s) \in Nat /\ Len(s) <= 3
  BY LenProperties DEF Bounded
<1>2. n <= Len(s) => s[n] \in Nat /\ s[n] < 100
  <2>1. SUFFICES ASSUME n <= Len(s) PROVE s[n] \in Nat /\ s[n] < 100
    OBVIOUS
  <2>2. n \in 1 .. Len(s)
    BY <1>1, <2>1, InRange, Zenon
  <2>3. QED
    BY <2>2, ElementOfSeq, Zenon DEF Bounded
<1>3. QED
  BY <1>1, <1>2, PartArith, Zenon DEF Part

\* compareTo decides at the first of the three numbers that differ.
LEMMA CompareCases ==
  ASSUME NEW a, NEW b, Bounded(a), Bounded(b)
  PROVE  CompareTo(a, b) =
           IF Part(a, 1) # Part(b, 1)
             THEN IF Part(a, 1) > Part(b, 1) THEN 1 ELSE -1
           ELSE IF Part(a, 2) # Part(b, 2)
             THEN IF Part(a, 2) > Part(b, 2) THEN 1 ELSE -1
           ELSE IF Part(a, 3) # Part(b, 3)
             THEN IF Part(a, 3) > Part(b, 3) THEN 1 ELSE -1
           ELSE 0
<1> DEFINE D == {i \in 1 .. Len(a) + Len(b) : Part(a, i) # Part(b, i)}
           first == CHOOSE j \in D : \A k \in D : j <= k
<1>1. CompareTo(a, b) = IF D = {} THEN 0
                        ELSE IF Part(a, first) > Part(b, first) THEN 1 ELSE -1
  BY DEF CompareTo
<1>2. Len(a) \in 0 .. 3 /\ Len(b) \in 0 .. 3
  BY LenProperties, UpToThree, Zenon DEF Bounded
<1>3. \A i \in 1 .. Len(a) + Len(b) : i > 3 => Part(a, i) = Part(b, i)
  BY <1>2, PartBounds
\* first is the least element of D, whichever one it is
<1>4. ASSUME NEW j \in D, \A k \in D : j <= k PROVE first = j
  <2>1. first \in D /\ \A k \in D : first <= k
    BY <1>4
  <2>2. QED
    BY <2>1, <1>4, <1>2
\* a number that differs lies within one of the two versions
<1>0. \A i \in Nat \ {0} : Part(a, i) # Part(b, i) => i <= Len(a) \/ i <= Len(b)
  BY Zenon DEF Part
<1>5. CASE Part(a, 1) # Part(b, 1)
  <2>1. 1 \in D
    BY <1>5, <1>2, <1>0
  <2>2. first = 1
    BY <2>1, <1>4, <1>2
  <2>3. QED
    BY <1>1, <1>5, <2>1, <2>2
<1>6. CASE Part(a, 1) = Part(b, 1) /\ Part(a, 2) # Part(b, 2)
  <2>1. 2 \in D /\ 1 \notin D
    BY <1>6, <1>2, <1>0
  <2>2. \A k \in D : 2 <= k
    BY <2>1, <1>2
  <2>3. first = 2
    BY <2>1, <2>2, <1>4
  <2>4. QED
    BY <1>1, <1>6, <2>1, <2>3
<1>7. CASE Part(a, 1) = Part(b, 1) /\ Part(a, 2) = Part(b, 2)
           /\ Part(a, 3) # Part(b, 3)
  <2>1. 3 \in D /\ 1 \notin D /\ 2 \notin D
    BY <1>7, <1>2, <1>0
  <2>2. \A k \in D : 3 <= k
    BY <2>1, <1>2
  <2>3. first = 3
    BY <2>1, <2>2, <1>4
  <2>4. QED
    BY <1>1, <1>7, <2>1, <2>3
<1>8. CASE Part(a, 1) = Part(b, 1) /\ Part(a, 2) = Part(b, 2)
           /\ Part(a, 3) = Part(b, 3)
  <2>1. D = {}
    BY <1>8, <1>3, <1>2
  <2>2. QED
    BY <1>1, <1>8, <2>1
<1>9. QED
  BY <1>5, <1>6, <1>7, <1>8

\* pkg/version's GreaterThan is the numeric order of RefValue.
LEMMA VersionOrder ==
  ASSUME NEW a, NEW b, Bounded(a), Bounded(b)
  PROVE  GreaterThan(a, b) <=> RefValue(a) > RefValue(b)
<1>1. /\ Part(a, 1) \in 0 .. 99 /\ Part(a, 2) \in 0 .. 99 /\ Part(a, 3) \in 0 .. 99
      /\ Part(b, 1) \in 0 .. 99 /\ Part(b, 2) \in 0 .. 99 /\ Part(b, 3) \in 0 .. 99
  BY PartBounds
<1>2. CompareTo(a, b) =
           IF Part(a, 1) # Part(b, 1)
             THEN IF Part(a, 1) > Part(b, 1) THEN 1 ELSE -1
           ELSE IF Part(a, 2) # Part(b, 2)
             THEN IF Part(a, 2) > Part(b, 2) THEN 1 ELSE -1
           ELSE IF Part(a, 3) # Part(b, 3)
             THEN IF Part(a, 3) > Part(b, 3) THEN 1 ELSE -1
           ELSE 0
  BY CompareCases
<1>3. PICK p1 \in 0 .. 99, p2 \in 0 .. 99, p3 \in 0 .. 99,
          q1 \in 0 .. 99, q2 \in 0 .. 99, q3 \in 0 .. 99 :
          /\ p1 = Part(a, 1) /\ p2 = Part(a, 2) /\ p3 = Part(a, 3)
          /\ q1 = Part(b, 1) /\ q2 = Part(b, 2) /\ q3 = Part(b, 3)
  BY <1>1, Zenon
<1>4. CompareTo(a, b) = IF p1 # q1 THEN IF p1 > q1 THEN 1 ELSE -1
                        ELSE IF p2 # q2 THEN IF p2 > q2 THEN 1 ELSE -1
                        ELSE IF p3 # q3 THEN IF p3 > q3 THEN 1 ELSE -1
                        ELSE 0
  BY <1>2, <1>3, Zenon
<1>5. /\ RefValue(a) = p1 * 10000 + p2 * 100 + p3
      /\ RefValue(b) = q1 * 10000 + q2 * 100 + q3
  BY <1>3, SMT DEF RefValue
<1>6. CompareTo(a, b) = 1 <=> p1 * 10000 + p2 * 100 + p3 > q1 * 10000 + q2 * 100 + q3
  BY <1>3, <1>4, SMT
<1>7. QED
  BY <1>5, <1>6, SMT DEF GreaterThan

-----------------------------------------------------------------------------
(***************************************************************************)
(* The version gate.  VersionGate alone is not inductive: it speaks only   *)
(* of finished requests.  GateInv adds what holds on the way there: a      *)
(* request is routed with a fresh response and no job run, and one that   *)
(* passed the gate has a version no newer than the server's and never     *)
(* takes VersionMsg as its error.                                          *)
(***************************************************************************)
Newer == GreaterThan(EffVersion(req.v), ApiVersion)

GateInv ==
  /\ req.v \in Versions \cup {<<>>}
  /\ phase = "route" =>
       w = [status |-> NoStatus, body |-> <<>>] /\ jobs = 0 /\ failed = "none"
  /\ phase \in {"handler", "error"} => failed # VersionMsg /\ ~Newer
  /\ phase = "done" =>
       /\ failed = VersionMsg <=> Newer
       /\ failed = VersionMsg => jobs = 0 /\ w.status = 404

\* What every handler step does to the gate's state: the request ends or
\* goes to httpError, it is unchanged, and its error is not VersionMsg.
HStep == phase' \in {"done", "error"} /\ req' = req /\ failed' # VersionMsg

\* The handlers' own error texts differ from the version error.
LEMMA OwnMsgs ==
  {ParseErr, DecodeErr, ReadErr, TopMsg, BuildMsg, StartCTMsg, CopyCTMsg,
   CopyPathMsg, CopyFileMsg, LogsMsg, "none"} \cap {VersionMsg} = {}
BY DEF ParseErr, DecodeErr, ReadErr, TopMsg, BuildMsg, StartCTMsg, CopyCTMsg,
       CopyPathMsg, CopyFileMsg, LogsMsg, VersionMsg

\* A job's error is nil or one of JobMsgs, never the version error.
LEMMA JobErr ==
  ASSUME NEW o \in Outcome
  PROVE  ErrOf(o) # VersionMsg /\ o # VersionMsg
<1>1. VersionMsg \notin JobMsgs
  BY ApiAssumption, Zenon DEF HandlerMsgs
<1>2. "none" # VersionMsg /\ "ok" # VersionMsg
  BY DEF VersionMsg
<1>3. QED
  BY <1>1, <1>2, Zenon DEF ErrOf, Outcome

LEMMA ReplyStep ==
  ASSUME NEW wr, NEW m, Reply(wr, m)
  PROVE  phase' \in {"done", "error"} /\ req' = req
BY DEF Reply

LEMMA RanJobStep ==
  ASSUME NEW k, NEW o \in Outcome, NEW wrote, NEW s, RanJob(k, o, wrote, s)
  PROVE  failed' # VersionMsg
BY JobErr DEF RanJob

LEMMA RefuseStep ==
  ASSUME NEW m, m # VersionMsg, Refuse(m)
  PROVE  HStep
BY ReplyStep DEF Refuse, HStep

LEMMA ParseErrorStep ==
  ASSUME ParseError
  PROVE  HStep
BY OwnMsgs, RefuseStep DEF ParseError

\* A job ran and the handler replied: the shape of most handlers.
LEMMA JobReplyStep ==
  ASSUME NEW k, NEW o \in Outcome, NEW wrote, NEW s, NEW wr, NEW m,
         RanJob(k, o, wrote, s), Reply(wr, m)
  PROVE  HStep
BY ReplyStep, RanJobStep DEF HStep

LEMMA UnaryStep ==
  ASSUME NEW code, Unary(code) PROVE HStep
BY JobReplyStep DEF Unary

LEMMA BufferedStep ==
  ASSUME NEW code, Buffered(code) PROVE HStep
BY JobReplyStep DEF Buffered

LEMMA StreamedStep ==
  ASSUME NEW s, Streamed(s) PROVE HStep
BY JobReplyStep DEF Streamed

LEMMA UsedGuardedStep ==
  ASSUME NEW json, UsedGuarded(json) PROVE HStep
BY JobReplyStep DEF UsedGuarded

LEMMA LegacyListStep ==
  ASSUME LegacyList PROVE HStep
BY JobReplyStep DEF LegacyList

LEMMA StartStopStep ==
  ASSUME NEW already, StartStop(already) PROVE HStep
BY JobReplyStep DEF StartStop

LEMMA OutStreamJobStep ==
  ASSUME NEW wr, OutStreamJob(wr) PROVE HStep
BY JobReplyStep DEF OutStreamJob

\* Every endpoint handler, whichever path it takes, ends the request or
\* hands it to httpError, and never with the version error.
LEMMA HandlerStepFacts ==
  ASSUME failed # VersionMsg, HandlerStep
  PROVE  HStep
<1> USE ParseErrorStep, UnaryStep
<1>1. CASE PostAuth
  BY <1>1, OwnMsgs, RefuseStep, JobReplyStep DEF PostAuth
<1>2. CASE PostContainersKill \/ PostContainersPause \/ PostContainersUnpause
           \/ PostContainersRestart \/ DeleteContainers \/ PostImagesTag
           \/ PostContainersResize
  BY <1>2 DEF PostContainersKill, PostContainersPause, PostContainersUnpause,
              PostContainersRestart, DeleteContainers, PostImagesTag,
              PostContainersResize
<1>3. CASE PostImagesLoad
  BY <1>3, JobReplyStep DEF PostImagesLoad
<1>4. CASE GetContainersExport \/ GetImagesGet \/ GetImagesHistory
           \/ GetContainersChanges \/ GetContainersByName \/ GetImagesByName
           \/ GetEvents \/ GetImagesSearch \/ DeleteImages \/ GetContainersTop
  BY <1>4, StreamedStep, OwnMsgs, RefuseStep
  DEF GetContainersExport, GetImagesGet, GetImagesHistory, GetContainersChanges,
      GetContainersByName, GetImagesByName, GetEvents, GetImagesSearch,
      DeleteImages, GetContainersTop
<1>5. CASE GetImagesJSON \/ GetContainersJSON
  BY <1>5, StreamedStep, LegacyListStep DEF GetImagesJSON, GetContainersJSON
<1>6. CASE PostContainersCreate
  <2>1. CASE Reply(w, "none") /\ failed' = ParseErr
    BY <2>1, OwnMsgs, ReplyStep DEF HStep
  <2>2. QED
    BY <1>6, <2>1, OwnMsgs, RefuseStep, BufferedStep DEF PostContainersCreate
<1>7. CASE PostCommit \/ PostContainersWait \/ PostImagesCreate
           \/ PostImagesPush \/ PostBuild
  BY <1>7, BufferedStep, UsedGuardedStep, OwnMsgs, RefuseStep
  DEF PostCommit, PostContainersWait, PostImagesCreate, PostImagesPush, PostBuild
<1>8. CASE PostContainersStart \/ PostContainersStop
  BY <1>8, StartStopStep, OwnMsgs, RefuseStep
  DEF PostContainersStart, PostContainersStop
<1>9. CASE GetContainersLogs \/ PostContainersAttach \/ WsContainersAttach
  BY <1>9, OutStreamJobStep, JobReplyStep, OwnMsgs, RefuseStep
  DEF GetContainersLogs, PostContainersAttach, WsContainersAttach, Outcome
<1>10. CASE PostContainersCopy
  BY <1>10, JobReplyStep, OwnMsgs, RefuseStep DEF PostContainersCopy
<1>11. CASE OptionsHandler \/ Ping
  BY <1>11, ReplyStep DEF OptionsHandler, Ping, HStep
<1>12. QED
  BY <1>1, <1>2, <1>3, <1>4, <1>5, <1>6, <1>7, <1>8, <1>9, <1>10, <1>11
  DEF HandlerStep

\* Every handler runs only in phase "handler" (On).
LEMMA HandlerPhase ==
  ASSUME HandlerStep PROVE phase = "handler"
BY DEF HandlerStep, On, PostAuth, PostContainersKill, PostContainersPause,
       PostContainersUnpause, PostContainersRestart, DeleteContainers,
       PostImagesTag, PostContainersResize, PostImagesLoad, GetContainersExport,
       GetImagesGet, GetImagesHistory, GetContainersChanges, GetContainersByName,
       GetImagesByName, GetEvents, GetImagesSearch, DeleteImages,
       GetContainersTop, GetImagesJSON, GetContainersJSON, PostContainersCreate,
       PostCommit, PostContainersWait, PostImagesCreate, PostImagesPush,
       PostBuild, PostContainersStart, PostContainersStop, GetContainersLogs,
       PostContainersAttach, WsContainersAttach, PostContainersCopy,
       OptionsHandler, Ping

\* http.Error on a fresh response sends the code it is given.
LEMMA FreshHttpError ==
  ASSUME NEW code, code # NoStatus
  PROVE  HttpErrorW([status |-> NoStatus, body |-> <<>>], code).status = code
BY DEF HttpErrorW, Put, WriteHeader, NoStatus

LEMMA GateInit == Init => GateInv
BY DEF Init, GateInv

LEMMA GateStep == GateInv /\ [Next]_vars => GateInv'
<1> SUFFICES ASSUME GateInv, [Next]_vars PROVE GateInv'
  OBVIOUS
<1>1. CASE Receive
  BY <1>1 DEF Receive, GateInv
<1>2. CASE MakeHttpHandler
  <2>1. phase = "route" /\ req' = req /\ jobs' = jobs
    BY <1>2 DEF MakeHttpHandler
  <2>2. Newer' = Newer
    BY <2>1 DEF Newer
  <2>3. CASE Newer
    <3>1. w' = HttpErrorW(w, 404) /\ failed' = VersionMsg /\ phase' = "done"
      BY <1>2, <2>3 DEF MakeHttpHandler, Newer
    <3>2. w'.status = 404 /\ jobs' = 0
      BY <2>1, <3>1, FreshHttpError DEF GateInv, NoStatus
    <3>3. QED
      BY <2>1, <2>2, <2>3, <3>1, <3>2 DEF GateInv
  <2>4. CASE ~Newer
    <3>1. phase' = "handler" /\ failed' = failed
      BY <1>2, <2>4 DEF MakeHttpHandler, Newer
    <3>2. failed # VersionMsg
      BY <2>1, OwnMsgs DEF GateInv
    <3>3. QED
      BY <2>1, <2>2, <2>4, <3>1, <3>2 DEF GateInv
  <2>5. QED
    BY <2>3, <2>4
<1>3. CASE HttpError
  <2>1. phase = "error" /\ phase' = "done" /\ req' = req /\ failed' = failed
    BY <1>3 DEF HttpError
  <2>2. Newer' = Newer
    BY <2>1 DEF Newer
  <2>3. QED
    BY <2>1, <2>2 DEF GateInv
<1>4. CASE HandlerStep
  <2>1. phase = "handler"
    BY <1>4, HandlerPhase
  <2>2. failed # VersionMsg /\ ~Newer
    BY <2>1 DEF GateInv
  <2>3. HStep
    BY <1>4, <2>2, HandlerStepFacts
  <2>4. Newer' = Newer
    BY <2>3 DEF HStep, Newer
  <2>5. QED
    BY <2>2, <2>3, <2>4 DEF HStep, GateInv
<1>5. CASE UNCHANGED vars
  BY <1>5 DEF vars, GateInv, Newer
<1>6. QED
  BY <1>1, <1>2, <1>3, <1>4, <1>5 DEF Next

\* Request versions and the server's are Bounded (ApiAssumption).
LEMMA VersionsBounded ==
  ASSUME NEW v \in Versions \cup {<<>>}
  PROVE  Bounded(EffVersion(v)) /\ Bounded(ApiVersion)
<1>1. Bounded(ApiVersion)
  BY ApiAssumption, Zenon DEF Bounded
<1>2. v # <<>> => Bounded(v)
  BY ApiAssumption, Zenon DEF Bounded
<1>3. QED
  BY <1>1, <1>2 DEF EffVersion

LEMMA GateImpliesVersionGate == GateInv => VersionGate
<1> SUFFICES ASSUME GateInv, phase = "done" PROVE VersionGate
  BY DEF VersionGate
<1>1. Newer <=> RefValue(EffVersion(req.v)) > RefValue(ApiVersion)
  BY VersionsBounded, VersionOrder DEF GateInv, Newer
<1>2. failed = VersionMsg => jobs = 0 /\ Status = 404
  BY DEF GateInv, Status, NoStatus
<1>3. QED
  BY <1>1, <1>2 DEF GateInv, VersionGate

\* makeHttpHandler's version gate, for every server version and every set of
\* request versions of up to three numbers below 100: a finished request was
\* refused with VersionMsg exactly when its version is numerically newer than
\* api.APIVERSION, and a refused request ran no job and got status 404.
THEOREM VersionGateSafety == Spec => []VersionGate
<1>1. Init => GateInv
  BY GateInit
<1>2. GateInv /\ [Next]_vars => GateInv'
  BY GateStep
<1>3. GateInv => VersionGate
  BY GateImpliesVersionGate
<1>4. QED
  BY <1>1, <1>2, <1>3, PTL DEF Spec


-----------------------------------------------------------------------------
(***************************************************************************)
(* The listing formats.  ListFormat speaks only of finished requests; on   *)
(* the way there a listing request has an empty body until its handler     *)
(* runs, and when the handler hands an error to httpError the body holds   *)
(* what the job streamed (from the cutover on) or nothing (below it):      *)
(* httpError then appends the error text after it.                        *)
(***************************************************************************)
Below == RefValue(EffVersion(req.v)) < RefValue(Cutover[req.h])

ListShape ==
  /\ phase \in {"route", "handler"} =>
       jobs = 0 /\ w = [status |-> NoStatus, body |-> <<>>]
  /\ phase = "error" /\ req.h \in DOMAIN Cutover /\ jobs = 1 =>
       /\ failed # "none"
       /\ w = [status |-> w.status, body |-> w.body]
       /\ used \in BOOLEAN
       /\ w.body = IF Below THEN <<>> ELSE IF used THEN <<"out">> ELSE <<>>

ListInv == GateInv /\ ListShape /\ ListFormat


\* The listing handler of h: parseForm, then the streamed list from the
\* cutover on, the legacy Table below it.
ListHandler(h) ==
  /\ On(h)
  /\ \/ ParseError
     \/ IF GreaterThanOrEqualTo(EffVersion(req.v), Cutover[h])
          THEN Streamed("json") ELSE LegacyList

\* compareTo's sign is the sign of the difference of the RefValues.
LEMMA VersionCompare ==
  ASSUME NEW a, NEW b, Bounded(a), Bounded(b)
  PROVE  /\ RefValue(a) \in Nat /\ RefValue(b) \in Nat
         /\ CompareTo(a, b) \in {-1, 0, 1}
         /\ CompareTo(a, b) = 1 <=> RefValue(a) > RefValue(b)
         /\ CompareTo(a, b) = 0 <=> RefValue(a) = RefValue(b)
<1>1. /\ Part(a, 1) \in 0 .. 99 /\ Part(a, 2) \in 0 .. 99 /\ Part(a, 3) \in 0 .. 99
      /\ Part(b, 1) \in 0 .. 99 /\ Part(b, 2) \in 0 .. 99 /\ Part(b, 3) \in 0 .. 99
  BY PartBounds
<1>2. PICK p1 \in 0 .. 99, p2 \in 0 .. 99, p3 \in 0 .. 99,
          q1 \in 0 .. 99, q2 \in 0 .. 99, q3 \in 0 .. 99 :
          /\ p1 = Part(a, 1) /\ p2 = Part(a, 2) /\ p3 = Part(a, 3)
          /\ q1 = Part(b, 1) /\ q2 = Part(b, 2) /\ q3 = Part(b, 3)
  BY <1>1, Zenon
<1>3. CompareTo(a, b) = IF p1 # q1 THEN IF p1 > q1 THEN 1 ELSE -1
                        ELSE IF p2 # q2 THEN IF p2 > q2 THEN 1 ELSE -1
                        ELSE IF p3 # q3 THEN IF p3 > q3 THEN 1 ELSE -1
                        ELSE 0
  BY <1>2, CompareCases, Zenon
<1>4. /\ RefValue(a) = p1 * 10000 + p2 * 100 + p3
      /\ RefValue(b) = q1 * 10000 + q2 * 100 + q3
  BY <1>2, SMT DEF RefValue
<1>5. /\ p1 * 10000 + p2 * 100 + p3 \in Nat
      /\ q1 * 10000 + q2 * 100 + q3 \in Nat
  BY SMT
<1>6. CompareTo(a, b) \in {-1, 0, 1}
  BY <1>3
<1>7. CompareTo(a, b) = 1 <=> p1 * 10000 + p2 * 100 + p3 > q1 * 10000 + q2 * 100 + q3
  BY <1>3, SMT
<1>8. CompareTo(a, b) = 0 <=> p1 * 10000 + p2 * 100 + p3 = q1 * 10000 + q2 * 100 + q3
  BY <1>3, SMT
<1>9. QED
  BY <1>4, <1>5, <1>6, <1>7, <1>8, SMT

\* pkg/version's GreaterThanOrEqualTo is the numeric order of RefValue.
LEMMA VersionOrderGe ==
  ASSUME NEW a, NEW b, Bounded(a), Bounded(b)
  PROVE  GreaterThanOrEqualTo(a, b) <=> RefValue(a) >= RefValue(b)
<1>1. /\ RefValue(a) \in Nat /\ RefValue(b) \in Nat
      /\ CompareTo(a, b) \in {-1, 0, 1}
      /\ CompareTo(a, b) = 1 <=> RefValue(a) > RefValue(b)
      /\ CompareTo(a, b) = 0 <=> RefValue(a) = RefValue(b)
  BY VersionCompare
<1>2. QED
  BY <1>1, SMT DEF GreaterThanOrEqualTo

\* The cutover versions are versions as ApiAssumption bounds them.
LEMMA CutoverBounded ==
  ASSUME NEW h \in DOMAIN Cutover PROVE Bounded(Cutover[h])
<1>1. Cutover[h] \in {<<1, 7>>, <<1, 5>>}
  BY DEF Cutover
<1>2. Bounded(<<1, 7>>) /\ Bounded(<<1, 5>>)
  BY DEF Bounded
<1>3. QED
  BY <1>1, <1>2

\* nil is not a job's error text, so a job's error is nil iff it succeeded.
LEMMA ErrOfNone ==
  ASSUME NEW o \in Outcome PROVE ErrOf(o) = "none" <=> o = "ok"
BY ApiAssumption DEF ErrOf, Outcome

\* Appending to a one-chunk body gives the two-chunk body.
LEMMA AppendOne ==
  ASSUME NEW x, NEW y PROVE Append(<<x>>, y) = <<x, y>>
<1>1. <<x>> \in Seq({x, y}) /\ y \in {x, y}
  OBVIOUS
<1>2. /\ Len(Append(<<x>>, y)) = 2
      /\ Append(<<x>>, y)[1] = x /\ Append(<<x>>, y)[2] = y
      /\ Append(<<x>>, y) \in Seq({x, y})
  BY <1>1, AppendProperties
<1>3. <<x, y>> \in Seq({x, y}) /\ Len(<<x, y>>) = 2
  OBVIOUS
<1>4. \A i \in 1 .. 2 : Append(<<x>>, y)[i] = <<x, y>>[i]
  BY <1>2
<1>5. QED
  BY <1>2, <1>3, <1>4, SeqEqual

\* The bodies a streamed listing can end with: the job's output, if any,
\* then httpError's text if the job failed; none holds a legacy document,
\* and each starts with the output iff the job wrote some.
LEMMA StreamBodies ==
  /\ Append(<<>>, "textErr") = <<"textErr">>
  /\ Append(<<"out">>, "textErr") = <<"out", "textErr">>
  /\ \A b \in {<<>>, <<"out">>, <<"textErr">>, <<"out", "textErr">>} :
       \A i \in DOMAIN b : b[i] # "doc"
  /\ \A b \in {<<"out">>, <<"out", "textErr">>} : b # <<>> /\ b[1] = "out"
  /\ \A b \in {<<>>, <<"textErr">>} : ~(b # <<>> /\ b[1] = "out")
<1>1. Append(<<"out">>, "textErr") = <<"out", "textErr">>
  BY AppendOne
<1>2. QED
  BY <1>1

\* Only the two listing handlers serve the routes ListFormat speaks of.
LEMMA ListHandlers ==
  ASSUME HandlerStep, req.h \in DOMAIN Cutover PROVE ListHandler(req.h)
<1>1. GetImagesJSON \/ GetContainersJSON
  BY DEF HandlerStep, On, Cutover, PostAuth, PostContainersKill,
       PostContainersPause, PostContainersUnpause, PostContainersRestart,
       DeleteContainers, PostImagesTag, PostContainersResize, PostImagesLoad,
       GetContainersExport, GetImagesGet, GetImagesHistory,
       GetContainersChanges, GetContainersByName, GetImagesByName, GetEvents,
       GetImagesSearch, DeleteImages, GetContainersTop, PostContainersCreate,
       PostCommit, PostContainersWait, PostImagesCreate, PostImagesPush,
       PostBuild, PostContainersStart, PostContainersStop, GetContainersLogs,
       PostContainersAttach, WsContainersAttach, PostContainersCopy,
       OptionsHandler, Ping
<1>2. GetImagesJSON => ListHandler(req.h)
  BY DEF GetImagesJSON, ListHandler, Cutover, V, On
<1>3. GetContainersJSON => ListHandler(req.h)
  BY DEF GetContainersJSON, ListHandler, Cutover, V, On
<1>4. QED
  BY <1>1, <1>2, <1>3


\* A listing handler, run on the fresh response of a request that passed the
\* gate, leaves the body ListShape and ListFormat expect.
LEMMA ListingStep ==
  ASSUME NEW h \in DOMAIN Cutover, req.h = h, GateInv, ListShape,
         phase = "handler", ListHandler(h)
  PROVE  ListShape' /\ ListFormat'
<1>1. w = [status |-> NoStatus, body |-> <<>>] /\ jobs = 0
  BY DEF ListShape
<1>2. Bounded(EffVersion(req.v)) /\ Bounded(Cutover[h])
  BY VersionsBounded, CutoverBounded DEF GateInv
<1>3. GreaterThanOrEqualTo(EffVersion(req.v), Cutover[h]) <=> ~Below
  <2>1. RefValue(EffVersion(req.v)) \in Nat /\ RefValue(Cutover[h]) \in Nat
    BY <1>2, VersionCompare
  <2>2. GreaterThanOrEqualTo(EffVersion(req.v), Cutover[h])
          <=> RefValue(EffVersion(req.v)) >= RefValue(Cutover[h])
    BY <1>2, VersionOrderGe
  <2>3. QED
    BY <2>1, <2>2, SMT DEF Below
<1>4. CASE ParseError
  <2>1. jobs' = 0 /\ phase' = "error"
    BY <1>4 DEF ParseError, Refuse, Reply, ParseErr
  <2>2. QED
    BY <2>1 DEF ListShape, ListFormat
<1>5. CASE ~Below /\ Streamed("json")
  <2>1. PICK o \in Outcome, wrote \in BOOLEAN :
          RanJob(1, o, wrote, "json") /\ Reply(Emit(w, "out", wrote), ErrOf(o))
    BY <1>5 DEF Streamed
  <2>2. w' = [status |-> IF wrote THEN 200 ELSE NoStatus,
              body |-> IF wrote THEN <<"out">> ELSE <<>>]
    BY <1>1, <2>1 DEF Reply, Emit, Put, NoStatus
  <2>3. /\ req' = req /\ jobs' = 1 /\ used' = wrote /\ failed' = ErrOf(o)
        /\ phase' = IF ErrOf(o) = "none" THEN "done" ELSE "error"
    BY <2>1 DEF RanJob, Reply
  <2>4. Below' = Below
    BY <2>3 DEF Below
  <2>5. ListShape'
    BY <1>5, <2>2, <2>3, <2>4 DEF ListShape
  <2>6. ListFormat'
    <3>1. CASE wrote
      BY <1>5, <2>2, <2>3, <2>4, <3>1, StreamBodies DEF ListFormat, Below
    <3>2. CASE ~wrote
      BY <1>5, <2>2, <2>3, <2>4, <3>2, StreamBodies DEF ListFormat, Below
    <3>3. QED
      BY <3>1, <3>2
  <2>7. QED
    BY <2>5, <2>6
<1>6. CASE Below /\ LegacyList
  <2>1. PICK o \in Outcome, wrote \in BOOLEAN :
          RanJob(1, o, wrote, "none")
          /\ Reply(IF o = "ok" THEN Put(w, "doc") ELSE w, ErrOf(o))
    BY <1>6 DEF LegacyList
  <2>2. w' = IF o = "ok" THEN [status |-> 200, body |-> <<"doc">>] ELSE w
    BY <1>1, <2>1 DEF Reply, Put, NoStatus
  <2>3. /\ req' = req /\ jobs' = 1 /\ failed' = ErrOf(o) /\ used' = wrote
        /\ phase' = IF ErrOf(o) = "none" THEN "done" ELSE "error"
    BY <2>1 DEF RanJob, Reply
  <2>4. ErrOf(o) = "none" <=> o = "ok"
    BY ErrOfNone
  <2>5. Below' = Below
    BY <2>3 DEF Below
  <2>6. QED
    BY <1>1, <1>6, <2>2, <2>3, <2>4, <2>5 DEF ListShape, ListFormat, Below
<1>7. ParseError \/ (~Below /\ Streamed("json")) \/ (Below /\ LegacyList)
  BY <1>3 DEF ListHandler
<1>8. QED
  BY <1>4, <1>5, <1>6, <1>7

\* Every step keeps the listing strengthening and ListFormat.
LEMMA ListStep == ListInv /\ [Next]_vars => ListShape' /\ ListFormat'
<1> SUFFICES ASSUME ListInv, [Next]_vars PROVE ListShape' /\ ListFormat'
  OBVIOUS
<1>1. CASE Receive
  BY <1>1 DEF Receive, ListShape, ListFormat
<1>2. CASE MakeHttpHandler
  <2>1. phase = "route" /\ jobs = 0 /\ w = [status |-> NoStatus, body |-> <<>>]
    BY <1>2 DEF MakeHttpHandler, ListInv, ListShape
  <2>2. /\ jobs' = 0
        /\ \/ phase' = "done"
           \/ phase' = "handler" /\ w' = w
    BY <1>2, <2>1 DEF MakeHttpHandler
  <2>3. QED
    BY <2>1, <2>2 DEF ListShape, ListFormat
<1>3. CASE HttpError
  <2>1. /\ phase = "error" /\ phase' = "done" /\ w' = HttpErrorW(w, ErrStatus(err))
        /\ UNCHANGED <<req, failed, jobs, used>>
    BY <1>3 DEF HttpError
  <2>2. Below' = Below
    BY <2>1 DEF Below
  <2>3. CASE req.h \in DOMAIN Cutover /\ jobs = 1
    <3>1. /\ failed # "none"
          /\ w = [status |-> w.status, body |-> w.body]
          /\ used \in BOOLEAN
          /\ w.body = IF Below THEN <<>> ELSE IF used THEN <<"out">> ELSE <<>>
      BY <2>1, <2>3 DEF ListInv, ListShape
    <3>2. w'.body = Append(w.body, "textErr")
      BY <2>1, <3>1 DEF HttpErrorW, Put, WriteHeader
    <3>3. CASE Below
      <4>1. w'.body = <<"textErr">>
        BY <3>1, <3>2, <3>3, StreamBodies
      <4>2. QED
        BY <2>1, <2>2, <3>1, <3>3, <4>1 DEF ListShape, ListFormat, Below
    <3>4. CASE ~Below /\ used
      BY <2>1, <2>2, <3>1, <3>2, <3>4, StreamBodies DEF ListShape, ListFormat, Below
    <3>5. CASE ~Below /\ ~used
      BY <2>1, <2>2, <3>1, <3>2, <3>5, StreamBodies DEF ListShape, ListFormat, Below
    <3>6. QED
      BY <3>3, <3>4, <3>5
  <2>4. CASE ~(req.h \in DOMAIN Cutover /\ jobs = 1)
    BY <2>1, <2>4 DEF ListShape, ListFormat
  <2>5. QED
    BY <2>3, <2>4
<1>4. CASE HandlerStep
  <2>1. phase = "handler"
    BY <1>4, HandlerPhase
  <2>2. HStep
    BY <1>4, <2>1, HandlerStepFacts DEF ListInv, GateInv
  <2>3. CASE req.h \in DOMAIN Cutover
    BY <1>4, <2>1, <2>3, ListHandlers, ListingStep DEF ListInv
  <2>4. CASE req.h \notin DOMAIN Cutover
    BY <2>2, <2>4 DEF HStep, ListShape, ListFormat
  <2>5. QED
    BY <2>3, <2>4
<1>5. CASE UNCHANGED vars
  BY <1>5 DEF vars, ListInv, ListShape, ListFormat, Below
<1>6. QED
  BY <1>1, <1>2, <1>3, <1>4, <1>5 DEF Next

\* The listing endpoints' formats, for every server version and every set of
\* request versions: a finished getImagesJSON (below 1.7) or
\* getContainersJSON (below 1.5) that ran its job sent one JSON document
\* after a successful job and only the error text after a failed one, and
\* from the cutover on never sent a legacy document and began its body with
\* the job's streamed output iff the job wrote any.
THEOREM ListFormatSafety == Spec => []ListFormat
<1>1. Init => ListInv
  BY GateInit DEF Init, ListInv, ListShape, ListFormat
<1>2. ListInv /\ [Next]_vars => ListInv'
  BY GateStep, ListStep DEF ListInv
<1>3. ListInv => ListFormat
  BY DEF ListInv
<1>4. QED
  BY <1>1, <1>2, <1>3, PTL DEF Spec


-----------------------------------------------------------------------------
(***************************************************************************)
(* Framing of logs and attach.  Once their output job runs, the handler    *)
(* writes the job's error into the stream itself and returns nil, so such  *)
(* a request never reaches httpError, which would append unframed text.   *)
(***************************************************************************)
LogsAttach == {"getContainersLogs", "postContainersAttach"}

FrameNoErr == phase = "error" /\ req.h \in LogsAttach => jobs # 2

FrameInv == ListInv /\ FrameNoErr /\ FramingConsistent

\* Every chunk of s is a StdWriter frame, or none is.
AllFramed(s)  == \A i \in DOMAIN s : s[i] \in {"frame", "frameErr"}
NoneFramed(s) == \A i \in DOMAIN s : s[i] \notin {"frame", "frameErr"}


\* The set FramingConsistent builds is all of the body, or empty, exactly
\* when every chunk, or none, is a frame.
LEMMA FramedSet ==
  ASSUME NEW s
  PROVE  LET framed == {i \in DOMAIN s : s[i] \in {"frame", "frameErr"}}
         IN  /\ framed = DOMAIN s <=> AllFramed(s)
             /\ framed = {} <=> NoneFramed(s)
BY DEF AllFramed, NoneFramed

\* The logs and attach handlers are the only ones on those routes.
LEMMA LogsAttachHandlers ==
  ASSUME HandlerStep, req.h \in LogsAttach
  PROVE  GetContainersLogs \/ PostContainersAttach
BY DEF HandlerStep, On, LogsAttach, PostAuth, PostContainersKill,
       PostContainersPause, PostContainersUnpause, PostContainersRestart,
       DeleteContainers, PostImagesTag, PostContainersResize, PostImagesLoad,
       GetContainersExport, GetImagesGet, GetImagesHistory,
       GetContainersChanges, GetContainersByName, GetImagesByName, GetEvents,
       GetImagesSearch, DeleteImages, GetContainersTop, GetImagesJSON,
       GetContainersJSON, PostContainersCreate, PostCommit,
       PostContainersWait, PostImagesCreate, PostImagesPush, PostBuild,
       PostContainersStart, PostContainersStop, WsContainersAttach,
       PostContainersCopy, OptionsHandler, Ping

\* The output job of logs and attach, on a response with no body yet, ends
\* the request with nothing but frames when Framed and no frame otherwise.
LEMMA OutStreamStep ==
  ASSUME NEW st, OutStreamJob([status |-> st, body |-> <<>>])
  PROVE  /\ phase' = "done" /\ jobs' = 2 /\ req' = req
         /\ Framed => AllFramed(w'.body)
         /\ ~Framed => NoneFramed(w'.body)
<1> DEFINE wr == [status |-> st, body |-> <<>>]
           c  == IF Framed THEN "frame" ELSE "out"
           e  == IF Framed THEN "frameErr" ELSE "textErr"
<1>1. PICK o \in Outcome, wrote \in BOOLEAN :
        /\ RanJob(2, o, wrote, IF Framed THEN "framed" ELSE "raw")
        /\ Reply(IF o = "ok" THEN Emit(wr, c, wrote)
                 ELSE Put(Emit(wr, c, wrote), e), "none")
  BY DEF OutStreamJob
<1>2. phase' = "done" /\ jobs' = 2 /\ req' = req
  BY <1>1 DEF RanJob, Reply
<1>3. w'.body \in {<<>>, <<c>>, <<e>>, <<c, e>>}
  <2>1. CASE o = "ok" /\ wrote
    BY <1>1, <2>1 DEF Reply, Emit, Put
  <2>2. CASE o = "ok" /\ ~wrote
    BY <1>1, <2>2 DEF Reply, Emit
  <2>3. CASE o # "ok" /\ wrote
    <3>1. Emit(wr, c, wrote).body = <<c>>
      BY <2>3 DEF Emit, Put
    <3>2. w' = Put(Emit(wr, c, wrote), e)
      BY <1>1, <2>3 DEF Reply
    <3>3. w'.body = Append(<<c>>, e)
      BY <3>1, <3>2 DEF Put
    <3>4. QED
      BY <3>3, AppendOne
  <2>4. CASE o # "ok" /\ ~wrote
    BY <1>1, <2>4 DEF Reply, Emit, Put
  <2>5. QED
    BY <2>1, <2>2, <2>3, <2>4
<1>4. \A i \in DOMAIN w'.body : w'.body[i] \in {c, e}
  BY <1>3
<1>5. QED
  BY <1>2, <1>4 DEF AllFramed, NoneFramed


\* Framed, the code's test, is the numeric test FramingConsistent states.
LEMMA FramedRef ==
  ASSUME req.v \in Versions \cup {<<>>}
  PROVE  Framed <=> ~req.tty /\ RefValue(EffVersion(req.v)) >= RefValue(<<1, 6>>)
<1>1. Bounded(EffVersion(req.v)) /\ Bounded(<<1, 6>>)
  BY VersionsBounded DEF Bounded
<1>2. GreaterThanOrEqualTo(EffVersion(req.v), <<1, 6>>)
        <=> RefValue(EffVersion(req.v)) >= RefValue(<<1, 6>>)
  BY <1>1, VersionOrderGe
<1>3. QED
  BY <1>2 DEF Framed, V

\* The logs and attach handlers keep FrameNoErr and FramingConsistent: every
\* path but the output job ends with at most the inspect job run.
LEMMA LogsAttachStep ==
  ASSUME ListInv, phase = "handler", GetContainersLogs \/ PostContainersAttach
  PROVE  FrameNoErr' /\ FramingConsistent'
<1>1. w = [status |-> NoStatus, body |-> <<>>]
  BY DEF ListInv, ListShape
<1>2. Framed <=> ~req.tty /\ RefValue(EffVersion(req.v)) >= RefValue(<<1, 6>>)
  BY FramedRef DEF ListInv, GateInv
<1>3. CASE \E st : OutStreamJob([status |-> st, body |-> <<>>])
  <2>1. PICK st : OutStreamJob([status |-> st, body |-> <<>>])
    BY <1>3
  <2>2. /\ phase' = "done" /\ jobs' = 2 /\ req' = req
        /\ Framed => AllFramed(w'.body)
        /\ ~Framed => NoneFramed(w'.body)
    BY <2>1, OutStreamStep
  <2>3. QED
    BY <1>2, <2>2, FramedSet DEF FramingConsistent, FrameNoErr
<1>4. CASE jobs' \in {0, 1}
  BY <1>4 DEF FramingConsistent, FrameNoErr
<1>5. ParseError \/ Refuse(LogsMsg) => jobs' = 0
  BY DEF ParseError, Refuse
<1>6. (\E o \in JobMsgs : RanJob(1, o, FALSE, "none") /\ Reply(w, o)) => jobs' = 1
  BY DEF RanJob
<1>7. WriteHeader(w, 200) = [status |-> 200, body |-> <<>>]
  BY <1>1 DEF WriteHeader, NoStatus
<1>8. QED
  BY <1>1, <1>3, <1>4, <1>5, <1>6, <1>7 DEF GetContainersLogs, PostContainersAttach

\* Every step keeps FrameNoErr and FramingConsistent.
LEMMA FrameStep == FrameInv /\ [Next]_vars => FrameNoErr' /\ FramingConsistent'
<1> SUFFICES ASSUME FrameInv, [Next]_vars PROVE FrameNoErr' /\ FramingConsistent'
  OBVIOUS
<1>1. CASE Receive
  BY <1>1 DEF Receive, FrameNoErr, FramingConsistent
<1>2. CASE MakeHttpHandler
  <2>1. phase = "route" /\ jobs = 0
    BY <1>2 DEF MakeHttpHandler, FrameInv, ListInv, ListShape
  <2>2. jobs' = 0 /\ phase' \in {"done", "handler"}
    BY <1>2, <2>1 DEF MakeHttpHandler
  <2>3. QED
    BY <2>2 DEF FrameNoErr, FramingConsistent
<1>3. CASE HttpError
  <2>1. /\ phase = "error" /\ phase' = "done"
        /\ UNCHANGED <<req, jobs>>
    BY <1>3 DEF HttpError
  <2>2. req.h \in LogsAttach => jobs # 2
    BY <2>1 DEF FrameInv, FrameNoErr
  <2>3. QED
    BY <2>1, <2>2 DEF FrameNoErr, FramingConsistent, LogsAttach
<1>4. CASE HandlerStep
  <2>1. phase = "handler"
    BY <1>4, HandlerPhase
  <2>2. CASE req.h \in LogsAttach
    BY <1>4, <2>1, <2>2, LogsAttachHandlers, LogsAttachStep DEF FrameInv
  <2>3. CASE req.h \notin LogsAttach
    <3>1. HStep
      BY <1>4, <2>1, HandlerStepFacts DEF FrameInv, ListInv, GateInv
    <3>2. QED
      BY <2>3, <3>1 DEF HStep, FrameNoErr, FramingConsistent, LogsAttach
  <2>4. QED
    BY <2>2, <2>3
<1>5. CASE UNCHANGED vars
  BY <1>5 DEF vars, FrameInv, FrameNoErr, FramingConsistent
<1>6. QED
  BY <1>1, <1>2, <1>3, <1>4, <1>5 DEF Next

\* Logs and attach multiplexing, for every server version and request
\* version: once the output job of getContainersLogs or postContainersAttach
\* has run, every chunk the client got is a StdWriter frame, the job's error
\* text included, exactly when the target has no tty and the client speaks
\* 1.6 or later, and no chunk is one otherwise.
THEOREM FramingSafety == Spec => []FramingConsistent
<1>1. Init => FrameInv
  BY GateInit DEF Init, FrameInv, ListInv, ListShape, ListFormat, FrameNoErr,
                  FramingConsistent
<1>2. FrameInv /\ [Next]_vars => FrameInv'
  BY GateStep, ListStep, FrameStep DEF FrameInv, ListInv
<1>3. FrameInv => FramingConsistent
  BY DEF FrameInv
<1>4. QED
  BY <1>1, <1>2, <1>3, PTL DEF Spec


-----------------------------------------------------------------------------
(***************************************************************************)
(* Error reporting.  FailureReported speaks only of finished requests.  On *)
(* the way there, a request handed to httpError has an error, and either   *)
(* its response is still fresh (httpError then sends an error status and   *)
(* only the error text) or its body is a text stream (httpError's text     *)
(* then ends the body in the stream's own format).                        *)
(***************************************************************************)
Fresh == [status |-> NoStatus, body |-> <<>>]

ErrPending ==
  /\ failed # "none"
  /\ \/ w = Fresh
     \/ /\ ErrChunk[stream] = "textErr"
        /\ w = [status |-> w.status, body |-> w.body]
        /\ w.body \in Seq(Chunks)

RepShape ==
  /\ phase \in {"route", "handler"} => failed = "none"
  /\ phase # "idle" => req.h \in Handlers
  /\ phase = "error" => ErrPending

RepInv == ListInv /\ RepShape /\ FailureReported


\* What a handler step leaves for RepShape and FailureReported: the request
\* is unchanged, and it is finished as FailureReported wants or handed to
\* httpError with an error pending.
RepOut ==
  /\ req' = req
  /\ phase' \in {"done", "error"}
  /\ phase' = "error" => ErrPending'
  /\ FailureReported'

\* A job's error is never one of the placeholders "ok" and "none".
LEMMA JobMsgsReal ==
  ASSUME NEW o \in JobMsgs PROVE o # "ok" /\ o # "none" /\ ErrOf(o) = o
BY ApiAssumption DEF ErrOf

\* A handler that refuses the request before any job runs.
LEMMA RefuseRep ==
  ASSUME w = Fresh, NEW m, m # "none", Refuse(m)
  PROVE  RepOut
BY DEF Refuse, Reply, RepOut, ErrPending, FailureReported

LEMMA ParseErrorRep ==
  ASSUME w = Fresh, ParseError PROVE RepOut
BY RefuseRep DEF ParseError, ParseErr

\* A handler that ran a job and replied with the job's error: on failure the
\* response is still fresh, or is a text stream.
LEMMA JobRep ==
  ASSUME w = Fresh, NEW k, NEW o \in Outcome, NEW wrote, NEW s, NEW wr,
         RanJob(k, o, wrote, s), Reply(wr, ErrOf(o)),
         o # "ok" => \/ wr = Fresh
                     \/ /\ ErrChunk[s] = "textErr"
                        /\ wr = [status |-> wr.status, body |-> wr.body]
                        /\ wr.body \in Seq(Chunks)
  PROVE  RepOut
<1>1. req' = req /\ w' = wr /\ stream' = s /\ failed' = ErrOf(o)
  BY DEF RanJob, Reply
<1>2. CASE o = "ok"
  <2>1. ErrOf(o) = "none" /\ phase' = "done" /\ failed' = "none"
    BY <1>1, <1>2 DEF ErrOf, Reply
  <2>2. QED
    BY <1>1, <2>1 DEF RepOut, FailureReported
<1>3. CASE o # "ok"
  <2>1. ErrOf(o) = o /\ o # "none"
    BY <1>3, JobMsgsReal DEF Outcome
  <2>2. phase' = "error"
    BY <2>1 DEF Reply
  <2>3. QED
    BY <1>1, <1>3, <2>1, <2>2 DEF RepOut, ErrPending, FailureReported
<1>4. QED
  BY <1>2, <1>3

LEMMA UnaryRep ==
  ASSUME w = Fresh, NEW code, Unary(code) PROVE RepOut
BY JobRep DEF Unary

LEMMA BufferedRep ==
  ASSUME w = Fresh, NEW code, Buffered(code) PROVE RepOut
BY JobRep DEF Buffered

\* Raw streaming: a failed job leaves its output and httpError's text after.
LEMMA StreamedRawRep ==
  ASSUME w = Fresh, Streamed("raw") PROVE RepOut
<1>1. PICK o \in Outcome, wrote \in BOOLEAN :
        RanJob(1, o, wrote, "raw") /\ Reply(Emit(w, "out", wrote), ErrOf(o))
  BY DEF Streamed
<1>2. \/ Emit(w, "out", wrote) = Fresh
      \/ /\ ErrChunk["raw"] = "textErr"
         /\ Emit(w, "out", wrote) = [status |-> 200, body |-> <<"out">>]
         /\ <<"out">> \in Seq(Chunks)
  BY DEF Emit, Put, Fresh, ErrChunk, Chunks, NoStatus
<1>3. QED
  BY <1>1, <1>2, JobRep


\* The Used() guard: a job that failed before writing is handed to
\* httpError on a fresh response; one that failed after writing ends the
\* body with the error in the stream's format.
LEMMA UsedGuardedRep ==
  ASSUME w = Fresh, NEW json \in BOOLEAN, UsedGuarded(json) PROVE RepOut
<1> DEFINE s == IF json THEN "json" ELSE "raw"
           ch == IF json THEN "jsonErr" ELSE "textErr"
<1>1. PICK o \in Outcome, wrote \in BOOLEAN :
        /\ RanJob(1, o, wrote, s)
        /\ Reply(IF o # "ok" /\ wrote THEN Put(Emit(w, "out", wrote), ch)
                 ELSE Emit(w, "out", wrote),
                 IF o # "ok" /\ ~wrote THEN o ELSE "none")
  BY DEF UsedGuarded
<1>2. req' = req /\ stream' = s /\ failed' = ErrOf(o)
  BY <1>1 DEF RanJob, Reply
<1>3. CASE o = "ok"
  <2>1. phase' = "done" /\ failed' = "none"
    BY <1>1, <1>2, <1>3 DEF Reply, ErrOf
  <2>2. QED
    BY <1>2, <2>1 DEF RepOut, FailureReported
<1>4. CASE o # "ok" /\ ~wrote
  <2>1. o # "none" /\ ErrOf(o) = o
    BY <1>4, JobMsgsReal DEF Outcome
  <2>2. phase' = "error" /\ w' = Fresh
    BY <1>1, <1>4, <2>1 DEF Reply, Emit
  <2>3. QED
    BY <1>2, <2>1, <2>2 DEF RepOut, ErrPending, FailureReported
<1>5. CASE o # "ok" /\ wrote
  <2>1. o # "none" /\ ErrOf(o) = o
    BY <1>5, JobMsgsReal DEF Outcome
  <2>2. Emit(w, "out", wrote).body = <<"out">>
    BY <1>5 DEF Emit, Put, Fresh
  <2>3. phase' = "done" /\ w' = Put(Emit(w, "out", wrote), ch)
    BY <1>1, <1>5 DEF Reply
  <2>4. w'.body = <<"out", ch>>
    BY <2>2, <2>3, AppendOne DEF Put
  <2>5. ErrChunk[stream'] = ch
    BY <1>2 DEF ErrChunk
  <2>6. w'.body # <<>> /\ w'.body[Len(w'.body)] = ErrChunk[stream']
    BY <2>4, <2>5
  <2>7. QED
    BY <1>2, <2>1, <2>3, <2>6 DEF RepOut, FailureReported
<1>6. QED
  BY <1>3, <1>4, <1>5

\* Start and stop: "already started/stopped" is answered with 304 and no
\* body; any other failure goes to httpError on a fresh response.
LEMMA StartStopRep ==
  ASSUME w = Fresh, NEW already, already # "ok", StartStop(already)
  PROVE  RepOut
<1>1. PICK o \in Outcome :
        /\ RanJob(1, o, FALSE, "none")
        /\ Reply(IF o = "ok" THEN WriteHeader(w, 204)
                 ELSE IF o = already THEN WriteHeader(w, 304) ELSE w,
                 IF o = already THEN "none" ELSE ErrOf(o))
  BY DEF StartStop
<1>2. req' = req /\ failed' = ErrOf(o)
  BY <1>1 DEF RanJob, Reply
<1>3. CASE o = "ok"
  BY <1>1, <1>2, <1>3 DEF Reply, ErrOf, RepOut, FailureReported
<1>4. CASE o # "ok"
  <2>1. o # "none" /\ ErrOf(o) = o
    BY <1>4, JobMsgsReal DEF Outcome
  <2>2. CASE o = already
    <3>1. phase' = "done" /\ w' = [status |-> 304, body |-> <<>>]
      BY <1>1, <1>4, <2>2 DEF Reply, WriteHeader, Fresh, NoStatus
    <3>2. QED
      BY <1>2, <3>1 DEF RepOut, FailureReported, Status, NoStatus
  <2>3. CASE o # already
    <3>1. phase' = "error" /\ w' = Fresh
      BY <1>1, <1>4, <2>1, <2>3 DEF Reply
    <3>2. QED
      BY <1>2, <2>1, <3>1 DEF RepOut, ErrPending, FailureReported
  <2>4. QED
    BY <2>2, <2>3
<1>5. QED
  BY <1>3, <1>4

\* The last chunk of a one- or two-chunk body.
LEMMA LastChunk ==
  ASSUME NEW x, NEW y, NEW b, b = <<y>> \/ b = <<x, y>>
  PROVE  b # <<>> /\ b[Len(b)] = y
<1>1. CASE b = <<y>>
  BY <1>1
<1>2. CASE b = <<x, y>>
  BY <1>2
<1>3. QED
  BY <1>1, <1>2

\* The output job of logs and attach ends the request; a job error ends the
\* body as a frame or as text, as the stream is framed or raw.
LEMMA OutStreamRep ==
  ASSUME NEW st, OutStreamJob([status |-> st, body |-> <<>>]) PROVE RepOut
<1> DEFINE wr == [status |-> st, body |-> <<>>]
           c  == IF Framed THEN "frame" ELSE "out"
           e  == IF Framed THEN "frameErr" ELSE "textErr"
           s  == IF Framed THEN "framed" ELSE "raw"
<1>1. PICK o \in Outcome, wrote \in BOOLEAN :
        /\ RanJob(2, o, wrote, s)
        /\ Reply(IF o = "ok" THEN Emit(wr, c, wrote)
                 ELSE Put(Emit(wr, c, wrote), e), "none")
  BY DEF OutStreamJob
<1>2. req' = req /\ phase' = "done" /\ stream' = s /\ failed' = ErrOf(o)
  BY <1>1 DEF RanJob, Reply
<1>3. CASE o = "ok"
  BY <1>2, <1>3 DEF ErrOf, RepOut, FailureReported
<1>4. CASE o # "ok"
  <2>1. w' = Put(Emit(wr, c, wrote), e)
    BY <1>1, <1>4 DEF Reply
  <2>2. w'.body = <<e>> \/ w'.body = <<c, e>>
    <3>1. CASE wrote
      <4>1. Emit(wr, c, wrote).body = <<c>>
        BY <3>1 DEF Emit, Put
      <4>2. QED
        BY <2>1, <4>1, AppendOne DEF Put
    <3>2. CASE ~wrote
      BY <2>1, <3>2 DEF Emit, Put
    <3>3. QED
      BY <3>1, <3>2
  <2>3. ErrChunk[stream'] = e
    BY <1>2 DEF ErrChunk
  <2>4. w'.body # <<>> /\ w'.body[Len(w'.body)] = e
    BY <2>2, LastChunk
  <2>5. QED
    BY <1>2, <2>3, <2>4 DEF RepOut, FailureReported
<1>5. QED
  BY <1>3, <1>4


\* A handler step on a reporting route is one of the reporting handlers.
LEMMA ReportingCases ==
  ASSUME HandlerStep, req.h \in ReportingHandlers
  PROVE  \/ PostAuth \/ PostContainersKill \/ PostContainersPause
         \/ PostContainersUnpause \/ PostContainersRestart \/ DeleteContainers
         \/ PostImagesTag \/ PostContainersResize \/ PostImagesLoad
         \/ GetContainersExport \/ GetImagesGet \/ PostCommit
         \/ PostContainersWait \/ PostImagesCreate \/ PostImagesPush
         \/ PostBuild \/ PostContainersStart \/ PostContainersStop
         \/ GetContainersLogs \/ PostContainersAttach \/ OptionsHandler \/ Ping
BY DEF HandlerStep, On, ReportingHandlers, GetImagesHistory,
       GetContainersChanges, GetContainersByName, GetImagesByName, GetEvents,
       GetImagesSearch, DeleteImages, GetContainersTop, GetImagesJSON,
       GetContainersJSON, PostContainersCreate, WsContainersAttach,
       PostContainersCopy

\* pkg/version's comparisons are truth values.
LEMMA CompareBoolean ==
  ASSUME NEW a, NEW b
  PROVE  GreaterThan(a, b) \in BOOLEAN /\ GreaterThanOrEqualTo(a, b) \in BOOLEAN
<1>1. CompareTo(a, b) \in {-1, 0, 1}
  BY DEF CompareTo
<1>2. QED
  BY <1>1 DEF GreaterThan, GreaterThanOrEqualTo

\* Every reporting handler, run on a fresh response of a request with no
\* error yet, leaves what RepOut says.
LEMMA HandlerRep ==
  ASSUME w = Fresh, failed = "none", req.h \in ReportingHandlers, HandlerStep
  PROVE  RepOut
<1> USE ParseErrorRep, UnaryRep, BufferedRep
<1>1. CASE PostAuth
  <2>1. CASE Refuse(ReadErr)
    BY <2>1, RefuseRep DEF ReadErr
  <2>2. CASE \E o \in Outcome, wrote \in BOOLEAN :
               /\ RanJob(1, o, wrote, "none")
               /\ Reply(IF o # "ok" THEN w
                        ELSE IF wrote THEN WriteJSON(w, 200) ELSE WriteHeader(w, 204),
                        ErrOf(o))
    <3>1. PICK o \in Outcome, wrote \in BOOLEAN :
               /\ RanJob(1, o, wrote, "none")
               /\ Reply(IF o # "ok" THEN w
                        ELSE IF wrote THEN WriteJSON(w, 200) ELSE WriteHeader(w, 204),
                        ErrOf(o))
      BY <2>2
    <3>2. QED
      BY <3>1, JobRep
  <2>3. QED
    BY <1>1, <2>1, <2>2 DEF PostAuth
<1>2. CASE PostContainersKill \/ PostContainersPause \/ PostContainersUnpause
           \/ PostContainersRestart \/ DeleteContainers \/ PostImagesTag
           \/ PostContainersResize
  BY <1>2 DEF PostContainersKill, PostContainersPause, PostContainersUnpause,
              PostContainersRestart, DeleteContainers, PostImagesTag,
              PostContainersResize
<1>3. CASE PostImagesLoad
  <2>1. PICK o \in Outcome : RanJob(1, o, FALSE, "none") /\ Reply(w, ErrOf(o))
    BY <1>3 DEF PostImagesLoad
  <2>2. QED
    BY <2>1, JobRep
<1>4. CASE GetContainersExport \/ GetImagesGet
  BY <1>4, StreamedRawRep DEF GetContainersExport, GetImagesGet
<1>5. CASE PostCommit \/ PostContainersWait
  BY <1>5 DEF PostCommit, PostContainersWait
<1>6. CASE PostImagesCreate \/ PostImagesPush \/ PostBuild
  <2>1. GreaterThan(EffVersion(req.v), V(1, 0)) \in BOOLEAN
        /\ GreaterThanOrEqualTo(EffVersion(req.v), V(1, 8)) \in BOOLEAN
    BY CompareBoolean
  <2>2. DecodeErr # "none" /\ BuildMsg # "none"
    BY DEF DecodeErr, BuildMsg
  <2>3. QED
    BY <1>6, <2>1, <2>2, RefuseRep, UsedGuardedRep
    DEF PostImagesCreate, PostImagesPush, PostBuild
<1>7. CASE PostContainersStart \/ PostContainersStop
  <2>1. AlreadyStarted # "ok" /\ AlreadyStopped # "ok"
        /\ StartCTMsg # "none" /\ DecodeErr # "none"
    BY DEF AlreadyStarted, AlreadyStopped, StartCTMsg, DecodeErr
  <2>2. QED
    BY <1>7, <2>1, RefuseRep, StartStopRep
    DEF PostContainersStart, PostContainersStop
<1>8. CASE GetContainersLogs \/ PostContainersAttach
  <2>1. CASE ParseError \/ Refuse(LogsMsg)
    BY <2>1, RefuseRep DEF LogsMsg
  <2>2. CASE \E o \in JobMsgs : RanJob(1, o, FALSE, "none") /\ Reply(w, o)
    <3>1. PICK o \in JobMsgs : RanJob(1, o, FALSE, "none") /\ Reply(w, o)
      BY <2>2
    <3>2. o \in Outcome /\ ErrOf(o) = o
      BY JobMsgsReal DEF Outcome
    <3>3. QED
      BY <3>1, <3>2, JobRep
  <2>3. CASE OutStreamJob(w) \/ OutStreamJob(WriteHeader(w, 200))
    <3>1. WriteHeader(w, 200) = [status |-> 200, body |-> <<>>]
      BY DEF WriteHeader, Fresh, NoStatus
    <3>2. QED
      BY <2>3, <3>1, OutStreamRep DEF Fresh
  <2>4. QED
    BY <1>8, <2>1, <2>2, <2>3 DEF GetContainersLogs, PostContainersAttach
<1>9. CASE OptionsHandler \/ Ping
  BY <1>9 DEF OptionsHandler, Ping, Reply, RepOut, FailureReported
<1>10. QED
  BY <1>1, <1>2, <1>3, <1>4, <1>5, <1>6, <1>7, <1>8, <1>9, ReportingCases


\* httpError's status is an error status.
LEMMA ErrStatusRange ==
  ASSUME NEW m PROVE ErrStatus(m) >= 300 /\ ErrStatus(m) # NoStatus
BY DEF ErrStatus, NoStatus

\* Every step keeps RepShape and FailureReported, when only reporting
\* handlers are routed.
LEMMA RepStep ==
  ASSUME Handlers \subseteq ReportingHandlers, RepInv, [Next]_vars
  PROVE  RepShape' /\ FailureReported'
<1>1. CASE Receive
  BY <1>1 DEF Receive, RepShape, FailureReported
<1>2. CASE MakeHttpHandler
  <2>1. /\ phase = "route" /\ w = Fresh /\ failed = "none" /\ req.h \in Handlers
        /\ req' = req
    BY <1>2 DEF MakeHttpHandler, RepInv, ListInv, ListShape, RepShape, Fresh
  <2>2. CASE phase' = "done"
    <3>1. w' = [status |-> 404, body |-> <<"textErr">>]
      BY <1>2, <2>1, <2>2 DEF MakeHttpHandler, HttpErrorW, Put, WriteHeader,
                              Fresh, NoStatus
    <3>2. QED
      BY <2>1, <2>2, <3>1 DEF RepShape, FailureReported, Status, NoStatus
  <2>3. CASE phase' # "done"
    <3>1. phase' = "handler" /\ failed' = failed
      BY <1>2, <2>3 DEF MakeHttpHandler
    <3>2. QED
      BY <2>1, <3>1 DEF RepShape, FailureReported
  <2>4. QED
    BY <2>2, <2>3
<1>3. CASE HttpError
  <2>1. /\ phase = "error" /\ phase' = "done"
        /\ w' = HttpErrorW(w, ErrStatus(err))
        /\ UNCHANGED <<req, failed, stream>>
    BY <1>3 DEF HttpError
  <2>2. ErrPending /\ req.h \in Handlers
    BY <2>1 DEF RepInv, RepShape
  <2>3. ErrStatus(err) >= 300 /\ ErrStatus(err) # NoStatus
    BY ErrStatusRange
  <2>4. CASE w = Fresh
    <3>1. w' = [status |-> ErrStatus(err), body |-> <<"textErr">>]
      BY <2>1, <2>3, <2>4 DEF HttpErrorW, Put, WriteHeader, Fresh, NoStatus
    <3>2. QED
      BY <2>1, <2>2, <2>3, <3>1 DEF RepShape, FailureReported, Status
  <2>5. CASE /\ ErrChunk[stream] = "textErr"
             /\ w = [status |-> w.status, body |-> w.body]
             /\ w.body \in Seq(Chunks)
    <3>1. w'.body = Append(w.body, "textErr")
      BY <2>1, <2>5 DEF HttpErrorW, Put, WriteHeader
    <3>2. w'.body # <<>> /\ w'.body[Len(w'.body)] = "textErr"
      BY <2>5, <3>1, AppendProperties DEF Chunks
    <3>3. QED
      BY <2>1, <2>2, <2>5, <3>2 DEF RepShape, FailureReported, ErrPending
  <2>6. QED
    BY <2>2, <2>4, <2>5 DEF ErrPending
<1>4. CASE HandlerStep
  <2>1. phase = "handler"
    BY <1>4, HandlerPhase
  <2>2. w = Fresh /\ failed = "none" /\ req.h \in ReportingHandlers
        /\ req.h \in Handlers
    BY <2>1 DEF RepInv, ListInv, ListShape, RepShape, Fresh
  <2>3. RepOut
    BY <1>4, <2>2, HandlerRep
  <2>4. QED
    BY <2>2, <2>3 DEF RepOut, RepShape
<1>5. CASE UNCHANGED vars
  BY <1>5 DEF vars, RepInv, RepShape, ErrPending, FailureReported, Status
<1>6. QED
  BY <1>1, <1>2, <1>3, <1>4, <1>5 DEF Next

\* Error reporting, for every server version, request version and set of
\* job errors, when only the handlers of ReportingHandlers are routed: a
\* finished request that met an error got an error status and none of the
\* job's output, or a body that ends with the error in the body's own
\* format (httpError, the Used() guard, "already started/stopped" as 304,
\* and the error frame of logs and attach).
THEOREM FailureReportedSafety ==
  ASSUME Handlers \subseteq ReportingHandlers
  PROVE  Spec => []FailureReported
<1> DEFINE Inv == RepInv
<1>1. Init => Inv
  BY GateInit DEF Init, RepInv, ListInv, ListShape, ListFormat, RepShape,
                  FailureReported
<1>2. Inv /\ [Next]_vars => Inv'
  BY GateStep, ListStep, RepStep DEF RepInv, ListInv
<1>3. Inv => FailureReported
  BY DEF RepInv
<1>4. QED
  BY <1>1, <1>2, <1>3, PTL DEF Spec


-----------------------------------------------------------------------------
(***************************************************************************)
(* Type correctness.  TypeOK alone does not say that the response is a     *)
(* record, which WriteHeader's EXCEPT needs to keep the body.              *)
(***************************************************************************)
Codes == {NoStatus, 101, 200, 201, 204, 304, 400, 401, 403, 404, 406, 409, 500}

WT(wr) ==
  /\ wr = [status |-> wr.status, body |-> wr.body]
  /\ wr.status \in Codes
  /\ wr.body \in Seq(Chunks)

TypeInv == TypeOK /\ WT(w)


Streams == {"none", "json", "raw", "framed"}

\* A handler step leaves a typed state and the request unchanged.
StepT ==
  /\ WT(w') /\ err' \in Msgs \cup {"none"} /\ failed' \in Msgs \cup {"none"}
  /\ jobs' \in 0 .. 2 /\ used' \in BOOLEAN /\ stream' \in Streams
  /\ phase' \in {"done", "error"} /\ req' = req

LEMMA PutT ==
  ASSUME NEW wr, WT(wr), NEW c \in Chunks PROVE WT(Put(wr, c))
<1>1. Append(wr.body, c) \in Seq(Chunks)
  BY AppendProperties DEF WT
<1>2. QED
  BY <1>1 DEF WT, Put, Codes

LEMMA WriteHeaderT ==
  ASSUME NEW wr, WT(wr), NEW code \in Codes PROVE WT(WriteHeader(wr, code))
BY DEF WT, WriteHeader

LEMMA EmitT ==
  ASSUME NEW wr, WT(wr), NEW c \in Chunks, NEW wrote PROVE WT(Emit(wr, c, wrote))
BY PutT DEF Emit

\* A job's error and the handlers' own texts are messages.
LEMMA ErrOfT ==
  ASSUME NEW o \in Outcome PROVE ErrOf(o) \in Msgs \cup {"none"}
BY DEF ErrOf, Outcome, Msgs

LEMMA JobCounts == 1 \in 0 .. 2 /\ 2 \in 0 .. 2
OBVIOUS

LEMMA HandlerMsgsT ==
  {ParseErr, DecodeErr, ReadErr, TopMsg, BuildMsg, StartCTMsg, CopyCTMsg,
   CopyPathMsg, CopyFileMsg, LogsMsg} \subseteq Msgs
BY DEF Msgs, HandlerMsgs

\* A job ran and the handler replied, both with typed arguments.
LEMMA JobT ==
  ASSUME NEW k \in 0 .. 2, NEW o \in Outcome, NEW wrote \in BOOLEAN,
         NEW s \in Streams, NEW wr, WT(wr), NEW m \in Msgs \cup {"none"},
         RanJob(k, o, wrote, s), Reply(wr, m)
  PROVE  StepT
BY ErrOfT DEF RanJob, Reply, StepT

LEMMA RefuseT ==
  ASSUME WT(w), NEW m \in Msgs, Refuse(m) PROVE StepT
<1>1. /\ w' = w /\ err' = m /\ failed' = m /\ jobs' = 0 /\ used' = FALSE
      /\ stream' = "none" /\ phase' \in {"done", "error"} /\ req' = req
  BY DEF Refuse, Reply
<1>2. WT(w')
  BY <1>1
<1>3. jobs' \in 0 .. 2
  BY <1>1
<1>4. QED
  BY <1>1, <1>2, <1>3, Zenon DEF StepT, Streams

LEMMA ParseErrorT ==
  ASSUME WT(w), ParseError PROVE StepT
BY RefuseT, HandlerMsgsT DEF ParseError

LEMMA UnaryT ==
  ASSUME WT(w), NEW code \in Codes, Unary(code) PROVE StepT
<1>1. PICK o \in Outcome :
        RanJob(1, o, FALSE, "none")
        /\ Reply(IF o = "ok" THEN WriteHeader(w, code) ELSE w, ErrOf(o))
  BY DEF Unary
<1>2. WT(IF o = "ok" THEN WriteHeader(w, code) ELSE w)
  BY WriteHeaderT
<1>3. QED
  BY <1>1, <1>2, ErrOfT, JobT, JobCounts DEF Streams

LEMMA BufferedT ==
  ASSUME WT(w), NEW code \in Codes, Buffered(code) PROVE StepT
<1>1. PICK o \in Outcome, wrote \in BOOLEAN :
        RanJob(1, o, wrote, "none")
        /\ Reply(IF o = "ok" THEN WriteJSON(w, code) ELSE w, ErrOf(o))
  BY DEF Buffered
<1>2. WT(IF o = "ok" THEN WriteJSON(w, code) ELSE w)
  BY WriteHeaderT, PutT DEF WriteJSON, Chunks
<1>3. QED
  BY <1>1, <1>2, ErrOfT, JobT, JobCounts DEF Streams

LEMMA StreamedT ==
  ASSUME WT(w), NEW s \in Streams, Streamed(s) PROVE StepT
<1>1. PICK o \in Outcome, wrote \in BOOLEAN :
        RanJob(1, o, wrote, s) /\ Reply(Emit(w, "out", wrote), ErrOf(o))
  BY DEF Streamed
<1>2. WT(Emit(w, "out", wrote))
  BY EmitT DEF Chunks
<1>3. QED
  BY <1>1, <1>2, ErrOfT, JobT

LEMMA UsedGuardedT ==
  ASSUME WT(w), NEW json \in BOOLEAN, UsedGuarded(json) PROVE StepT
<1>1. PICK o \in Outcome, wrote \in BOOLEAN :
        /\ RanJob(1, o, wrote, IF json THEN "json" ELSE "raw")
        /\ Reply(IF o # "ok" /\ wrote
                   THEN Put(Emit(w, "out", wrote), IF json THEN "jsonErr" ELSE "textErr")
                   ELSE Emit(w, "out", wrote),
                 IF o # "ok" /\ ~wrote THEN o ELSE "none")
  BY DEF UsedGuarded
<1>2. WT(Emit(w, "out", wrote))
  BY EmitT DEF Chunks
<1>3. WT(Put(Emit(w, "out", wrote), IF json THEN "jsonErr" ELSE "textErr"))
  BY <1>2, PutT DEF Chunks
<1>4. (IF o # "ok" /\ ~wrote THEN o ELSE "none") \in Msgs \cup {"none"}
  BY DEF Outcome, Msgs
<1>5. QED
  BY <1>1, <1>2, <1>3, <1>4, JobT, JobCounts DEF Streams

LEMMA LegacyListT ==
  ASSUME WT(w), LegacyList PROVE StepT
<1>1. PICK o \in Outcome, wrote \in BOOLEAN :
        RanJob(1, o, wrote, "none")
        /\ Reply(IF o = "ok" THEN Put(w, "doc") ELSE w, ErrOf(o))
  BY DEF LegacyList
<1>2. WT(IF o = "ok" THEN Put(w, "doc") ELSE w)
  BY PutT DEF Chunks
<1>3. QED
  BY <1>1, <1>2, ErrOfT, JobT, JobCounts DEF Streams

LEMMA StartStopT ==
  ASSUME WT(w), NEW already, StartStop(already) PROVE StepT
<1>1. PICK o \in Outcome :
        /\ RanJob(1, o, FALSE, "none")
        /\ Reply(IF o = "ok" THEN WriteHeader(w, 204)
                 ELSE IF o = already THEN WriteHeader(w, 304) ELSE w,
                 IF o = already THEN "none" ELSE ErrOf(o))
  BY DEF StartStop
<1>2. WT(IF o = "ok" THEN WriteHeader(w, 204)
         ELSE IF o = already THEN WriteHeader(w, 304) ELSE w)
  BY WriteHeaderT DEF Codes
<1>3. (IF o = already THEN "none" ELSE ErrOf(o)) \in Msgs \cup {"none"}
  BY ErrOfT
<1>4. QED
  BY <1>1, <1>2, <1>3, JobT, JobCounts DEF Streams

LEMMA OutStreamJobT ==
  ASSUME NEW wr, WT(wr), OutStreamJob(wr) PROVE StepT
<1> DEFINE c == IF Framed THEN "frame" ELSE "out"
           e == IF Framed THEN "frameErr" ELSE "textErr"
<1>1. PICK o \in Outcome, wrote \in BOOLEAN :
        /\ RanJob(2, o, wrote, IF Framed THEN "framed" ELSE "raw")
        /\ Reply(IF o = "ok" THEN Emit(wr, c, wrote)
                 ELSE Put(Emit(wr, c, wrote), e), "none")
  BY DEF OutStreamJob
<1>2. WT(Emit(wr, c, wrote)) /\ WT(Put(Emit(wr, c, wrote), e))
  BY EmitT, PutT DEF Chunks
<1>3. QED
  BY <1>1, <1>2, JobT, JobCounts DEF Streams


\* Every endpoint handler leaves a typed state.
LEMMA HandlerT ==
  ASSUME TypeOK, WT(w), HandlerStep PROVE StepT
<1> USE ParseErrorT, HandlerMsgsT
<1>0. /\ {NoStatus, 101, 200, 201, 204, 304, 404} \subseteq Codes
      /\ {"none", "json", "raw", "framed"} \subseteq Streams
      /\ JobMsgs \subseteq Msgs
      /\ {"out", "frame", "doc", "ok", "jsonErr", "textErr", "frameErr"} \subseteq Chunks
  BY DEF Codes, Streams, Msgs, Chunks
<1>1. CASE PostAuth
  <2>1. CASE \E o \in Outcome, wrote \in BOOLEAN :
               /\ RanJob(1, o, wrote, "none")
               /\ Reply(IF o # "ok" THEN w
                        ELSE IF wrote THEN WriteJSON(w, 200) ELSE WriteHeader(w, 204),
                        ErrOf(o))
    <3>1. PICK o \in Outcome, wrote \in BOOLEAN :
               /\ RanJob(1, o, wrote, "none")
               /\ Reply(IF o # "ok" THEN w
                        ELSE IF wrote THEN WriteJSON(w, 200) ELSE WriteHeader(w, 204),
                        ErrOf(o))
      BY <2>1
    <3>2. WT(IF o # "ok" THEN w
             ELSE IF wrote THEN WriteJSON(w, 200) ELSE WriteHeader(w, 204))
      BY <1>0, WriteHeaderT, PutT DEF WriteJSON
    <3>3. QED
      BY <1>0, <3>1, <3>2, ErrOfT, JobT, JobCounts
  <2>2. QED
    BY <1>1, <2>1, RefuseT DEF PostAuth
<1>2. CASE PostContainersKill \/ PostContainersPause \/ PostContainersUnpause
           \/ PostContainersRestart \/ DeleteContainers \/ PostImagesTag
           \/ PostContainersResize
  BY <1>0, <1>2, UnaryT
  DEF PostContainersKill, PostContainersPause, PostContainersUnpause,
      PostContainersRestart, DeleteContainers, PostImagesTag, PostContainersResize
<1>3. CASE PostImagesLoad
  <2>1. PICK o \in Outcome : RanJob(1, o, FALSE, "none") /\ Reply(w, ErrOf(o))
    BY <1>3 DEF PostImagesLoad
  <2>2. QED
    BY <1>0, <2>1, ErrOfT, JobT, JobCounts
<1>4. CASE GetContainersExport \/ GetImagesGet \/ GetImagesHistory
           \/ GetContainersChanges \/ GetContainersByName \/ GetImagesByName
           \/ GetEvents \/ GetImagesSearch \/ DeleteImages \/ GetContainersTop
  BY <1>0, <1>4, StreamedT, RefuseT
  DEF GetContainersExport, GetImagesGet, GetImagesHistory, GetContainersChanges,
      GetContainersByName, GetImagesByName, GetEvents, GetImagesSearch,
      DeleteImages, GetContainersTop
<1>5. CASE GetImagesJSON \/ GetContainersJSON
  BY <1>0, <1>5, StreamedT, LegacyListT DEF GetImagesJSON, GetContainersJSON
<1>6. CASE PostContainersCreate
  <2>1. CASE Reply(w, "none") /\ failed' = ParseErr /\ jobs' = 0
             /\ used' = FALSE /\ stream' = "none"
    <3>1. w' = w /\ err' = "none" /\ phase' = "done" /\ req' = req
      BY <2>1 DEF Reply
    <3>2. WT(w') /\ jobs' \in 0 .. 2
      BY <2>1, <3>1
    <3>3. QED
      BY <1>0, <2>1, <3>1, <3>2, Zenon DEF StepT
  <2>2. QED
    BY <1>0, <1>6, <2>1, RefuseT, BufferedT DEF PostContainersCreate
<1>7. CASE PostCommit \/ PostContainersWait \/ PostImagesCreate
           \/ PostImagesPush \/ PostBuild
  <2>1. GreaterThan(EffVersion(req.v), V(1, 0)) \in BOOLEAN
        /\ GreaterThanOrEqualTo(EffVersion(req.v), V(1, 8)) \in BOOLEAN
    BY CompareBoolean
  <2>2. QED
    BY <1>0, <1>7, <2>1, BufferedT, UsedGuardedT, RefuseT
    DEF PostCommit, PostContainersWait, PostImagesCreate, PostImagesPush, PostBuild
<1>8. CASE PostContainersStart \/ PostContainersStop
  BY <1>0, <1>8, StartStopT, RefuseT DEF PostContainersStart, PostContainersStop
<1>9. CASE GetContainersLogs \/ PostContainersAttach \/ WsContainersAttach
  <2>1. CASE \E o \in JobMsgs : RanJob(1, o, FALSE, "none") /\ Reply(w, o)
    <3>1. PICK o \in JobMsgs : RanJob(1, o, FALSE, "none") /\ Reply(w, o)
      BY <2>1
    <3>2. o \in Outcome /\ o \in Msgs
      BY <1>0 DEF Outcome
    <3>3. QED
      BY <1>0, <3>1, <3>2, JobT, JobCounts
  <2>2. CASE OutStreamJob(w) \/ OutStreamJob(WriteHeader(w, 200))
    BY <1>0, <2>2, WriteHeaderT, OutStreamJobT
  <2>3. CASE \E o \in Outcome, wrote \in BOOLEAN :
               /\ RanJob(2, o, wrote, "raw")
               /\ Reply(Emit(WriteHeader(w, 101), "out", wrote), "none")
    <3>1. PICK o \in Outcome, wrote \in BOOLEAN :
               /\ RanJob(2, o, wrote, "raw")
               /\ Reply(Emit(WriteHeader(w, 101), "out", wrote), "none")
      BY <2>3
    <3>2. WT(Emit(WriteHeader(w, 101), "out", wrote))
      BY <1>0, WriteHeaderT, EmitT
    <3>3. QED
      BY <1>0, <3>1, <3>2, JobT, JobCounts
  <2>4. QED
    BY <1>9, <2>1, <2>2, <2>3, RefuseT
    DEF GetContainersLogs, PostContainersAttach, WsContainersAttach
<1>10. CASE PostContainersCopy
  <2>1. CASE \E o \in Outcome, wrote \in BOOLEAN :
               LET out == Emit(w, "out", wrote) IN
               /\ RanJob(1, o, wrote, "raw")
               /\ \/ o = "ok" /\ Reply(out, "none")
                  \/ o # "ok" /\ Contains(o, "No such container")
                     /\ Reply(WriteHeader(out, 404), "none")
                  \/ o # "ok" /\ ~Contains(o, "No such container")
                     /\ Contains(o, "no such file or directory")
                     /\ Reply(out, CopyFileMsg)
                  \/ o # "ok" /\ ~Contains(o, "No such container")
                     /\ ~Contains(o, "no such file or directory")
                     /\ Reply(out, "none")
    <3>1. PICK o \in Outcome, wrote \in BOOLEAN :
               /\ RanJob(1, o, wrote, "raw")
               /\ \/ Reply(Emit(w, "out", wrote), "none")
                  \/ Reply(WriteHeader(Emit(w, "out", wrote), 404), "none")
                  \/ Reply(Emit(w, "out", wrote), CopyFileMsg)
      BY <2>1
    <3>2. /\ WT(Emit(w, "out", wrote))
          /\ WT(WriteHeader(Emit(w, "out", wrote), 404))
      BY <1>0, WriteHeaderT, EmitT
    <3>3. CopyFileMsg \in Msgs
      BY HandlerMsgsT
    <3>4. QED
      BY <1>0, <3>1, <3>2, <3>3, JobT, JobCounts
  <2>2. QED
    BY <1>10, <2>1, RefuseT DEF PostContainersCopy
<1>11. CASE OptionsHandler \/ Ping
  <2>1. /\ w' \in {WriteHeader(w, 200), Put(w, "ok")} /\ err' = "none"
        /\ phase' = "done" /\ req' = req
        /\ UNCHANGED <<failed, jobs, used, stream>>
    BY <1>11 DEF OptionsHandler, Ping, Reply
  <2>2. WT(WriteHeader(w, 200)) /\ WT(Put(w, "ok"))
    <3>1. 200 \in Codes /\ "ok" \in Chunks
      BY <1>0
    <3>2. QED
      BY <3>1, WriteHeaderT, PutT
  <2>3. WT(w')
    BY <2>1, <2>2
  <2>4. QED
    BY <2>1, <2>3 DEF StepT, TypeOK, Streams
<1>12. QED
  BY <1>1, <1>2, <1>3, <1>4, <1>5, <1>6, <1>7, <1>8, <1>9, <1>10, <1>11
  DEF HandlerStep


LEMMA TypeInit == Init => TypeInv
<1> SUFFICES ASSUME Init PROVE TypeInv
  OBVIOUS
<1>1. (CHOOSE h \in Handlers : TRUE) \in Handlers
  BY ApiAssumption
<1>2. req \in [h : Handlers, v : Versions \cup {<<>>}, tty : BOOLEAN]
  BY <1>1 DEF Init
<1>3. WT(w) /\ w.status \in Codes
  BY DEF Init, WT, Codes, NoStatus
<1>4. 0 \in 0 .. 2
  OBVIOUS
<1>5. QED
  BY <1>2, <1>3, <1>4, Zenon DEF Init, TypeInv, TypeOK, Codes, WT

LEMMA TypeStep == TypeInv /\ [Next]_vars => TypeInv'
<1> SUFFICES ASSUME TypeInv, [Next]_vars PROVE TypeInv'
  OBVIOUS
<1>0. 404 \in Codes /\ \A m : ErrStatus(m) \in Codes
  BY DEF Codes, ErrStatus
<1>1. CASE Receive
  <2>1. WT(w')
    BY <1>1 DEF Receive, WT, Codes, NoStatus
  <2>2. req' \in [h : Handlers, v : Versions \cup {<<>>}, tty : BOOLEAN]
    BY <1>1 DEF Receive
  <2>3. 0 \in 0 .. 2
    OBVIOUS
  <2>4. QED
    BY <1>1, <2>1, <2>2, <2>3, Zenon DEF Receive, TypeInv, TypeOK, WT, Codes
<1>2. CASE MakeHttpHandler
  <2>1. WT(HttpErrorW(w, 404))
    BY <1>0, WriteHeaderT, PutT DEF HttpErrorW, TypeInv, Chunks
  <2>2. VersionMsg \in Msgs
    BY DEF Msgs, HandlerMsgs
  <2>3. QED
    BY <1>2, <2>1, <2>2 DEF MakeHttpHandler, TypeInv, TypeOK, WT, Codes
<1>3. CASE HttpError
  <2>1. WT(HttpErrorW(w, ErrStatus(err)))
    BY <1>0, WriteHeaderT, PutT DEF HttpErrorW, TypeInv, Chunks
  <2>2. QED
    BY <1>3, <2>1 DEF HttpError, TypeInv, TypeOK, WT, Codes
<1>4. CASE HandlerStep
  <2>1. StepT
    BY <1>4, HandlerT DEF TypeInv
  <2>2. QED
    BY <2>1 DEF StepT, TypeInv, TypeOK, WT, Codes, Streams
<1>5. CASE UNCHANGED vars
  BY <1>5 DEF vars, TypeInv, TypeOK, WT
<1>6. QED
  BY <1>1, <1>2, <1>3, <1>4, <1>5 DEF Next

\* Type correctness of the request model, for every handler set, version
\* set and set of job errors: the phase, the request, the response's status
\* and chunks, the errors, the job count and the stream format stay in
\* their types through every handler path.
THEOREM ApiTypeCorrect == Spec => []TypeOK
<1>1. Init => TypeInv
  BY TypeInit
<1>2. TypeInv /\ [Next]_vars => TypeInv'
  BY TypeStep
<1>3. TypeInv => TypeOK
  BY DEF TypeInv
<1>4. QED
  BY <1>1, <1>2, <1>3, PTL DEF Spec

=============================================================================
