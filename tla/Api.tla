-------------------------------- MODULE Api --------------------------------
(***************************************************************************)
(* One HTTP request through the API server of docker 1.2.0                *)
(* (api/server/server.go): the route's makeHttpHandler closure checks the  *)
(* API version, calls the endpoint handler, and hands a returned error to  *)
(* httpError.  A handler builds engine jobs, wires their stdout to the     *)
(* response or to a buffer, runs them and writes the reply.                *)
(*                                                                         *)
(* Requests are served one after another: the state of one request is     *)
(* private to its goroutine, so nothing interleaves with it.  A job is an  *)
(* external collaborator: its result is any of JobMsgs or "ok", and        *)
(* whether it wrote to its stdout before returning is a free choice.       *)
(*                                                                         *)
(* The response is modelled as net/http's ResponseWriter sees it: a status *)
(* (0 until the header is written) and the sequence of chunks written to   *)
(* the body.  The first Write commits status 200; a WriteHeader after the  *)
(* header is written is ignored.                                           *)
(***************************************************************************)
EXTENDS Integers, Sequences, FiniteSets

CONSTANTS
  Handlers,     \* the endpoint handlers a client may call
  Versions,     \* request versions: sequences of numbers, <<>> for a bare path
  ApiVersion,   \* api.APIVERSION, the server's version
  JobMsgs,      \* error texts a job may fail with
  JobPhrases    \* JobPhrases[m]: the substrings httpError and the handlers test that m contains

\* The substrings the code looks for in error texts.
Phrases == {"No such", "Bad parameter", "Conflict", "Impossible",
            "Wrong login/password", "hasn't been activated",
            "No such container", "no such file or directory"}

\* Error texts made by the handlers themselves (fmt.Errorf), or by the form
\* and body decoders.
ParseErr     == "parse error"                    \* r.ParseForm failed
DecodeErr    == "decode error"                   \* a JSON body failed to decode
ReadErr      == "read error"                     \* ioutil.ReadAll(r.Body) failed
VersionMsg   == "client and server don't have same version"
TopMsg       == "top was improved a lot since 1.3, Please upgrade your docker client."
BuildMsg     == "Multipart upload for build is no longer supported. Please upgrade your docker client."
StartCTMsg   == "Content-Type of application/json is required"
CopyCTMsg    == "Content-Type not supported"
CopyPathMsg  == "Path cannot be empty"
CopyFileMsg  == "Could not find the file in container"
LogsMsg      == "Bad parameters: you must choose at least one stream"

HandlerMsgs == {ParseErr, DecodeErr, ReadErr, VersionMsg, TopMsg, BuildMsg,
                StartCTMsg, CopyCTMsg, CopyPathMsg, CopyFileMsg, LogsMsg}

Msgs == JobMsgs \cup HandlerMsgs

\* The job error texts postContainersStart and postContainersStop compare with.
AlreadyStarted == "Container already started"
AlreadyStopped == "Container already stopped"

ASSUME ApiAssumption ==
  /\ Handlers # {}
  /\ Versions \subseteq Seq(Nat)
  /\ ApiVersion \in Seq(Nat)
  /\ JobMsgs \cap HandlerMsgs = {}
  \* "ok" and "none" stand for a job's success and a nil error, not for
  \* error texts
  /\ JobMsgs \cap {"ok", "none"} = {}
  /\ JobPhrases \in [JobMsgs -> SUBSET Phrases]
  \* at most three numbers below 100 each, as in every docker API version
  /\ \A v \in Versions \cup {ApiVersion} :
       Len(v) <= 3 /\ \A i \in 1 .. Len(v) : v[i] < 100

\* strings.Contains(err.Error(), p)
Contains(m, p) ==
  IF m \in JobMsgs THEN p \in JobPhrases[m] ELSE m = LogsMsg /\ p = "Bad parameter"

(***************************************************************************)
(* pkg/version: Version.compareTo splits both versions on "." and compares *)
(* them number by number, a missing number counting as 0.                  *)
(***************************************************************************)
Part(s, i) == IF i <= Len(s) THEN s[i] ELSE 0

CompareTo(a, b) ==
  LET D == {i \in 1 .. Len(a) + Len(b) : Part(a, i) # Part(b, i)}
      i == CHOOSE j \in D : \A k \in D : j <= k
  IN  IF D = {} THEN 0 ELSE IF Part(a, i) > Part(b, i) THEN 1 ELSE -1

GreaterThan(a, b)          == CompareTo(a, b) = 1
GreaterThanOrEqualTo(a, b) == CompareTo(a, b) >= 0
LessThan(a, b)             == CompareTo(a, b) = -1

\* The version thresholds the handlers test.
V(major, minor) == <<major, minor>>

\* makeHttpHandler: a bare path (empty {version}) means api.APIVERSION.
EffVersion(v) == IF v = <<>> THEN ApiVersion ELSE v

VARIABLES
  phase,    \* "idle", "route" (makeHttpHandler), "handler", "error" (httpError), "done"
  req,      \* the request: [h |-> handler, v |-> version, tty |-> target has a tty]
  w,        \* the ResponseWriter: [status |-> 0 or the code sent, body |-> chunks]
  err,      \* the error the handler returned, "none" for nil
  failed,   \* the first error the request met, "none" if none
  jobs,     \* jobs run for this request
  used,     \* the last job wrote to its stdout (job.Stdout.Used())
  stream    \* format of the body: "none", "json", "raw" or "framed"

vars == <<phase, req, w, err, failed, jobs, used, stream>>

(***************************************************************************)
(* Body chunks: "out" job output, "frame" job output in a StdWriter frame,  *)
(* "doc" a JSON document the handler writes, "ok" the ping reply,          *)
(* "jsonErr" a StreamFormatter JSON error object, "textErr" an error as    *)
(* text, "frameErr" an error as text inside a StdWriter frame.             *)
(***************************************************************************)
Chunks == {"out", "frame", "doc", "ok", "jsonErr", "textErr", "frameErr"}

NoStatus == 0

\* w.Write(b): the first write commits status 200.
Put(wr, c) ==
  [status |-> IF wr.status = NoStatus THEN 200 ELSE wr.status,
   body   |-> Append(wr.body, c)]

\* What a job writes to a response it is wired to: one chunk c, if it wrote.
Emit(wr, c, wrote) == IF wrote THEN Put(wr, c) ELSE wr

\* w.WriteHeader(code): ignored once the header is written.
WriteHeader(wr, code) ==
  IF wr.status = NoStatus THEN [wr EXCEPT !.status = code] ELSE wr

\* writeJSON(w, code, env)
WriteJSON(wr, code) == Put(WriteHeader(wr, code), "doc")

\* http.Error(w, msg, code)
HttpErrorW(wr, code) == Put(WriteHeader(wr, code), "textErr")

\* The status the client receives: net/http sends 200 if none was written.
Status == IF w.status = NoStatus THEN 200 ELSE w.status

\* httpError's status table, first match wins.
ErrStatus(m) ==
  IF Contains(m, "No such") THEN 404
  ELSE IF Contains(m, "Bad parameter") THEN 400
  ELSE IF Contains(m, "Conflict") THEN 409
  ELSE IF Contains(m, "Impossible") THEN 406
  ELSE IF Contains(m, "Wrong login/password") THEN 401
  ELSE IF Contains(m, "hasn't been activated") THEN 403
  ELSE 500

Outcome == {"ok"} \cup JobMsgs

\* Mutant: the job's status is returned as the error even on success.
ErrOfStatus(o) == o

\* The error job.Run() returns.
ErrOf(o) == IF o = "ok" THEN "none" ELSE o

-----------------------------------------------------------------------------
Init ==
  /\ phase = "idle"
  /\ req = [h |-> CHOOSE h \in Handlers : TRUE, v |-> <<>>, tty |-> FALSE]
  /\ w = [status |-> NoStatus, body |-> <<>>]
  /\ err = "none"
  /\ failed = "none"
  /\ jobs = 0
  /\ used = FALSE
  /\ stream = "none"

\* A client sends a request; the router picks the handler of its route.
Receive ==
  /\ phase \in {"idle", "done"}
  /\ \E h \in Handlers, v \in Versions, tty \in BOOLEAN :
       req' = [h |-> h, v |-> v, tty |-> tty]
  /\ phase' = "route"
  /\ w' = [status |-> NoStatus, body |-> <<>>]
  /\ err' = "none" /\ failed' = "none" /\ jobs' = 0 /\ used' = FALSE
  /\ stream' = "none"

\* Mutant: the gate also refuses the server's own version.
MakeHttpHandlerGte ==
  /\ phase = "route"
  /\ IF GreaterThanOrEqualTo(EffVersion(req.v), ApiVersion)
       THEN /\ w' = HttpErrorW(w, 404)
            /\ failed' = VersionMsg
            /\ phase' = "done"
       ELSE /\ phase' = "handler"
            /\ UNCHANGED <<w, failed>>
  /\ UNCHANGED <<req, err, jobs, used, stream>>

\* makeHttpHandler: a version newer than api.APIVERSION is refused with 404.
MakeHttpHandler ==
  /\ phase = "route"
  /\ IF GreaterThan(EffVersion(req.v), ApiVersion)
       THEN /\ w' = HttpErrorW(w, 404)
            /\ failed' = VersionMsg
            /\ phase' = "done"
       ELSE /\ phase' = "handler"
            /\ UNCHANGED <<w, failed>>
  /\ UNCHANGED <<req, err, jobs, used, stream>>

\* makeHttpHandler passes a non-nil error from the handler to httpError.
HttpError ==
  /\ phase = "error"
  /\ w' = HttpErrorW(w, ErrStatus(err))
  /\ phase' = "done"
  /\ UNCHANGED <<req, err, failed, jobs, used, stream>>

-----------------------------------------------------------------------------
(***************************************************************************)
(* Pieces of the handler actions.                                          *)
(***************************************************************************)
\* The handler of the current request is h.
On(h) == phase = "handler" /\ req.h = h

\* The handler returns m (nil: "none") leaving the response as wr.
Reply(wr, m) ==
  /\ w' = wr
  /\ err' = m
  /\ phase' = IF m = "none" THEN "done" ELSE "error"
  /\ UNCHANGED req

\* The handler returns m before it runs a job (parseForm, a decoder, a check).
Refuse(m) ==
  /\ Reply(w, m)
  /\ failed' = m /\ jobs' = 0 /\ used' = FALSE /\ stream' = "none"

\* if err := parseForm(r); err != nil { return err }
ParseError == Refuse(ParseErr)

\* A job ran with outcome o and wrote to its stdout iff wrote.
RanJob(k, o, wrote, s) ==
  /\ jobs' = k /\ failed' = ErrOf(o) /\ used' = wrote /\ stream' = s

\* job.Run(); on error return err; else w.WriteHeader(code).
Unary(code) ==
  \E o \in Outcome :
    /\ RanJob(1, o, FALSE, "none")
    /\ Reply(IF o = "ok" THEN WriteHeader(w, code) ELSE w, ErrOf(o))

\* stdout to a buffer; on success writeJSON(w, code, env).
Buffered(code) ==
  \E o \in Outcome, wrote \in BOOLEAN :
    /\ RanJob(1, o, wrote, "none")
    /\ Reply(IF o = "ok" THEN WriteJSON(w, code) ELSE w, ErrOf(o))

\* stdout wired to w (streamJSON, or Stdout.Add(w)); return job.Run().
Streamed(s) ==
  \E o \in Outcome, wrote \in BOOLEAN :
    /\ RanJob(1, o, wrote, s)
    /\ Reply(Emit(w, "out", wrote), ErrOf(o))

\* Mutant: the error is returned to httpError whether or not output went out.
UsedGuardedUnchecked(json) ==
  \E o \in Outcome, wrote \in BOOLEAN :
    /\ RanJob(1, o, wrote, IF json THEN "json" ELSE "raw")
    /\ Reply(Emit(w, "out", wrote), ErrOf(o))

\* stdout wired to w; on error, if !job.Stdout.Used() return err, else
\* w.Write(sf.FormatError(err)), JSON iff json.
UsedGuarded(json) ==
  \E o \in Outcome, wrote \in BOOLEAN :
    /\ RanJob(1, o, wrote, IF json THEN "json" ELSE "raw")
    /\ Reply(IF o # "ok" /\ wrote
               THEN Put(Emit(w, "out", wrote), IF json THEN "jsonErr" ELSE "textErr")
               ELSE Emit(w, "out", wrote),
             IF o # "ok" /\ ~wrote THEN o ELSE "none")

\* Before 1.x the list is read into a Table and written after a successful run.
LegacyList ==
  \E o \in Outcome, wrote \in BOOLEAN :
    /\ RanJob(1, o, wrote, "none")
    /\ Reply(IF o = "ok" THEN Put(w, "doc") ELSE w, ErrOf(o))

-----------------------------------------------------------------------------
(***************************************************************************)
(* The endpoint handlers, one action each.  No route has an empty {name},  *)
(* so the "vars == nil" checks never fire and are left out.                *)
(***************************************************************************)
PostAuth ==
  /\ On("postAuth")
  /\ \/ Refuse(ReadErr)
     \/ \E o \in Outcome, wrote \in BOOLEAN :
          /\ RanJob(1, o, wrote, "none")
          /\ Reply(IF o # "ok" THEN w
                   ELSE IF wrote THEN WriteJSON(w, 200) ELSE WriteHeader(w, 204),
                   ErrOf(o))

PostContainersKill    == On("postContainersKill") /\ (ParseError \/ Unary(204))
PostContainersPause   == On("postContainersPause") /\ (ParseError \/ Unary(204))
PostContainersUnpause == On("postContainersUnpause") /\ (ParseError \/ Unary(204))
PostContainersRestart == On("postContainersRestart") /\ (ParseError \/ Unary(204))
DeleteContainers      == On("deleteContainers") /\ (ParseError \/ Unary(204))
PostImagesTag         == On("postImagesTag") /\ (ParseError \/ Unary(201))

\* postContainersResize writes no header: net/http sends 200.
PostContainersResize ==
  On("postContainersResize") /\ (ParseError \/ Unary(NoStatus))

\* postImagesLoad wires no stdout: the job's output is dropped.
PostImagesLoad ==
  /\ On("postImagesLoad")
  /\ \E o \in Outcome : RanJob(1, o, FALSE, "none") /\ Reply(w, ErrOf(o))

GetContainersExport == On("getContainersExport") /\ Streamed("raw")
GetImagesGet        == On("getImagesGet") /\ Streamed("raw")
GetImagesHistory    == On("getImagesHistory") /\ Streamed("json")
GetContainersChanges == On("getContainersChanges") /\ Streamed("json")
GetContainersByName == On("getContainersByName") /\ Streamed("json")
GetImagesByName     == On("getImagesByName") /\ Streamed("json")
GetEvents           == On("getEvents") /\ (ParseError \/ Streamed("json"))
GetImagesSearch     == On("getImagesSearch") /\ (ParseError \/ Streamed("json"))
DeleteImages        == On("deleteImages") /\ (ParseError \/ Streamed("json"))

GetContainersTop ==
  /\ On("getContainersTop")
  /\ IF LessThan(EffVersion(req.v), V(1, 4))
       THEN Refuse(TopMsg)
       ELSE ParseError \/ Streamed("json")

\* Mutant: the streaming cutover tested as "> 1.7" instead of ">= 1.7".
GetImagesJSONCutoverGt ==
  /\ On("getImagesJSON")
  /\ \/ ParseError
     \/ IF GreaterThan(EffVersion(req.v), V(1, 7))
          THEN Streamed("json") ELSE LegacyList

\* The legacy Table is written only after the job succeeded.
GetImagesJSON ==
  /\ On("getImagesJSON")
  /\ \/ ParseError
     \/ IF GreaterThanOrEqualTo(EffVersion(req.v), V(1, 7))
          THEN Streamed("json") ELSE LegacyList

GetContainersJSON ==
  /\ On("getContainersJSON")
  /\ \/ ParseError
     \/ IF GreaterThanOrEqualTo(EffVersion(req.v), V(1, 5))
          THEN Streamed("json") ELSE LegacyList

\* A parseForm error returns nil: the client gets 200 and an empty body.
PostContainersCreate ==
  /\ On("postContainersCreate")
  /\ \/ Reply(w, "none") /\ failed' = ParseErr /\ jobs' = 0
        /\ used' = FALSE /\ stream' = "none"
     \/ Refuse(DecodeErr)
     \/ Buffered(201)

\* A body that does not decode is logged and ignored.
PostCommit    == On("postCommit") /\ (ParseError \/ Buffered(201))
PostContainersWait == On("postContainersWait") /\ Buffered(200)

PostImagesCreate ==
  /\ On("postImagesCreate")
  /\ ParseError \/ UsedGuarded(GreaterThan(EffVersion(req.v), V(1, 0)))

\* Without X-Registry-Auth the credentials are decoded from the body.
PostImagesPush ==
  /\ On("postImagesPush")
  /\ \/ ParseError
     \/ Refuse(DecodeErr)
     \/ UsedGuarded(GreaterThan(EffVersion(req.v), V(1, 0)))

PostBuild ==
  /\ On("postBuild")
  /\ IF LessThan(EffVersion(req.v), V(1, 3))
       THEN Refuse(BuildMsg)
       ELSE UsedGuarded(GreaterThanOrEqualTo(EffVersion(req.v), V(1, 8)))

\* "Container already started" / "already stopped" is answered with 304.
StartStop(already) ==
  \E o \in Outcome :
    /\ RanJob(1, o, FALSE, "none")
    /\ Reply(IF o = "ok" THEN WriteHeader(w, 204)
             ELSE IF o = already THEN WriteHeader(w, 304) ELSE w,
             IF o = already THEN "none" ELSE ErrOf(o))

\* A body with the wrong Content-Type, or one that does not decode, fails.
PostContainersStart ==
  /\ On("postContainersStart")
  /\ Refuse(StartCTMsg) \/ Refuse(DecodeErr) \/ StartStop(AlreadyStarted)

PostContainersStop ==
  /\ On("postContainersStop")
  /\ ParseError \/ StartStop(AlreadyStopped)

\* Output is framed (utils.NewStdWriter) iff the target has no tty and the
\* client speaks 1.6 or later.
Framed == ~req.tty /\ GreaterThanOrEqualTo(EffVersion(req.v), V(1, 6))

\* Mutant: the job error is written to w, around the StdWriter.
OutStreamJobErrToW(wr) ==
  \E o \in Outcome, wrote \in BOOLEAN :
    LET c == IF Framed THEN "frame" ELSE "out"
        out == Emit(wr, c, wrote)
    IN  /\ RanJob(2, o, wrote, IF Framed THEN "framed" ELSE "raw")
        /\ Reply(IF o = "ok" THEN out ELSE Put(out, "textErr"), "none")

\* After the inspect job, the logs or attach job writes to outStream, and
\* its error is written there as text.
OutStreamJob(wr) ==
  \E o \in Outcome, wrote \in BOOLEAN :
    LET c == IF Framed THEN "frame" ELSE "out"
        e == IF Framed THEN "frameErr" ELSE "textErr"
        out == Emit(wr, c, wrote)
    IN  /\ RanJob(2, o, wrote, IF Framed THEN "framed" ELSE "raw")
        /\ Reply(IF o = "ok" THEN out ELSE Put(out, e), "none")

\* The streams are checked before any job runs, then container_inspect.
GetContainersLogs ==
  /\ On("getContainersLogs")
  /\ \/ ParseError
     \/ Refuse(LogsMsg)
     \/ \E o \in JobMsgs : RanJob(1, o, FALSE, "none") /\ Reply(w, o)
     \/ OutStreamJob(w)

\* After container_inspect the connection is hijacked and the status line
\* "HTTP/1.1 200 OK" is written by hand.
PostContainersAttach ==
  /\ On("postContainersAttach")
  /\ \/ ParseError
     \/ \E o \in JobMsgs : RanJob(1, o, FALSE, "none") /\ Reply(w, o)
     \/ OutStreamJob(WriteHeader(w, 200))

\* The websocket handshake answers 101; an attach error is only logged.
WsContainersAttach ==
  /\ On("wsContainersAttach")
  /\ \/ ParseError
     \/ \E o \in JobMsgs : RanJob(1, o, FALSE, "none") /\ Reply(w, o)
     \/ \E o \in Outcome, wrote \in BOOLEAN :
          /\ RanJob(2, o, wrote, "raw")
          /\ Reply(Emit(WriteHeader(w, 101), "out", wrote), "none")

\* On a job error: "No such container" sets 404, "no such file or
\* directory" returns CopyFileMsg, any other error is only logged.
PostContainersCopy ==
  /\ On("postContainersCopy")
  /\ \/ Refuse(CopyCTMsg)
     \/ Refuse(DecodeErr)
     \/ Refuse(CopyPathMsg)
     \/ \E o \in Outcome, wrote \in BOOLEAN :
          LET out == Emit(w, "out", wrote) IN
          /\ RanJob(1, o, wrote, "raw")
          /\ \/ o = "ok" /\ Reply(out, "none")
             \/ o # "ok" /\ Contains(o, "No such container")
                /\ Reply(WriteHeader(out, 404), "none")
             \/ o # "ok" /\ ~Contains(o, "No such container")
                /\ Contains(o, "no such file or directory")
                /\ Reply(out, CopyFileMsg)
             \/ o # "ok" /\ ~Contains(o, "No such container")
                /\ ~Contains(o, "no such file or directory")
                /\ Reply(out, "none")

OptionsHandler ==
  /\ On("optionsHandler")
  /\ Reply(WriteHeader(w, 200), "none") /\ UNCHANGED <<failed, jobs, used, stream>>

Ping ==
  /\ On("ping")
  /\ Reply(Put(w, "ok"), "none") /\ UNCHANGED <<failed, jobs, used, stream>>

HandlerStep ==
  \/ PostAuth \/ PostContainersKill \/ PostContainersPause
  \/ PostContainersUnpause \/ PostContainersRestart \/ DeleteContainers
  \/ PostImagesTag \/ PostContainersResize \/ PostImagesLoad
  \/ GetContainersExport \/ GetImagesGet \/ GetImagesHistory
  \/ GetContainersChanges \/ GetContainersByName \/ GetImagesByName
  \/ GetEvents \/ GetImagesSearch \/ DeleteImages \/ GetContainersTop
  \/ GetImagesJSON \/ GetContainersJSON \/ PostContainersCreate
  \/ PostCommit \/ PostContainersWait \/ PostImagesCreate \/ PostImagesPush
  \/ PostBuild \/ PostContainersStart \/ PostContainersStop
  \/ GetContainersLogs \/ PostContainersAttach \/ WsContainersAttach
  \/ PostContainersCopy \/ OptionsHandler \/ Ping

Next == Receive \/ MakeHttpHandler \/ HandlerStep \/ HttpError

Spec == Init /\ [][Next]_vars

-----------------------------------------------------------------------------
TypeOK ==
  /\ phase \in {"idle", "route", "handler", "error", "done"}
  /\ req \in [h : Handlers, v : Versions \cup {<<>>}, tty : BOOLEAN]
  /\ w.status \in {NoStatus, 101, 200, 201, 204, 304, 400, 401, 403, 404, 406, 409, 500}
  /\ w.body \in Seq(Chunks)
  /\ err \in Msgs \cup {"none"}
  /\ failed \in Msgs \cup {"none"}
  /\ jobs \in 0 .. 2
  /\ used \in BOOLEAN
  /\ stream \in {"none", "json", "raw", "framed"}


(***************************************************************************)
(* Reference ordering of versions (spec: "a dotted-numeric version value   *)
(* with total ordering"), as a number, to check the code's comparisons.    *)
(***************************************************************************)
RefValue(s) == Part(s, 1) * 10000 + Part(s, 2) * 100 + Part(s, 3)

\* The version gate of makeHttpHandler (spec 7 and 8): a request whose
\* version is newer than the server's, and only such a request, is refused
\* as a routing error: status 404 and no job invoked.
VersionGate ==
  phase = "done" =>
    /\ (RefValue(EffVersion(req.v)) > RefValue(ApiVersion)) <=> (failed = VersionMsg)
    /\ failed = VersionMsg => jobs = 0 /\ Status = 404

\* The error chunk that belongs to a body of each format.
ErrChunk == [none |-> "textErr", json |-> "jsonErr", raw |-> "textErr",
             framed |-> "frameErr"]

\* The handlers whose every error path reports the error to the client;
\* the others are the subject of the violation runs.
ReportingHandlers ==
  {"postAuth", "postContainersKill", "postContainersPause",
   "postContainersUnpause", "postContainersRestart", "deleteContainers",
   "postImagesTag", "postContainersResize", "postImagesLoad",
   "getContainersExport", "getImagesGet", "postCommit", "postContainersWait",
   "postImagesCreate", "postImagesPush", "postBuild", "postContainersStart",
   "postContainersStop", "getContainersLogs", "postContainersAttach",
   "optionsHandler", "ping"}

\* A request that met an error tells the client so (spec 4.2 and 7): by an
\* error status if none of the job's output went out, or else by an error
\* at the end of the body in the body's own format (a StreamFormatter JSON
\* object in a JSON stream).  It is about every handler's error path,
\* job.Stdout.Used() and httpError after a committed header.
FailureReported ==
  phase = "done" /\ failed # "none" =>
    \/ /\ Status >= 300
       /\ \A i \in DOMAIN w.body : w.body[i] \notin {"out", "frame"}
    \/ /\ w.body # <<>>
       /\ w.body[Len(w.body)] = ErrChunk[stream]

\* Logs and attach multiplexing (spec 4.3): once the output job runs, every
\* chunk the client gets is a StdWriter frame, error text included, or none
\* is; frames are used iff the target has no tty and the client speaks
\* 1.6 or later.
FramingConsistent ==
  phase = "done" /\ req.h \in {"getContainersLogs", "postContainersAttach"} /\ jobs = 2 =>
    LET framed == {i \in DOMAIN w.body : w.body[i] \in {"frame", "frameErr"}}
    IN  IF ~req.tty /\ RefValue(EffVersion(req.v)) >= RefValue(<<1, 6>>)
          THEN framed = DOMAIN w.body
          ELSE framed = {}

\* Listing cutovers (spec 3 and 8): below 1.7 for images and 1.5 for
\* containers the list is emitted atomically, one document after a
\* successful job and only the error text after a failed one; from the
\* cutover on, the job's output is streamed to the client as it is written
\* (the body starts with the job's output iff the job wrote any) and no
\* legacy document is ever sent.  How a failure after streamed output is
\* reported is FailureReported's business, not this property's.
Cutover == [getImagesJSON |-> <<1, 7>>, getContainersJSON |-> <<1, 5>>]

ListFormat ==
  phase = "done" /\ req.h \in DOMAIN Cutover /\ jobs = 1 =>
    IF RefValue(EffVersion(req.v)) < RefValue(Cutover[req.h])
      THEN w.body = IF failed = "none" THEN <<"doc">> ELSE <<"textErr">>
      ELSE /\ \A i \in DOMAIN w.body : w.body[i] # "doc"
           /\ used <=> (w.body # <<>> /\ w.body[1] = "out")

=============================================================================
