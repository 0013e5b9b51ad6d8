# TLA+ models of the docker 1.2.0 API server

This directory holds TLA+ models of the control-plane gateway of the docker 1.2.0
daemon (`src/api/server/server.go` and the daemon entry point `mainDaemon` in
`src/unnamed/part_002`). It also holds the TLC configurations that check them and
the TLAPS proofs about them.

## The system and its parts

| Part | Source | What it does |
|---|---|---|
| Daemon entry (`main`, `mainDaemon`) | `src/unnamed/part_003`, `src/unnamed/part_002` | `main` adds the default unix socket when no `-H` is given. `mainDaemon` registers the builtins, then starts a goroutine that runs `NewDaemon`, `Install` and the `acceptconnections` job. It then runs the `serveapi` job on the main goroutine. |
| Listener Manager (`ServeApi`, `ListenAndServe`, `ServeFd`, `changeGroup`) | `server.go` 1191–1370 | Starts one goroutine per `-H` address and collects their results on the buffered channel `chErrors`. Each goroutine sets up a tcp, unix or fd listener. |
| Activation Gate (`activationLock`, `AcceptConnections`) | `server.go` 40, 1349, 1377–1387 | A process-global channel. `ServeApi` makes it; `AcceptConnections` closes it. `listenbuffer` and `ServeFd` hold every accept until it is closed. |
| Ready notification (`SdNotify`) | `src/unnamed/part_000` | A best-effort datagram to systemd. |
| Router and Version Negotiator (`createRouter`, `makeHttpHandler`, `httpError`) | `server.go` 73–96, 1035–1176 | Maps method and path to a handler, rejects API versions newer than the server's, and maps error text to HTTP status codes. |
| Job-bridging handlers | `server.go` 124–1033 | One handler per endpoint. Each builds an engine job from the request and writes the job's output back. |
| Stream multiplexer / hijack | `server.go` 44–53, 794–890 | Attach hijacks the connection and streams raw or multiplexed output. |
| Client entry point (`main`, `NewDockerCli`, `Cmd`) | `src/unnamed/part_003`, `server.go` 1428–1522, `src/docker/client.go` | `main` runs a reexec initializer or parses the flags, picks the default `-H`, and either calls `mainDaemon` or builds the TLS configuration and the `DockerCli` and dispatches the command. |
| Flags and reexec | `src/docker/flags.go`, `src/reexec/reexec.go` | Package initialisers fix `dockerCertPath` and the defaults of the certificate flags; the execution drivers register reexec names, and `reexec.Init` runs the one named by `os.Args[0]`. |
| Version constants, `Env`/`Table` codec, scripts | `src/dockerversion`, `src/engine`, shell scripts | Build-time data and encoding. |

How the parts interact at start-up: the main goroutine and the daemon goroutine
run concurrently. The listeners may be bound, and clients may connect, while
`NewDaemon` and `Install` are still running. Only the activation gate keeps those
connections away from the router, whose job handlers do not exist yet.

## Modules

### `Startup` — the daemon start-up

The state follows the goroutines of the program:

| Variable | Code |
|---|---|
| `mainPc`, `spawnIdx`, `recvd`, `apiResult` | the main goroutine: `mainDaemon`, then `ServeApi`'s spawn loop (`spawnIdx`) and its collect loop (`recvd` nil results received) |
| `daemonPc` | the goroutine started by `mainDaemon` (`NewDaemon`, `Install`, `acceptconnections`) |
| `notify` | the `go systemd.SdNotify("READY=1")` goroutine |
| `lock` | the global `activationLock`: `"nil"`, `"open"` (made, not closed) or `"closed"` |
| `lpc[a]`, `lres[a]` | where the `ListenAndServe` goroutine of address `a` is, and the error it returns |
| `bound[a]`, `gated[a]` | a socket exists for `a`; its accepts wait for the gate (`listenbuffer`) |
| `umask`, `saved[a]` | the process-wide umask; the `oldmask` local of the unix branch |
| `chErrors` | the buffered channel, as a sequence with capacity `len(protoAddrs)` |
| `pending`, `connected`, `served` | client connections queued, made, and accepted |
| `exited` | the process has ended: `log.Fatal`, or `mainDaemon` returned |

There is one action per step of each goroutine. Each one models the whole
statement it stands for, including its error return. The main goroutine has
`MainDaemon`, `ServeApi`, `SpawnListener` and `CollectResult`. The daemon
goroutine has `NewDaemon`, `Install` and `AcceptConnections`. There is also
`SdNotify`. Each listener has `Start`, `Mask`, `Listen`, `Unmask`, `TlsSetup`,
`Check`, `FdActivate`, `Accept`, `ServeFail` and `Send`. The client has
`Connect`. Some external calls can fail: `builtins.Register`, `NewDaemon`,
`Install`, `Unlink`, `Listen`, loading TLS files, `changeGroup`, `Chmod`,
`ListenFD` and `Serve`. Each of these is a nondeterministic success or failure.

The constants are `Protos` (the scheme of each `-H` address), `SocketGroup`,
`Tls`, `TlsVerify`, `BufferRequests` and `MaxConns`, which bounds the
connections per address. `ConstantsAssumption` says `Protos` is non-empty, because
`main` always adds the default host. It also says `Protos` uses only the three
schemes that `ValidateHost` admits. So `ServeApi`'s usage error and the
`Invalid protocol format` branch are left out as unreachable.

The module simplifies one thing. `ServeFd` serves each inherited socket on its own
goroutine. The model gives each fd address at most one socket: `bound[a]`
nondeterministic in `Init`, with none meaning `ListenFD` returned an empty list.
`ListenFD` lives in `pkg/systemd`, outside `src/`. If it reports "No sockets
found" as an error rather than returning an empty list, the empty case is an
over-approximation: it adds behaviours, so it cannot hide a safety violation,
but the nil return of `ServeFd` and the StatusOK exit of `ServeApi` that
`startup_fd` reaches then exist only in the model.

### `StartupProofs` — TLAPS proofs about `Startup`

See *Proofs* below.

### `StartupListenerProofs` — TLAPS proofs about the listeners of `Startup`

The umask window and the fan-in of `chErrors`. See *Proofs* below.

### `ActivationGate` — what the start-up promises

An abstract specification of spec section 4.5, with four variables:
- `ready`: the job handlers are installed;
- `open`: the activation gate is open;
- `handled`: the set of connections handed to the router;
- `ended`: the process has ended.

Its actions are `Ready`, `Open` (only after `Ready`, and once), `Handle` (only
through an open gate, each connection once) and `End` (at any time).

`Startup` implements it under the instance `GateAbs` at the end of `Startup.tla`:
- `ready` is `Installed` (`d.Install` has returned);
- `open` is `lock = "closed"` (`activationLock` has been closed);
- `handled` is `Accepted`: connection `<<a, k>>` is accepted when `k <= served[a]`;
- `ended` is `exited`.

`ImplementsGate == GateAbs!Spec` is the refinement property.
`StartupRefinement` proves it (see *Proofs*).

### `Api` — one request through the router and a handler

Requests are served one after another. Each request's state belongs to its own
goroutine, so nothing interleaves with it. Each step of the request is one
action:

| Variable | Code |
|---|---|
| `phase` | `idle`, `route` (the `makeHttpHandler` closure), `handler`, `error` (`httpError`), `done` |
| `req` | the route's handler, the `{version}` path segment (`<<>>` for a bare path), and whether the target container has a tty |
| `w` | the `http.ResponseWriter`: the status written (0 until the header is written) and the chunks of the body |
| `err` | the error the handler returned to `makeHttpHandler` |
| `failed`, `jobs`, `used`, `stream` | the first error the request met, the jobs run, `job.Stdout.Used()`, and the format of the body (none, JSON stream, raw, StdWriter frames) |

The actions are `Receive` (the router picks a handler), `MakeHttpHandler` (the
version gate), `HttpError` (the status table), and one action per endpoint
handler, from `PostAuth` to `Ping`. A handler action covers the whole function:
- the `parseForm` and decoder errors, and the handler's own checks, each
  returning its `fmt.Errorf` text;
- the version branches;
- the jobs, and how their stdout is wired (to a buffer, `streamJSON`, the
  response, or a StdWriter);
- the reply, or the error it returns.

A job is an external collaborator. Its result is `"ok"` or one of `JobMsgs`, and
whether it wrote to its stdout before it returned is a free choice. The writer
follows net/http: the first `Write` commits status 200, and a later
`WriteHeader` is ignored.

Data is abstracted:
- An error text is a model value. The substrings that `httpError` and the
  handlers look for are the set `JobPhrases[m]`.
- A body is a sequence of chunk kinds (`out`, `frame`, `doc`, `jsonErr`,
  `textErr`, `frameErr`, `ok`).
- A version is a tuple of numbers, and `CompareTo` is `pkg/version`'s
  number-by-number comparison, a missing number counting as 0.

`getVersion`, `getInfo` and `getImagesViz` are not modelled: they hand the
request to `engine.ServeHTTP`, which is not part of this source.

### `ApiProofs` — TLAPS proofs about `Api`

See *Proofs* below.

### `Cli` — the docker binary from package initialisation to the hand-off

One process, one thread of control, so `pc` walks through the steps of the
code in order, and each action is one step:

| Action | Code |
|---|---|
| `Register` | each execution driver's `init` calls `reexec.Register`, which panics on a name registered twice |
| `CertPathVar`, `CertPathInit` | the package variable `dockerCertPath` and the `init` that falls back to `$HOME/.docker` |
| `FlagDefaultsInit` | the second `init` of `flags.go`: the defaults of `--tlscacert`, `--tlscert`, `--tlskey` |
| `ReexecInit` | `reexec.Init()` at the top of `main`: run the initializer and return |
| `Parse`, `Flags` | `flag.Parse`, `--version`, `--debug` |
| `DefaultHost` | no `-H`: `$DOCKER_HOST` (validated) or the unix socket; the unix socket for `-d` |
| `Mode` | `-d` (with or without daemon support), `--tlsverify` implies `--tls`, more than one `-H` |
| `TlsVerify`, `TlsCerts` | the CA file and the key pair, with the fatal error on a missing CA |
| `NewCli`, `Cmd` | `NewDockerCli` and the dispatch with its exit statuses |

The data is abstracted: a host address to its scheme, a command word to its
name and letter case, a file to its directory and name (`CertFile`). The empty
string is the model value `Empty`; a nil flag, an empty `RootCAs` or
`Certificates` are the typed values `NoFile` and `NoPair`. The command line,
`$DOCKER_HOST`, `$DOCKER_CERT_PATH` and the certificate files on disk are chosen
in `Init` from the constants.

### `CliProofs` — TLAPS proofs about `Cli`

See *Proofs* below.

### MC modules

`MC_Startup`, `MC_StartupFd` and `MC_StartupUnix` give `Protos` a value. The other
constants are set in the `.cfg` files.

`MC_Api` gives the constants of `Api` their values:
- Thirteen request versions that sit on both sides of every threshold a handler
  tests (1.0, 1.3, 1.4, 1.5, 1.6, 1.7, 1.8). They also include the server's own
  version, written bare, as `1.14` and as `1.14.0`, and newer ones (`1.14.1`,
  `1.15`, `2`).
- `ApiVersion = 1.14`.
- Five job error texts. Between them they hit every row of `httpError`'s table
  that a job error reaches, and the two "already" texts of start and stop.
- The handler sets of each run.

`MC_Cli` gives `Cli` three builds: the daemon build, whose drivers register
`lxc` and `native`; the client-only build, which registers nothing; and a build
registering `native` twice. `os.Args[0]` is `docker`, `lxc` or `native`. The
`-H` lists are none, one, and two addresses; `$DOCKER_HOST` is unset, `tcp` or
invalid; the arguments are none, `PS`, an unknown word before `ps`, and an
empty word; the certificate files are all in `$HOME/.docker`, all in
`$DOCKER_CERT_PATH`, all in the working directory, or the key missing.

## Runs

| Run | Config | Expect | Properties |
|---|---|---|---|
| `startup_gate` | `MC_Startup.cfg`: `<<unix, tcp, fd>>`, `--tls`, group `custom`, `MaxConns = 1` | pass | `TypeOK`, `NoServeBeforeInstall`, `UmaskRestored`, `FanInFaithful`, `ServedOnceOpen` |
| `startup_fd` | `MC_StartupFd.cfg`: `<<fd, fd>>` | pass | `FanInFaithful` |
| `startup_refines_gate` | `MC_StartupGate.cfg` on `MC_Startup`: as `startup_gate` | pass | `ImplementsGate` |
| `activation_race` | `MC_StartupRace.cfg` on `MC_Startup` | violation | `ReadyLeadsToGateOpen` |
| `umask_race` | `MC_StartupUnix.cfg`: `<<unix, unix>>` | violation | `UmaskRestored` |
| `cli_entry` | `MC_Cli.cfg` | pass | `TypeOK`, `DaemonGetsHosts`, `ClientTransport`, `ReexecExclusive` |
| `api_all` | `MC_Api.cfg`: every modelled handler | pass | `TypeOK`, `VersionGate`, `ListFormat` |
| `api_reporting` | `MC_ApiReport.cfg`: `ReportingHandlers`, the handlers whose every error path reaches the client | pass | `FramingConsistent`, `FailureReported` |
| `stream_json_error_text` | `MC_ApiStreamJSON.cfg`: the `streamJSON` handlers, the two listings included | violation | `FailureReported` |
| `copy_error_swallowed` | `MC_ApiCopy.cfg`: `postContainersCopy` | violation | `FailureReported` |
| `create_parse_error_swallowed` | `MC_ApiCreate.cfg`: `postContainersCreate` | violation | `FailureReported` |

What the properties say:

- `NoServeBeforeInstall`: no connection reaches the router before `d.Install`
  has returned.
- `UmaskRestored`: once no unix listener is between `Umask(0777)` and the
  restore, the umask is the original one.
- `FanInFaithful`: `ServeApi` returns StatusOK only if every listener returned
  nil. It returns an error only if some listener returned one.
- `ServedOnceOpen`: once the gate is open, every queued connection is eventually
  accepted, unless the process has ended.
- `ImplementsGate`: every behaviour of the start-up, under `GateAbs`, is a
  behaviour of `ActivationGate`. So `Install` returns before the lock closes,
  the lock closes at most once, and each accepted connection is handed over
  once, through the closed lock. Two mutants break it: `Accept` without the
  gate, and `acceptconnections` run before `Install`.
- `ReadyLeadsToGateOpen`: after `acceptconnections` has run, the gate is
  eventually open.
- `VersionGate`: a finished request was refused with the version error exactly
  when its version is numerically newer than `api.APIVERSION`. "Numerically" is
  measured by a reference value, base 100, not by the code's comparison. A
  refused request ran no job and got 404.
- `FailureReported`: a request that met an error tells the client. Either it
  gets an error status and none of the job's output, or the body ends with an
  error in the body's own format: a JSON error object in a JSON stream, a
  frame in a framed stream.
- `FramingConsistent`: once the output job of logs or attach runs, either
  every chunk is a StdWriter frame, the error included, or none is. Frames are
  used exactly when the target has no tty and the client speaks 1.6 or later.
- `ListFormat`: below the listing cutovers (1.7 for images, 1.5 for
  containers), the list is one document written after the job succeeded, and
  only the error text after a failed job. From the cutover on, no legacy
  document is ever sent, and the body starts with the job's output exactly
  when the job wrote some. How a failure after streamed output is reported is
  left to `FailureReported`: from the cutover on the listings stream JSON like
  the other `streamJSON` handlers and share their defect, which
  `stream_json_error_text` shows.

- `DaemonGetsHosts`: `main` calls `mainDaemon` only with a non-empty list of
  valid addresses and no stray argument; without `-H` it is the unix socket,
  whatever `$DOCKER_HOST` says. This is exactly what `Startup` assumes of its
  constants (`ConstantsAssumption`), so the two models compose: the start-up is
  checked for every host list `main` can hand it. Mutant: `$DOCKER_HOST` used
  for `-d`.
- `ClientTransport`: the `DockerCli` talks to the one host of `-H`, else
  `$DOCKER_HOST`, else the unix socket; uses https exactly under `--tls` or
  `--tlsverify`; verifies the daemon exactly under `--tlsverify`, against the CA
  of the cert directory; and sends that directory's key pair exactly when both
  files exist. Mutants: verification dropped, and the `init` that moves the
  cert directory to `$HOME/.docker` dropped, so the files are looked up in the
  working directory.
- `ReexecExclusive`: a binary started under a registered reexec name runs that
  initializer and nothing else; under any other name none runs. Mutant:
  `reexec.Init`'s result ignored.

Why these bounds are enough:

- `startup_gate` has one address of each scheme. So every branch of
  `ListenAndServe` runs, and a connection can be queued before the gate opens on
  a tcp, a unix and an fd socket.
- `MaxConns = 1` is enough, because the gate treats every connection alike.
- `startup_fd` is the only setting in which a listener returns nil (an fd
  address whose `ListenFD` gave no socket, see `Startup` above). That makes
  `ServeApi`'s count-to-N StatusOK branch reachable, so that the mutant of the
  collector that returns on the first nil is caught. `startup_gate` already
  covers an fd listener for the other properties.
- Deadlock is checked in `startup_gate`. In `startup_fd` it is not checked,
  because the `activation_race` hang is reachable there too and is reported by
  that run.
- For `Api`, each request runs from `Receive` to `done`, and a new request
  starts afresh. The request's path is covered in full:
  - every version on either side of every threshold;
  - every job outcome, with output written or not;
  - every tty setting.

  A longer run would only repeat requests. The state graph is small: 14743
  states for `api_all`, checked in seconds. Deadlock is checked: a finished
  request can always be followed by another.

- For `Cli`, every flag combination is enumerated in `Init`. The three builds
  reach the panic, the client-only `mainDaemon`, and the reexec path. The host
  lists, `$DOCKER_HOST` values and file sets reach every branch of
  `DefaultHost`, `Mode`, `TlsVerify` and `TlsCerts`, including the missing CA
  and the half key pair. One command name is enough, because `getMethod` treats
  every name alike; the four argument lists reach help, a known command in
  upper case, an unknown one, and an empty word.

### Fairness

Each goroutine's step is weakly fair: Go's scheduler runs every runnable
goroutine eventually. This covers `MainStep`, `DaemonStep`, `SdNotify` and each
`ListenerStep(a)`. `Connect` (clients) and `ServeFail` (a permanent accept error)
get no fairness. The program does not make them happen.

`Cli` is one goroutine, so `Spec` takes weak fairness of `Next`. No liveness
property is checked of it. Deadlock is checked: `Terminated` stutters only
once the process has exited.

## Findings

1. **Activation race** (`activation_race`). `mainDaemon` starts the daemon
   goroutine before the `serveapi` job runs. `AcceptConnections` reads the global
   `activationLock` without synchronisation. If `NewDaemon` and `Install` finish
   before `ServeApi` runs `activationLock = make(...)`, the close is skipped and
   the gate never opens. Every `listenbuffer` and `ServeFd` listener then waits
   forever, so the daemon runs but serves nothing. TLC finds this in a
   22-state trace.
2. **Umask race** (`umask_race`). With two `unix://` addresses, both goroutines
   save and restore the process-wide umask. If the second saves `0777` after the
   first has set it, and restores last, the daemon's umask stays `0777`. Files it
   creates afterwards then get no permissions. The spec's shared-resource policy
   (section 5) says the gate is the only cross-task shared mutable state.
3. **JSON streams end in plain text** (`stream_json_error_text`, `server.go:297`).
   The `streamJSON` handlers return `job.Run()`'s error to `httpError` without
   checking `job.Stdout.Used()`. Once output has gone out, the 404 or 500 is
   ignored, and the error is appended to the JSON stream as plain text. The spec
   says such an error is a structured error object.
4. **Copy swallows errors** (`copy_error_swallowed`, `server.go:1008`).
   `postContainersCopy` only logs a `container_copy` error, unless the error
   names a missing container or file. The client gets 200 and an empty or
   truncated tar.
5. **Create ignores a bad query** (`create_parse_error_swallowed`, `server.go:632`).
   `postContainersCreate` returns nil when `parseForm` fails. The client gets
   200 with an empty body, and no container is created.

## Proofs (`StartupProofs`)

- `TypeCorrect`: `Spec => []TypeOK` for every value of the constants.
- `GateSafety`: `Spec => []NoServeBeforeInstall`. It assumes
  `BufferRequests = TRUE`, which `mainDaemon` always sets.

Neither property is inductive alone. Three invariants strengthen them:

- `Bookkeeping` keeps the loop indices in range. It also says that every
  connection made is queued or accepted, that a listener about to send has a
  result, and that only tcp and unix listeners pass through the bind.
- `GateLock` says the daemon goroutine starts after `mainDaemon`'s first step, so
  the lock is nil until `ServeApi` and closed only after `Install`.
- `GateListen` says a listener past a successful bind is gated, and a serving
  listener is gated or sees the lock closed.

TLC checked `IInv == TInv /\ GateInv` as an invariant before the proof. The proof
has one lemma per action, with one step per part of the invariant.

The constant facts the proofs use come from the named assumption
`ConstantsAssumption`, through `ConstFacts` and `ProtosType`.

What stays with TLC:

- The liveness properties (`ServedOnceOpen`, `ReadyLeadsToGateOpen`): TLAPS does
  not check liveness under fairness.
- `UmaskRestored` with two unix sockets, where it fails (run `umask_race`).

## Proofs (`StartupListenerProofs`)

- `FanInSafety`: `Spec => []FanInFaithful`, for every address list, flag
  setting and connection bound. `ServeApi` returns an error if and only if
  some listener sent one.
- `UmaskSafety`: under the hypothesis `OneUnix` (at most one `unix://`
  address), `Spec => []UmaskRestored`. This is the default daemon: `main`
  adds one unix socket when no `-H` is given. With two unix sockets the
  property fails, and the run `umask_race` shows how. So the hypothesis is the
  boundary of the result, not a convenience.

Both proofs use `TInv` of `StartupProofs` and `Unspawned`: a listener the
main goroutine has not spawned yet is still idle. The lemma `ListenerFrame`
says a listener step touches only that listener's own state and the shared
channel state.

- **`FanInInv`** counts: every listener that has sent holds `ok` or `err`.
  While `ServeApi` is collecting, it also says:
  - the listeners that have sent (`Sent`) number `recvd` plus the length of
    the buffer `chErrors`;
  - an `err` among them that has not been received is still in the buffer;
  - every `err` in the buffer came from some listener.

  `SentFinite` bounds `Sent` by `NAddrs`, through `FS_Interval`. When the
  collector has received `NAddrs` results, every listener has sent, so no
  error can still be on its way.
- **`UmaskInv`** says three things:
  - the umask is `0777` only while some unix listener is inside its window;
  - only unix listeners pass through the mask steps;
  - a unix listener inside the window saved the original umask.

  With one unix address, that listener restores the value it saved. TLC
  checked `FanInInv`, `UmaskInv` and `Unspawned` on `MC_Startup` and
  `MC_StartupFd` before the proofs.

## Proofs (`StartupRefinement`)

- `GateRefinement`: `Spec => ImplementsGate` (that is, `GateAbs!Spec`), under `BufferRequests = TRUE`. It
  holds for every address list, every flag setting and every connection bound.

The proof follows the usual layout. It uses the invariant `IInv` of
`StartupProofs`:
- `Init` implies `IInv` and `GateAbs!Init`.
- `IInv` is preserved by every step.
- Under `IInv`, every step of `Next` maps to a step of the gate or to a
  stutter of it.

The step mapping has one lemma per group of actions:
- `MainStepMaps`, `DaemonStepMaps`, `AcceptMaps` and `ListenerStepMaps`.
- `Install` is `Ready`.
- Closing an open lock is `Open`.
- `Accept(a)` is `Handle` of `<<a, served[a] + 1>>`.
- A fatal exit is `End`.
- Every other step leaves the mapped state alone.

`IInv` supplies the facts the steps need:
- `GateLock`: the lock is nil until `ServeApi` runs, so the lock closes only
  after `Install`.
- `GateListen`: a serving listener has seen the closed lock.
- `Bookkeeping`: a queued connection is not yet accepted, and `served[a] + 1`
  stays within `MaxConns` (lemma `NextConn`).

## Proofs (`CliProofs`)

- `DaemonHostsSafety`: `Spec => []DaemonGetsHosts`, for every build, command
  line and environment. The inductive invariant `HostsInv` adds what holds
  before `mainDaemon` is called: `flHosts` is empty before `DefaultHost`, the
  `-H` list after it when one was given, else the unix socket or the validated
  `$DOCKER_HOST`, and the unix socket under `-d`.
- `ClientTransportSafety`: `Spec => []ClientTransport`. The inductive invariant
  `TransportInv` ties each value to the step that sets it. `certFlags` holds the
  defaults of the cert directory (`DefaultFiles`) after `FlagDefaultsInit`;
  `flTls` is `--tls` before the TLS steps and `--tls \/ --tlsverify` after
  them; `tlsConf` is the initial configuration until `TlsVerify`, and carries
  the CA and then the key pair after it. It also says `tlsConf` keeps its three
  fields (`ConfShaped`).

- `ReexecSafety`: `Spec => []ReexecExclusive`. The inductive invariant
  `ReexecInv` says:
  - nothing has run before `ReexecInit`;
  - once `main` goes past `ReexecInit` to flag parsing, `argv[0]` was not a
    registered name and no initializer has run.
- `CliTypeCorrect`: `Spec => []TypeOK`. The strengthening `TypeInv` adds the
  types of the command line and of the environment chosen in `Init`. The step
  proof has one case per action (`InitStepsType`, `MainStepsType`).

TLC checked every invariant on `MC_Cli` before the proofs. The proofs have one
lemma per action. `InputsStable` says the operators over the command line and
the environment do not change in a step that keeps both.

## Proofs (`ApiProofs`)

- `VersionGateSafety`: `Spec => []VersionGate`. It holds for every server
  version and for every set of request versions that `ApiAssumption` admits:
  at most three numbers, each below 100.

The argument has two parts.

1. **`VersionOrder`.** `GreaterThan(a, b)`, the code's `compareTo` (the least
   position where the versions differ decides), holds iff
   `RefValue(a) > RefValue(b)`. It rests on two lemmas:
   - `PartBounds`: every number of a version lies in 0..99, and is 0 past the
     third.
   - `CompareCases`: `compareTo` decides at the first of the three numbers that
     differ.
2. **`GateInv`.** `VersionGate` speaks only of finished requests, so it is not
   inductive. `GateInv` adds what holds on the way:
   - A routed request has a fresh response, no job run and no error.
   - A request that passed the gate is not newer than the server and never
     carries the version error.
   - A finished request carries that error exactly when it is newer. If it
     does, no job ran and its status is 404.

`HandlerStepFacts` shows that every handler ends the request or hands it to
`httpError`, and never with the version error. It has one lemma per shape of
handler (`Refuse`, `Unary`, `Streamed`, `UsedGuarded`, and so on). TLC checked
`GateInv` on `MC_Api` before the proof.

- `ListFormatSafety`: `Spec => []ListFormat`, for every server version and
  set of request versions.
  - `ListShape` adds that a listing request has an empty, fresh response until
    its handler runs.
  - A request handed to `httpError` holds in its body only what the job
    streamed: nothing below the cutover, the job's output from the cutover on.
  - `VersionOrderGe` (from `VersionCompare`) turns the handler's
    `GreaterThanOrEqualTo(v, 1.7)` into the numeric test the property states.
  - `ListHandlers` shows that only the two listing handlers serve those
    routes.
- `FramingSafety`: `Spec => []FramingConsistent`.
  - `FrameNoErr`: a logs or attach request that ran its output job never
    reaches `httpError`, which would append unframed text.
  - `OutStreamStep` shows that the output job writes only frames when
    `Framed`, and none otherwise.
  - `FramedRef` shows that `Framed` is the numeric 1.6 test.
- `FailureReportedSafety`: under the hypothesis
  `Handlers \subseteq ReportingHandlers`, `Spec => []FailureReported`.
  `ReportingHandlers` is the handler set of run `api_reporting`. Each of the
  other handlers fails the property, as the four violation runs show. The
  strengthening `ErrPending` covers a request handed to `httpError`: it has an
  error, and its response is either still fresh or a text stream. That is
  what makes `httpError`'s status or its trailing text reach the client.
  There is one lemma per shape of handler (`RefuseRep`, `JobRep`,
  `UsedGuardedRep`, `StartStopRep`, `OutStreamRep`) and one per route group
  (`HandlerRep`).
- `ApiTypeCorrect`: `Spec => []TypeOK`. `WT` adds that the response is a
  record, which `WriteHeader`'s `EXCEPT` needs to keep the body. There is one
  lemma per response helper (`PutT`, `WriteHeaderT`, `EmitT`) and one per
  shape of handler.

`ApiAssumption` gives these proofs three facts about the constants:
- the router has at least one route;
- `"ok"` and `"none"`, the model's encodings of a job's success and of a nil
  error, are not job error texts;
- versions have at most three numbers, each below 100.

TLC checked every strengthening on `MC_Api` (and `ListInv`, `FrameInv` and
`RepInv` also on `MC_ApiReport`) before the proofs. Every invariant of `Api`
is now proved. What stays with TLC for `Api` is the four violation runs.

## Not modelled

- `hijackServer`'s copy of the client's stdin into the attach job, and the
  close of the hijacked connection. They move bytes and change no state the
  properties tell apart. The response side of attach is in `Api`.
- `getVersion`, `getInfo` and `getImagesViz`, which delegate to
  `engine.ServeHTTP`, outside this source.
- Concurrent requests. Handlers share no state except through the engine's
  jobs, which are external here.
- `reexec.Self`, and what a registered initializer does. The model records
  only that it ran.
- `LoadConfigFile`, `isTerminal` and the streams of `NewDockerCli`; the
  commands' own bodies beyond their exit status. They are I/O.
- Version constants, the `Env`/`Table` codec and the shell scripts. They are
  build-time data and encoding with no state to check.

`PROJECT.json` lists every component and its status.
