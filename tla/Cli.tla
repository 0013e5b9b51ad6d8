-------------------------------- MODULE Cli --------------------------------
(***************************************************************************)
(* The docker binary from package initialisation to the hand-off (docker  *)
(* 1.2.0):                                                                 *)
(*   - the execution drivers' init functions call reexec.Register, which   *)
(*     panics on a name registered twice;                                  *)
(*   - package main's var initialiser and its two init functions          *)
(*     (docker/flags.go) fix dockerCertPath and the defaults of            *)
(*     --tlscacert, --tlscert and --tlskey;                                *)
(*   - main (docker/docker.go) runs a registered initializer and returns,  *)
(*     or parses the flags, shows the version, picks the default -H, hands *)
(*     the host list to mainDaemon, or builds the TLS configuration and    *)
(*     the DockerCli and dispatches the command (api/client/cli.go).       *)
(* Host addresses are abstracted to their scheme, command words to their  *)
(* name and letter case, files to their directory and name.               *)
(***************************************************************************)
EXTENDS Naturals, Sequences

CONSTANTS
  Builds,       \* the reexec names the imported packages register, in init order, per build
  DaemonBuilds, \* the builds made with -tags daemon (docker/daemon.go, else docker/client.go)
  Argv0s,       \* values of os.Args[0]
  HostLists,    \* the -H lists flag.Parse can accept (each validated by opts.ValidateHost)
  DockerHosts,  \* values of $DOCKER_HOST: Empty (unset), a scheme, or "bad" (invalid)
  ArgLists,     \* the non-flag arguments flag.Args()
  Commands,     \* the names n of the DockerCli methods "Cmd" + Title(n)
  FileSets      \* the sets of certificate files that may exist

\* The empty string "": what os.Getenv returns for an unset variable, a
\* path filepath.Join drops, a command word of no letters.
Empty == "empty"

\* The schemes opts.ValidateHost (api.ParseHost) accepts.
HostProtos == {"tcp", "unix", "fd"}

\* Directories: "env" is $DOCKER_CERT_PATH, "home" is $HOME/.docker, and
\* Empty is the working directory (filepath.Join("", f) = f).
CertDirs == {"env", "home", Empty}
CertNames == {"ca", "cert", "key"}
Files == CertDirs \X CertNames

\* A command word: its letters' names and whether it was typed upper-case.
Words == [name : Commands \cup {Empty, "other"}, upper : BOOLEAN]

ASSUME CliAssumption ==
  /\ Builds \subseteq Seq(Argv0s)
  /\ DaemonBuilds \subseteq Builds
  /\ HostLists \subseteq Seq(HostProtos)
  /\ DockerHosts \subseteq HostProtos \cup {Empty, "bad"}
  /\ ArgLists \subseteq Seq(Words)
  /\ FileSets \subseteq SUBSET Files

VARIABLES
  pc,        \* where the process is
  build,     \* the binary's registrations, in init order
  regIdx,    \* the next registration to run
  registry,  \* reexec.registeredInitializers: the names registered so far
  argv,      \* the command line: os.Args[0], the flags and the arguments
  env,       \* $DOCKER_HOST, whether $DOCKER_CERT_PATH is set, the files present
  certPath,  \* dockerCertPath
  certFlags, \* the values of --tlscacert, --tlscert, --tlskey (NoFile while nil)
  flTls,     \* *flTls, which main sets when --tlsverify is given or a key pair is found
  flHosts,   \* flHosts
  debugEnv,  \* $DEBUG was set to 1
  tlsConf,   \* main's tls.Config
  cli,       \* the DockerCli (made is FALSE before NewDockerCli)
  ran,       \* what ran: "initializer", "version", "daemon", "client", "command", "help"
  exit       \* how the process ended: "running", "ok", "usage", "panic", "fatal",
             \* "status" (os.Exit(sterr.StatusCode)) or "daemon" (mainDaemon runs on)

vars == <<pc, build, regIdx, registry, argv, env, certPath, certFlags, flTls,
          flHosts, debugEnv, tlsConf, cli, ran, exit>>

Pcs == {"register", "init1", "init2", "reexec", "parse", "flags",
        "hosts", "mode", "tlsVerify", "tlsCerts", "newCli", "cmd", "exited"}

\* A file as filepath.Join(dockerCertPath, name) names it.
CertFile(dir, name) == <<dir, name>>

\* No file: a nil *string flag, an empty RootCAs or Certificates.
NoFile == <<"none", "none">>
NoPair == <<NoFile, NoFile>>

\* The method getMethod finds for a command word: the first letter
\* upper-cased and the rest lower-cased, so the letter case never matters.
\* An empty word or an unknown name has none.
HasMethod(w) == w.name # Empty /\ w.name \in Commands

\* CanDaemon: the binary was built with -tags daemon (docker/daemon.go);
\* the client-only build's mainDaemon (docker/client.go) is log.Fatal.
CanDaemon == build \in DaemonBuilds

-----------------------------------------------------------------------------

Init ==
  /\ pc = "register"
  /\ build \in Builds
  /\ regIdx = 1
  /\ registry = {}
  /\ argv \in [argv0 : Argv0s, version : BOOLEAN, debug : BOOLEAN,
               daemon : BOOLEAN, tls : BOOLEAN, tlsverify : BOOLEAN,
               hosts : HostLists, args : ArgLists]
  /\ env \in [dockerHost : DockerHosts, certPathSet : BOOLEAN,
              present : FileSets, pairOk : BOOLEAN]
  /\ certPath = Empty
  /\ certFlags = [n \in CertNames |-> NoFile]
  /\ flTls = FALSE
  /\ flHosts = <<>>
  /\ debugEnv = FALSE
  /\ tlsConf = [verify |-> FALSE, rootCAs |-> NoFile, certs |-> NoPair]
  /\ cli = [made |-> FALSE, proto |-> "none", scheme |-> "none", tls |-> FALSE,
            verify |-> FALSE, rootCAs |-> NoFile, certs |-> NoPair]
  /\ ran = {}
  /\ exit = "running"

\* The process ends with how.
Exit(how) == pc' = "exited" /\ exit' = how

\* CmdHelp (api/client/commands.go): with a first argument naming a command
\* it runs that command's method with "--help", whose Subcmd usage exits 2;
\* otherwise it prints the help and returns nil.
HelpExit(rest) == IF rest # <<>> /\ HasMethod(rest[1]) THEN "usage" ELSE "ok"

\* How main ends after cli.Cmd returned r: nil returns, a StatusError
\* exits with its code, any other error is log.Fatal; a Subcmd usage
\* error has already exited with 2.
CmdExit == [nil |-> "ok", status |-> "status", err |-> "fatal", usage |-> "usage"]

-----------------------------------------------------------------------------
(* Package initialisation.                                                 *)

\* reexec.Register, called by an imported package's init.
Register ==
  /\ pc = "register"
  /\ regIdx <= Len(build)
  /\ \/ /\ build[regIdx] \notin registry
        /\ registry' = registry \cup {build[regIdx]}
        /\ regIdx' = regIdx + 1
        /\ UNCHANGED <<pc, exit>>
     \/ /\ build[regIdx] \in registry   \* "reexec func already registred"
        /\ Exit("panic")
        /\ UNCHANGED <<registry, regIdx>>
  /\ UNCHANGED <<build, argv, env, certPath, certFlags, flTls, flHosts,
                 debugEnv, tlsConf, cli, ran>>

\* Package main's var initialiser: dockerCertPath = os.Getenv("DOCKER_CERT_PATH"),
\* after every imported package is initialised.
CertPathVar ==
  /\ pc = "register"
  /\ regIdx > Len(build)
  /\ certPath' = IF env.certPathSet THEN "env" ELSE Empty
  /\ pc' = "init1"
  /\ UNCHANGED <<build, regIdx, registry, argv, env, certFlags, flTls, flHosts,
                 debugEnv, tlsConf, cli, ran, exit>>

\* Mutant: the first init runs after the second (or is dropped): the
\* defaults are joined to an empty dockerCertPath.
CertPathInitDropped ==
  /\ pc = "init1"
  /\ pc' = "init2"
  /\ UNCHANGED <<build, regIdx, registry, argv, env, certPath, certFlags, flTls,
                 flHosts, debugEnv, tlsConf, cli, ran, exit>>

\* The first init of flags.go: an unset path becomes $HOME/.docker.
CertPathInit ==
  /\ pc = "init1"
  /\ certPath' = IF certPath = Empty THEN "home" ELSE certPath
  /\ pc' = "init2"
  /\ UNCHANGED <<build, regIdx, registry, argv, env, certFlags, flTls, flHosts,
                 debugEnv, tlsConf, cli, ran, exit>>

\* The second init of flags.go: the defaults of --tlscacert, --tlscert and
\* --tlskey are joined to dockerCertPath, and -H is declared.
FlagDefaultsInit ==
  /\ pc = "init2"
  /\ certFlags' = [n \in CertNames |-> CertFile(certPath, n)]
  /\ pc' = "reexec"
  /\ UNCHANGED <<build, regIdx, registry, argv, env, certPath, flTls, flHosts,
                 debugEnv, tlsConf, cli, ran, exit>>

-----------------------------------------------------------------------------
(* main.                                                                   *)

\* Mutant: main goes on after the initializer has run.
ReexecInitNoReturn ==
  /\ pc = "reexec"
  /\ ran' = IF argv.argv0 \in registry THEN {"initializer"} ELSE ran
  /\ pc' = "parse"
  /\ UNCHANGED <<build, regIdx, registry, argv, env, certPath, certFlags, flTls,
                 flHosts, debugEnv, tlsConf, cli, exit>>

\* reexec.Init: the initializer registered under os.Args[0] runs and main
\* returns.
ReexecInit ==
  /\ pc = "reexec"
  /\ \/ /\ argv.argv0 \in registry
        /\ ran' = {"initializer"}
        /\ Exit("ok")
     \/ /\ argv.argv0 \notin registry
        /\ pc' = "parse"
        /\ UNCHANGED <<ran, exit>>
  /\ UNCHANGED <<build, regIdx, registry, argv, env, certPath, certFlags, flTls,
                 flHosts, debugEnv, tlsConf, cli>>

\* flag.Parse: the flags take the command line's values; a flag mflag
\* refuses (a bad -H included) prints the usage and exits 2.
Parse ==
  /\ pc = "parse"
  /\ \/ /\ flTls' = argv.tls
        /\ flHosts' = argv.hosts
        /\ pc' = "flags"
        /\ UNCHANGED exit
     \/ /\ Exit("usage")
        /\ UNCHANGED <<flTls, flHosts>>
  /\ UNCHANGED <<build, regIdx, registry, argv, env, certPath, certFlags,
                 debugEnv, tlsConf, cli, ran>>

\* -v shows the version and returns; -D sets DEBUG=1.
Flags ==
  /\ pc = "flags"
  /\ \/ /\ argv.version
        /\ ran' = {"version"}
        /\ Exit("ok")
        /\ UNCHANGED debugEnv
     \/ /\ ~argv.version
        /\ debugEnv' = argv.debug
        /\ pc' = "hosts"
        /\ UNCHANGED <<ran, exit>>
  /\ UNCHANGED <<build, regIdx, registry, argv, env, certPath, certFlags, flTls,
                 flHosts, tlsConf, cli>>

\* Mutant: $DOCKER_HOST is appended without api.ValidateHost.
DefaultHostUnvalidated ==
  /\ pc = "hosts"
  /\ LET h == IF env.dockerHost = Empty \/ argv.daemon THEN "unix" ELSE env.dockerHost
     IN  flHosts' = IF flHosts = <<>> THEN Append(flHosts, h) ELSE flHosts
  /\ pc' = "mode"
  /\ UNCHANGED <<build, regIdx, registry, argv, env, certPath, certFlags, flTls,
                 debugEnv, tlsConf, cli, ran, exit>>

\* Mutant: the daemon, too, takes $DOCKER_HOST (no "|| *flDaemon").
DefaultHostIgnoringDaemon ==
  /\ pc = "hosts"
  /\ LET h == IF env.dockerHost = Empty THEN "unix" ELSE env.dockerHost
     IN  \/ /\ flHosts # <<>>
            /\ pc' = "mode"
            /\ UNCHANGED <<flHosts, exit>>
         \/ /\ flHosts = <<>> /\ h \in HostProtos
            /\ flHosts' = Append(flHosts, h)
            /\ pc' = "mode"
            /\ UNCHANGED exit
         \/ /\ flHosts = <<>> /\ h \notin HostProtos
            /\ Exit("fatal")
            /\ UNCHANGED flHosts
  /\ UNCHANGED <<build, regIdx, registry, argv, env, certPath, certFlags, flTls,
                 debugEnv, tlsConf, cli, ran>>

\* Without -H: $DOCKER_HOST, or the unix socket when it is unset or in
\* daemon mode, validated (log.Fatal) and appended to flHosts.
DefaultHost ==
  /\ pc = "hosts"
  /\ LET h == IF env.dockerHost = Empty \/ argv.daemon THEN "unix" ELSE env.dockerHost
     IN  \/ /\ flHosts # <<>>
            /\ pc' = "mode"
            /\ UNCHANGED <<flHosts, exit>>
         \/ /\ flHosts = <<>> /\ h \in HostProtos
            /\ flHosts' = Append(flHosts, h)
            /\ pc' = "mode"
            /\ UNCHANGED exit
         \/ /\ flHosts = <<>> /\ h \notin HostProtos
            /\ Exit("fatal")
            /\ UNCHANGED flHosts
  /\ UNCHANGED <<build, regIdx, registry, argv, env, certPath, certFlags, flTls,
                 debugEnv, tlsConf, cli, ran>>

\* -d calls mainDaemon: the client-only build (client.go) is fatal, extra
\* arguments print the usage and return, otherwise the daemon runs on.
\* A client with more than one -H is fatal.
Mode ==
  /\ pc = "mode"
  /\ \/ /\ argv.daemon /\ ~CanDaemon
        /\ Exit("fatal")
        /\ UNCHANGED ran
     \/ /\ argv.daemon /\ CanDaemon /\ argv.args # <<>>
        /\ Exit("ok")
        /\ UNCHANGED ran
     \/ /\ argv.daemon /\ CanDaemon /\ argv.args = <<>>
        /\ ran' = {"daemon"}
        /\ Exit("daemon")
     \/ /\ ~argv.daemon /\ Len(flHosts) > 1   \* "Please specify only one -H"
        /\ Exit("fatal")
        /\ UNCHANGED ran
     \/ /\ ~argv.daemon /\ Len(flHosts) = 1
        /\ pc' = "tlsVerify"
        /\ UNCHANGED <<ran, exit>>
  /\ UNCHANGED <<build, regIdx, registry, argv, env, certPath, certFlags, flTls,
                 flHosts, debugEnv, tlsConf, cli>>


\* Mutant: the CA is loaded but InsecureSkipVerify stays true.
TlsVerifyInsecure ==
  /\ pc = "tlsVerify"
  /\ \/ /\ ~argv.tlsverify
        /\ pc' = "tlsCerts"
        /\ UNCHANGED <<flTls, tlsConf, exit>>
     \/ /\ argv.tlsverify
        /\ flTls' = TRUE
        /\ \/ /\ certFlags["ca"] \in env.present
              /\ tlsConf' = [tlsConf EXCEPT !.rootCAs = certFlags["ca"]]
              /\ pc' = "tlsCerts"
              /\ UNCHANGED exit
           \/ /\ certFlags["ca"] \notin env.present
              /\ Exit("fatal")
              /\ UNCHANGED tlsConf
  /\ UNCHANGED <<build, regIdx, registry, argv, env, certPath, certFlags,
                 flHosts, debugEnv, cli, ran>>

\* --tlsverify: *flTls = true and the CA file is read (log.Fatalf when it
\* cannot be) into RootCAs, with InsecureSkipVerify = false.  main set
\* InsecureSkipVerify = true before (tlsConf's verify is FALSE in Init).
TlsVerify ==
  /\ pc = "tlsVerify"
  /\ \/ /\ ~argv.tlsverify
        /\ pc' = "tlsCerts"
        /\ UNCHANGED <<flTls, tlsConf, exit>>
     \/ /\ argv.tlsverify
        /\ flTls' = TRUE
        /\ \/ /\ certFlags["ca"] \in env.present
              /\ tlsConf' = [tlsConf EXCEPT !.rootCAs = certFlags["ca"], !.verify = TRUE]
              /\ pc' = "tlsCerts"
              /\ UNCHANGED exit
           \/ /\ certFlags["ca"] \notin env.present
              /\ Exit("fatal")
              /\ UNCHANGED tlsConf
  /\ UNCHANGED <<build, regIdx, registry, argv, env, certPath, certFlags,
                 flHosts, debugEnv, cli, ran>>

\* With --tls or --tlsverify, a client key pair is loaded when both files
\* exist (os.Stat); tls.LoadX509KeyPair failing is fatal.
TlsCerts ==
  /\ pc = "tlsCerts"
  /\ LET pair == <<certFlags["cert"], certFlags["key"]>>
         found == (flTls \/ argv.tlsverify) /\ {pair[1], pair[2]} \subseteq env.present
     IN  \/ /\ ~found
            /\ pc' = "newCli"
            /\ UNCHANGED <<flTls, tlsConf, exit>>
         \/ /\ found /\ env.pairOk
            /\ flTls' = TRUE
            /\ tlsConf' = [tlsConf EXCEPT !.certs = pair]
            /\ pc' = "newCli"
            /\ UNCHANGED exit
         \/ /\ found /\ ~env.pairOk    \* "Couldn't load X509 key pair"
            /\ flTls' = TRUE
            /\ Exit("fatal")
            /\ UNCHANGED tlsConf
  /\ UNCHANGED <<build, regIdx, registry, argv, env, certPath, certFlags,
                 flHosts, debugEnv, cli, ran>>

\* client.NewDockerCli with the scheme of flHosts[0] and &tlsConfig when
\* --tls or --tlsverify is on, else nil; the scheme is https iff the
\* configuration is not nil.
NewCli ==
  /\ pc = "newCli"
  /\ LET on == flTls \/ argv.tlsverify
         conf == IF on THEN tlsConf
                 ELSE [verify |-> FALSE, rootCAs |-> NoFile, certs |-> NoPair]
     IN  cli' = [made |-> TRUE, proto |-> flHosts[1], tls |-> on,
                 scheme |-> IF on THEN "https" ELSE "http",
                 verify |-> conf.verify, rootCAs |-> conf.rootCAs, certs |-> conf.certs]
  /\ ran' = ran \cup {"client"}
  /\ pc' = "cmd"
  /\ UNCHANGED <<build, regIdx, registry, argv, env, certPath, certFlags, flTls,
                 flHosts, debugEnv, tlsConf, exit>>

\* cli.Cmd(flag.Args()...): the method getMethod finds for the first word
\* runs on the rest and returns nil, a StatusError or another error, or
\* exits 2 from its Subcmd usage; an unknown word ("Error: Command not
\* found") and no word at all run CmdHelp.  main then ends by CmdExit.
Cmd ==
  /\ pc = "cmd"
  /\ LET args == argv.args
     IN  \/ /\ args # <<>> /\ HasMethod(args[1])
            /\ ran' = ran \cup {"command"}
            /\ \E r \in DOMAIN CmdExit : Exit(CmdExit[r])
         \/ /\ args # <<>> /\ ~HasMethod(args[1])
            /\ ran' = ran \cup {"help"}
            /\ Exit(HelpExit(Tail(args)))
         \/ /\ args = <<>>
            /\ ran' = ran \cup {"help"}
            /\ Exit(HelpExit(args))
  /\ UNCHANGED <<build, regIdx, registry, argv, env, certPath, certFlags, flTls,
                 flHosts, debugEnv, tlsConf, cli>>

\* The process has ended (or mainDaemon has taken over).
Terminated ==
  /\ pc = "exited"
  /\ UNCHANGED vars

Next ==
  \/ Register \/ CertPathVar \/ CertPathInit \/ FlagDefaultsInit
  \/ ReexecInit \/ Parse \/ Flags \/ DefaultHost \/ Mode
  \/ TlsVerify \/ TlsCerts \/ NewCli \/ Cmd \/ Terminated

\* One goroutine: it runs to its end.
Spec == Init /\ [][Next]_vars /\ WF_vars(Next)

-----------------------------------------------------------------------------
(* Properties.                                                             *)

TypeOK ==
  /\ pc \in Pcs
  /\ build \in Builds
  /\ regIdx \in 1 .. Len(build) + 1
  /\ registry \subseteq Argv0s
  /\ certPath \in CertDirs
  /\ certFlags \in [CertNames -> Files \cup {NoFile}]
  /\ flTls \in BOOLEAN /\ debugEnv \in BOOLEAN
  /\ flHosts \in Seq(HostProtos)
  /\ tlsConf \in [verify : BOOLEAN, rootCAs : Files \cup {NoFile},
                  certs : (Files \X Files) \cup {NoPair}]
  /\ cli.made \in BOOLEAN
  /\ ran \subseteq {"initializer", "version", "daemon", "client", "command", "help"}
  /\ exit \in {"running", "ok", "usage", "panic", "fatal", "status", "daemon"}

\* The directory the flags' help promises for the TLS files:
\* $DOCKER_CERT_PATH, else $HOME/.docker.
CertHome == IF env.certPathSet THEN "env" ELSE "home"

\* main hands mainDaemon (and so ServeApi) a non-empty list of valid -H
\* addresses and no stray argument; without -H it is the unix socket,
\* whatever $DOCKER_HOST says.  This is Startup's ConstantsAssumption.
DaemonGetsHosts ==
  "daemon" \in ran =>
    /\ flHosts \in Seq(HostProtos) /\ Len(flHosts) > 0
    /\ argv.hosts = <<>> => flHosts = <<"unix">>
    /\ argv.args = <<>>

\* The DockerCli talks to the one host given by -H, else $DOCKER_HOST, else
\* the unix socket; over https exactly when --tls or --tlsverify is given;
\* it verifies the daemon exactly under --tlsverify, then against the CA
\* in the cert directory; it sends the key pair of the cert directory
\* exactly when both files exist there.
ClientTransport ==
  cli.made =>
    /\ Len(flHosts) = 1
    /\ cli.proto = IF argv.hosts # <<>> THEN argv.hosts[1]
                   ELSE IF env.dockerHost = Empty THEN "unix" ELSE env.dockerHost
    /\ (cli.scheme = "https") = (argv.tls \/ argv.tlsverify)
    /\ cli.scheme = "https" =>
         /\ cli.verify = argv.tlsverify
         /\ cli.verify => cli.rootCAs = CertFile(CertHome, "ca")
         /\ cli.certs =
              IF {CertFile(CertHome, "cert"), CertFile(CertHome, "key")} \subseteq env.present
              THEN <<CertFile(CertHome, "cert"), CertFile(CertHome, "key")>>
              ELSE NoPair

\* A binary started under a registered reexec name runs that initializer
\* and nothing else; under any other name no initializer runs.
ReexecExclusive ==
  /\ "initializer" \in ran => ran = {"initializer"} /\ argv.argv0 \in registry
  /\ ran \ {"initializer"} # {} => "initializer" \notin ran /\ argv.argv0 \notin registry

=============================================================================
