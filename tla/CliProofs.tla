----------------------------- MODULE CliProofs -----------------------------
(***************************************************************************)
(* Proofs about the docker binary's main (module Cli), for every build,     *)
(* command line and environment:                                           *)
(* - main hands mainDaemon a non-empty list of valid -H addresses, the      *)
(*   constant assumption of Startup about the serveapi job;                *)
(* - a client is built with the transport the flags ask for;               *)
(* - a reexec initializer and flag parsing exclude each other;             *)
(* - the state stays well typed.                                           *)
(***************************************************************************)
EXTENDS Cli, TLAPS

\* The command lines Init chooses from.
ArgvType ==
  [argv0 : Argv0s, version : BOOLEAN, debug : BOOLEAN, daemon : BOOLEAN,
   tls : BOOLEAN, tlsverify : BOOLEAN, hosts : HostLists, args : ArgLists]

\* What flHosts holds on the way to the hand-off: the -H list from Parse
\* on, with the default appended once DefaultHost has run; "daemon" is in
\* ran only once main has handed over.
HostsInv ==
  /\ argv \in ArgvType
  /\ flHosts \in Seq(HostProtos)
  /\ pc \in {"flags", "hosts"} => flHosts = argv.hosts
  /\ pc = "mode" => /\ Len(flHosts) > 0
                    /\ argv.hosts = <<>> /\ argv.daemon => flHosts = <<"unix">>
                    /\ argv.hosts # <<>> => flHosts = argv.hosts
  /\ "daemon" \in ran => pc = "exited"
  /\ DaemonGetsHosts

\* The -H lists and the command lines are what CliAssumption admits.
LEMMA HostListsType == HostLists \subseteq Seq(HostProtos)
BY CliAssumption

LEMMA InitHostsInv == ASSUME Init PROVE HostsInv
<1>1. argv \in ArgvType
  BY DEF Init, ArgvType
<1>2. flHosts = <<>> /\ pc = "register" /\ ran = {}
  BY DEF Init
<1>3. <<>> \in Seq(HostProtos)
  OBVIOUS
<1> QED
  BY <1>1, <1>2, <1>3 DEF HostsInv, DaemonGetsHosts

\* The steps that leave flHosts and argv alone and end neither in flags,
\* hosts nor mode, nor add "daemon" to ran.
LEMMA QuietStep ==
  ASSUME HostsInv, pc' \notin {"flags", "hosts", "mode"},
         UNCHANGED <<argv, flHosts>>,
         "daemon" \in ran' => "daemon" \in ran,
         "daemon" \in ran => UNCHANGED <<pc, ran>>
  PROVE  HostsInv'
BY DEF HostsInv, DaemonGetsHosts

LEMMA ParseStep == ASSUME HostsInv, Parse PROVE HostsInv'
<1>1. argv.hosts \in Seq(HostProtos)
  BY HostListsType DEF HostsInv, ArgvType
<1>2. "daemon" \notin ran
  BY DEF Parse, HostsInv
<1> QED
  BY <1>1, <1>2 DEF Parse, Exit, HostsInv, DaemonGetsHosts

LEMMA FlagsStep == ASSUME HostsInv, Flags PROVE HostsInv'
<1>1. "daemon" \notin ran
  BY DEF Flags, HostsInv
<1> QED
  BY <1>1 DEF Flags, Exit, HostsInv, DaemonGetsHosts

\* DefaultHost: the unix socket in daemon mode, $DOCKER_HOST otherwise.
LEMMA DefaultHostStep == ASSUME HostsInv, DefaultHost PROVE HostsInv'
<1>1. "daemon" \notin ran /\ flHosts = argv.hosts
  BY DEF DefaultHost, HostsInv
<1> DEFINE h == IF env.dockerHost = Empty \/ argv.daemon THEN "unix" ELSE env.dockerHost
<1>3. CASE flHosts # <<>>
  BY <1>1, <1>3 DEF DefaultHost, Exit, HostsInv, DaemonGetsHosts
<1>4. CASE flHosts = <<>> /\ h \in HostProtos
  <2>1. flHosts' = <<h>> /\ pc' = "mode" /\ UNCHANGED <<argv, ran>>
    BY <1>4 DEF DefaultHost
  <2>2. argv.daemon => h = "unix"
    OBVIOUS
  <2>3. <<h>> \in Seq(HostProtos) /\ Len(<<h>>) > 0
    BY <1>4
  <2>4. argv.hosts = <<>> /\ pc' # "exited" /\ "daemon" \notin ran'
    BY <1>1, <1>4, <2>1
  <2>5. argv' \in ArgvType
    BY <2>1 DEF HostsInv
  <2> QED
    BY <2>1, <2>2, <2>3, <2>4, <2>5 DEF HostsInv, DaemonGetsHosts
<1>5. CASE flHosts = <<>> /\ h \notin HostProtos
  BY <1>1, <1>5 DEF DefaultHost, Exit, HostsInv, DaemonGetsHosts
<1> QED
  BY <1>3, <1>4, <1>5

\* Mode: the hand-off to mainDaemon happens with the list DefaultHost left.
LEMMA ModeStep == ASSUME HostsInv, Mode PROVE HostsInv'
<1>1. pc = "mode" /\ "daemon" \notin ran
  BY DEF Mode, HostsInv
<1>2. UNCHANGED <<argv, flHosts>> /\ pc' \notin {"flags", "hosts", "mode"}
  BY DEF Mode, Exit
<1>3. "daemon" \in ran' => /\ pc' = "exited" /\ argv.daemon /\ argv.args = <<>>
  BY <1>1 DEF Mode, Exit
<1> QED
  BY <1>1, <1>2, <1>3 DEF HostsInv, DaemonGetsHosts

LEMMA NextHostsInv == ASSUME HostsInv, [Next]_vars PROVE HostsInv'
<1>1. CASE Register
  BY <1>1, QuietStep DEF Register, Exit, HostsInv
<1>2. CASE CertPathVar \/ CertPathInit \/ FlagDefaultsInit
  BY <1>2, QuietStep DEF CertPathVar, CertPathInit, FlagDefaultsInit, HostsInv
<1>3. CASE ReexecInit
  BY <1>3, QuietStep DEF ReexecInit, Exit, HostsInv
<1>4. CASE Parse
  BY <1>4, ParseStep
<1>5. CASE Flags
  BY <1>5, FlagsStep
<1>6. CASE DefaultHost
  BY <1>6, DefaultHostStep
<1>7. CASE Mode
  BY <1>7, ModeStep
<1>8. CASE TlsVerify \/ TlsCerts \/ NewCli
  BY <1>8, QuietStep DEF TlsVerify, TlsCerts, NewCli, Exit, HostsInv
<1>9. CASE Cmd
  BY <1>9, QuietStep DEF Cmd, Exit, HostsInv
<1>10. CASE Terminated \/ UNCHANGED vars
  BY <1>10 DEF Terminated, vars, HostsInv, DaemonGetsHosts
<1> QED
  BY <1>1, <1>2, <1>3, <1>4, <1>5, <1>6, <1>7, <1>8, <1>9, <1>10 DEF Next

\* Whatever the build, the command line and the environment, when main
\* calls mainDaemon and the daemon runs on, flHosts is a non-empty list of
\* valid addresses (the unix socket when no -H was given, $DOCKER_HOST
\* notwithstanding) and no argument is left: Startup's ConstantsAssumption
\* holds of the serveapi job main builds.
THEOREM DaemonHostsSafety == Spec => []DaemonGetsHosts
<1>1. Init => HostsInv
  BY InitHostsInv
<1>2. HostsInv /\ [Next]_vars => HostsInv'
  BY NextHostsInv
<1>3. HostsInv => DaemonGetsHosts
  BY DEF HostsInv
<1> QED
  BY <1>1, <1>2, <1>3, PTL DEF Spec

-----------------------------------------------------------------------------
(* The client's transport.                                                 *)

\* The environments Init chooses from.
EnvType ==
  [dockerHost : DockerHosts, certPathSet : BOOLEAN, present : FileSets, pairOk : BOOLEAN]

\* tls.Config keeps its three fields under main's assignments.
ConfShaped(c) == DOMAIN c = {"verify", "rootCAs", "certs"}

\* tls.Config as main declares it: InsecureSkipVerify, no CA, no certificate.
InitConf == [verify |-> FALSE, rootCAs |-> NoFile, certs |-> NoPair]

\* The flag defaults once flags.go's init functions have run.
DefaultFiles == [n \in CertNames |-> CertFile(CertHome, n)]

\* flHosts once DefaultHost has run.
ModeHosts ==
  IF argv.hosts # <<>> THEN argv.hosts
  ELSE <<IF env.dockerHost = Empty \/ argv.daemon THEN "unix" ELSE env.dockerHost>>

\* The key pair main loads: both files of the cert directory, with --tls
\* or --tlsverify.
FoundPair ==
  /\ argv.tls \/ argv.tlsverify
  /\ {CertFile(CertHome, "cert"), CertFile(CertHome, "key")} \subseteq env.present

AfterInit == {"reexec", "parse", "flags", "hosts", "mode", "tlsVerify",
              "tlsCerts", "newCli", "cmd"}

\* What the state holds on the way to NewDockerCli: the flag defaults, then
\* flTls, flHosts and tlsConfig step by step as main sets them.
TransportInv ==
  /\ argv \in ArgvType /\ env \in EnvType
  /\ ConfShaped(tlsConf)
  /\ pc = "init1" => certPath = IF env.certPathSet THEN "env" ELSE Empty
  /\ pc = "init2" => certPath = CertHome
  /\ pc \in AfterInit => certFlags = DefaultFiles
  /\ pc \in {"flags", "hosts", "mode", "tlsVerify"} => flTls = argv.tls
  /\ pc \in {"tlsCerts", "newCli"} => flTls = (argv.tls \/ argv.tlsverify)
  /\ pc \in {"flags", "hosts"} => flHosts = argv.hosts
  /\ pc = "mode" => flHosts = ModeHosts
  /\ pc \in {"tlsVerify", "tlsCerts", "newCli"} =>
       flHosts = ModeHosts /\ Len(flHosts) = 1 /\ ~argv.daemon
  /\ pc \notin {"tlsCerts", "newCli", "cmd", "exited"} => tlsConf = InitConf
  /\ pc \in {"tlsCerts", "newCli"} =>
       /\ tlsConf.verify = argv.tlsverify
       /\ tlsConf.verify => tlsConf.rootCAs = CertFile(CertHome, "ca")
  /\ pc = "tlsCerts" => tlsConf.certs = NoPair
  /\ pc = "newCli" => tlsConf.certs = IF FoundPair THEN <<CertFile(CertHome, "cert"), CertFile(CertHome, "key")>> ELSE NoPair
  /\ cli.made => pc \in {"cmd", "exited"}
  /\ ClientTransport

\* The operators of the command line and the environment keep their value
\* in a step that keeps both.
LEMMA InputsStable ==
  ASSUME UNCHANGED <<argv, env>>
  PROVE  /\ CertHome' = CertHome /\ DefaultFiles' = DefaultFiles
         /\ ModeHosts' = ModeHosts /\ FoundPair' = FoundPair
         /\ (argv \in ArgvType /\ env \in EnvType) = (argv' \in ArgvType /\ env' \in EnvType)
BY DEF CertHome, DefaultFiles, ModeHosts, FoundPair

\* A step that keeps the DockerCli, the command line, the environment and
\* flHosts keeps ClientTransport.
LEMMA TransportKept ==
  ASSUME ClientTransport, UNCHANGED <<cli, argv, env, flHosts>>
  PROVE  ClientTransport'
BY DEF ClientTransport, CertHome

LEMMA InitTransport == ASSUME Init PROVE TransportInv
<1>1. argv \in ArgvType /\ env \in EnvType
  BY DEF Init, ArgvType, EnvType
<1>2. pc = "register" /\ tlsConf = InitConf /\ ~cli.made
  BY DEF Init, InitConf
<1>3. ConfShaped(tlsConf)
  BY <1>2 DEF InitConf, ConfShaped
<1> QED
  BY <1>1, <1>2, <1>3 DEF TransportInv, AfterInit, ClientTransport

\* Before main: the registrations and flags.go's initialisers.
LEMMA RegisterTransport == ASSUME TransportInv, Register PROVE TransportInv'
<1>1. pc' \in {"register", "exited"} /\ UNCHANGED <<argv, env, tlsConf, cli>>
  BY DEF Register, Exit
<1>2. pc = "register" /\ ~cli.made
  BY DEF Register, TransportInv
<1> QED
  BY InputsStable, <1>1, <1>2 DEF TransportInv, AfterInit, ClientTransport

LEMMA InitFnTransport ==
  ASSUME TransportInv, CertPathVar \/ CertPathInit \/ FlagDefaultsInit
  PROVE  TransportInv'
<1>1. UNCHANGED <<argv, env, tlsConf, cli>>
  BY DEF CertPathVar, CertPathInit, FlagDefaultsInit
<1>2. ~cli.made /\ tlsConf = InitConf
  BY DEF CertPathVar, CertPathInit, FlagDefaultsInit, TransportInv, AfterInit
<1>3. CASE CertPathVar
  BY InputsStable, <1>1, <1>2, <1>3 DEF CertPathVar, TransportInv, AfterInit, ClientTransport
<1>4. CASE CertPathInit
  <2>1. certPath' = CertHome /\ pc' = "init2"
    BY <1>4 DEF CertPathInit, TransportInv, CertHome, Empty
  <2> QED
    BY InputsStable, <1>1, <1>2, <1>4, <2>1 DEF CertPathInit, TransportInv, AfterInit,
                                               ClientTransport
<1>5. CASE FlagDefaultsInit
  BY InputsStable, <1>1, <1>2, <1>5 DEF FlagDefaultsInit, TransportInv, AfterInit, ClientTransport,
                         DefaultFiles
<1> QED
  BY InputsStable, <1>3, <1>4, <1>5

\* main up to the hand-off: reexec.Init, flag.Parse, -v and -D, the
\* default -H, the daemon/client split.
LEMMA ReexecTransport == ASSUME TransportInv, ReexecInit PROVE TransportInv'
<1>1. pc = "reexec" /\ ~cli.made /\ tlsConf = InitConf
  BY DEF ReexecInit, TransportInv, AfterInit
<1>2. pc' \in {"parse", "exited"} /\ UNCHANGED <<argv, env, certFlags, tlsConf, cli>>
  BY DEF ReexecInit, Exit
<1> QED
  BY InputsStable, <1>1, <1>2 DEF TransportInv, AfterInit, ClientTransport

LEMMA ParseTransport == ASSUME TransportInv, Parse PROVE TransportInv'
<1>1. pc = "parse" /\ ~cli.made /\ tlsConf = InitConf
  BY DEF Parse, TransportInv, AfterInit
<1>2. UNCHANGED <<argv, env, certFlags, tlsConf, cli>>
  BY DEF Parse
<1>3. pc' = "flags" => flTls' = argv.tls /\ flHosts' = argv.hosts
  BY DEF Parse, Exit
<1>4. pc' \in {"flags", "exited"}
  BY DEF Parse, Exit
<1> QED
  BY InputsStable, <1>1, <1>2, <1>3, <1>4 DEF TransportInv, AfterInit, ClientTransport

LEMMA FlagsTransport == ASSUME TransportInv, Flags PROVE TransportInv'
<1>1. pc = "flags" /\ ~cli.made /\ tlsConf = InitConf
  BY DEF Flags, TransportInv, AfterInit
<1>2. UNCHANGED <<argv, env, certFlags, tlsConf, cli, flTls, flHosts>>
  BY DEF Flags
<1>3. pc' \in {"hosts", "exited"}
  BY DEF Flags, Exit
<1> QED
  BY InputsStable, <1>1, <1>2, <1>3 DEF TransportInv, AfterInit, ClientTransport

LEMMA DefaultHostTransport == ASSUME TransportInv, DefaultHost PROVE TransportInv'
<1>1. pc = "hosts" /\ ~cli.made /\ tlsConf = InitConf /\ flHosts = argv.hosts
  BY DEF DefaultHost, TransportInv, AfterInit
<1>2. UNCHANGED <<argv, env, certFlags, tlsConf, cli, flTls>>
  BY DEF DefaultHost
<1>3. pc' \in {"mode", "exited"}
  BY DEF DefaultHost, Exit
<1>4. pc' = "mode" => flHosts' = ModeHosts
  <2> DEFINE h == IF env.dockerHost = Empty \/ argv.daemon THEN "unix" ELSE env.dockerHost
  <2>1. CASE flHosts # <<>>
    BY <1>1, <2>1 DEF DefaultHost, Exit, ModeHosts
  <2>2. CASE flHosts = <<>>
    <3>1. pc' = "mode" => flHosts' = <<h>>
      BY <2>2 DEF DefaultHost, Exit
    <3> QED
      BY <1>1, <2>2, <3>1 DEF ModeHosts
  <2> QED
    BY <2>1, <2>2
<1> QED
  BY InputsStable, <1>1, <1>2, <1>3, <1>4 DEF TransportInv, AfterInit, ClientTransport, ModeHosts

LEMMA ModeTransport == ASSUME TransportInv, Mode PROVE TransportInv'
<1>1. pc = "mode" /\ ~cli.made /\ tlsConf = InitConf /\ flHosts = ModeHosts
  BY DEF Mode, TransportInv, AfterInit
<1>2. UNCHANGED <<argv, env, certFlags, tlsConf, cli, flTls, flHosts>>
  BY DEF Mode
<1>3. pc' \in {"tlsVerify", "exited"}
  BY DEF Mode, Exit
<1>4. pc' = "tlsVerify" => Len(flHosts) = 1 /\ ~argv.daemon
  BY DEF Mode, Exit
<1> QED
  BY InputsStable, <1>1, <1>2, <1>3, <1>4 DEF TransportInv, AfterInit, ClientTransport, ModeHosts

\* The TLS set-up: --tlsverify's CA, the key pair, NewDockerCli.
LEMMA TlsVerifyTransport == ASSUME TransportInv, TlsVerify PROVE TransportInv'
<1>1. pc = "tlsVerify" /\ ~cli.made /\ tlsConf = InitConf /\ flTls = argv.tls
      /\ certFlags = DefaultFiles
  BY DEF TlsVerify, TransportInv, AfterInit
<1>2. UNCHANGED <<argv, env, certFlags, cli, flHosts>>
  BY DEF TlsVerify
<1>3. pc' \in {"tlsCerts", "exited"}
  BY DEF TlsVerify, Exit
<1>4. pc' = "tlsCerts" =>
        /\ flTls' = (argv.tls \/ argv.tlsverify)
        /\ tlsConf'.verify = argv.tlsverify
        /\ tlsConf'.verify => tlsConf'.rootCAs = CertFile(CertHome, "ca")
        /\ tlsConf'.certs = NoPair
  <2>1. certFlags["ca"] = CertFile(CertHome, "ca")
    BY <1>1 DEF DefaultFiles, CertNames
  <2>2. CASE ~argv.tlsverify
    <3>1. pc' = "tlsCerts" /\ UNCHANGED <<flTls, tlsConf>>
      BY <2>2 DEF TlsVerify, Exit
    <3>2. argv.tls \in BOOLEAN /\ argv.tlsverify \in BOOLEAN
      BY DEF TransportInv, ArgvType
    <3> QED
      BY <1>1, <2>2, <3>1, <3>2 DEF InitConf
  <2>3. CASE argv.tlsverify /\ certFlags["ca"] \in env.present
    <3>1. pc' = "tlsCerts" /\ flTls' = TRUE
          /\ tlsConf' = [tlsConf EXCEPT !.rootCAs = certFlags["ca"], !.verify = TRUE]
      BY <2>3 DEF TlsVerify, Exit
    <3> QED
      BY <1>1, <2>1, <2>3, <3>1 DEF InitConf
  <2>4. CASE argv.tlsverify /\ certFlags["ca"] \notin env.present
    BY <2>4 DEF TlsVerify, Exit
  <2> QED
    BY <2>2, <2>3, <2>4
<1>5. ConfShaped(tlsConf')
  <2>1. ConfShaped(tlsConf)
    BY DEF TransportInv
  <2>2. \/ tlsConf' = tlsConf
        \/ tlsConf' = [tlsConf EXCEPT !.rootCAs = certFlags["ca"], !.verify = TRUE]
    BY DEF TlsVerify
  <2> QED
    BY <2>1, <2>2 DEF ConfShaped
<1> QED
  BY InputsStable, <1>1, <1>2, <1>3, <1>4, <1>5 DEF TransportInv, AfterInit, ClientTransport

LEMMA TlsCertsTransport == ASSUME TransportInv, TlsCerts PROVE TransportInv'
<1>1. pc = "tlsCerts" /\ ~cli.made /\ flTls = (argv.tls \/ argv.tlsverify)
      /\ certFlags = DefaultFiles /\ tlsConf.certs = NoPair
  BY DEF TlsCerts, TransportInv, AfterInit
<1>2. UNCHANGED <<argv, env, certFlags, cli, flHosts>>
  BY DEF TlsCerts
<1>3. pc' \in {"newCli", "exited"}
  BY DEF TlsCerts, Exit
<1>4. pc' = "newCli" =>
        /\ flTls' = (argv.tls \/ argv.tlsverify)
        /\ tlsConf'.verify = tlsConf.verify /\ tlsConf'.rootCAs = tlsConf.rootCAs
        /\ tlsConf'.certs = IF FoundPair THEN <<CertFile(CertHome, "cert"), CertFile(CertHome, "key")>>
                            ELSE NoPair
  <2>1. certFlags["cert"] = CertFile(CertHome, "cert")
        /\ certFlags["key"] = CertFile(CertHome, "key")
    BY <1>1 DEF DefaultFiles, CertNames
  <2> DEFINE pair == <<certFlags["cert"], certFlags["key"]>>
  <2>2. ConfShaped(tlsConf)
    BY DEF TransportInv
  <2>3. CASE (flTls \/ argv.tlsverify) /\ {pair[1], pair[2]} \subseteq env.present
    <3>1. pc' = "newCli" => flTls' = TRUE /\ tlsConf' = [tlsConf EXCEPT !.certs = pair]
      BY <2>3 DEF TlsCerts, Exit
    <3>2. FoundPair
      BY <1>1, <2>1, <2>3 DEF FoundPair
    <3> QED
      BY <1>1, <2>1, <2>2, <2>3, <3>1, <3>2 DEF ConfShaped
  <2>4. CASE ~((flTls \/ argv.tlsverify) /\ {pair[1], pair[2]} \subseteq env.present)
    <3>1. pc' = "newCli" => UNCHANGED <<flTls, tlsConf>>
      BY <2>4 DEF TlsCerts, Exit
    <3>2. ~FoundPair
      BY <1>1, <2>1, <2>4 DEF FoundPair
    <3> QED
      BY <1>1, <2>4, <3>1, <3>2
  <2> QED
    BY <2>3, <2>4
<1>5. ConfShaped(tlsConf')
  <2>1. ConfShaped(tlsConf)
    BY DEF TransportInv
  <2>2. \/ tlsConf' = tlsConf
        \/ tlsConf' = [tlsConf EXCEPT !.certs = <<certFlags["cert"], certFlags["key"]>>]
    BY DEF TlsCerts
  <2> QED
    BY <2>1, <2>2 DEF ConfShaped
<1> QED
  BY InputsStable, <1>1, <1>2, <1>3, <1>4, <1>5 DEF TransportInv, AfterInit, ClientTransport

LEMMA NewCliTransport == ASSUME TransportInv, NewCli PROVE TransportInv'
<1>1. pc = "newCli" /\ flTls = (argv.tls \/ argv.tlsverify)
      /\ flHosts = ModeHosts /\ Len(flHosts) = 1 /\ ~argv.daemon
      /\ tlsConf.verify = argv.tlsverify
      /\ (tlsConf.verify => tlsConf.rootCAs = CertFile(CertHome, "ca"))
      /\ tlsConf.certs = IF FoundPair THEN <<CertFile(CertHome, "cert"), CertFile(CertHome, "key")>>
                         ELSE NoPair
  BY DEF NewCli, TransportInv
<1>2. UNCHANGED <<argv, env, certFlags, flHosts, flTls, tlsConf>> /\ pc' = "cmd"
  BY DEF NewCli
<1>3. cli'.proto = flHosts[1]
  BY DEF NewCli
<1>4. flHosts[1] = IF argv.hosts # <<>> THEN argv.hosts[1]
                   ELSE IF env.dockerHost = Empty THEN "unix" ELSE env.dockerHost
  BY <1>1 DEF ModeHosts
<1>5. /\ cli'.made
      /\ (cli'.scheme = "https") = (argv.tls \/ argv.tlsverify)
      /\ cli'.scheme = "https" =>
           /\ cli'.verify = tlsConf.verify /\ cli'.rootCAs = tlsConf.rootCAs
           /\ cli'.certs = tlsConf.certs
  BY <1>1 DEF NewCli
<1>6. ClientTransport'
  <2>1. CertHome' = CertHome /\ Len(flHosts') = 1
    BY <1>1, <1>2, InputsStable
  <2>2. cli'.made /\ cli'.proto = IF argv.hosts # <<>> THEN argv.hosts[1]
                   ELSE IF env.dockerHost = Empty THEN "unix" ELSE env.dockerHost
    BY <1>3, <1>4, <1>5
  <2>3. cli'.scheme = "https" =>
          /\ cli'.verify = argv.tlsverify
          /\ cli'.verify => cli'.rootCAs = CertFile(CertHome, "ca")
          /\ cli'.certs =
               IF {CertFile(CertHome, "cert"), CertFile(CertHome, "key")} \subseteq env.present
               THEN <<CertFile(CertHome, "cert"), CertFile(CertHome, "key")>>
               ELSE NoPair
    BY <1>1, <1>5 DEF FoundPair
  <2> QED
    BY <1>2, <1>5, <2>1, <2>2, <2>3 DEF ClientTransport
<1> QED
  BY InputsStable, <1>1, <1>2, <1>6 DEF TransportInv, AfterInit

LEMMA CmdTransport == ASSUME TransportInv, Cmd PROVE TransportInv'
<1>1. UNCHANGED <<argv, env, certFlags, flHosts, flTls, tlsConf, cli>> /\ pc' = "exited"
  BY DEF Cmd, Exit
<1>2. ClientTransport
  BY DEF TransportInv
<1> QED
  BY InputsStable, <1>1, <1>2, TransportKept DEF TransportInv, AfterInit

LEMMA NextTransport == ASSUME TransportInv, [Next]_vars PROVE TransportInv'
<1>1. CASE Register
  BY <1>1, RegisterTransport
<1>2. CASE CertPathVar \/ CertPathInit \/ FlagDefaultsInit
  BY <1>2, InitFnTransport
<1>3. CASE ReexecInit
  BY <1>3, ReexecTransport
<1>4. CASE Parse
  BY <1>4, ParseTransport
<1>5. CASE Flags
  BY <1>5, FlagsTransport
<1>6. CASE DefaultHost
  BY <1>6, DefaultHostTransport
<1>7. CASE Mode
  BY <1>7, ModeTransport
<1>8. CASE TlsVerify
  BY <1>8, TlsVerifyTransport
<1>9. CASE TlsCerts
  BY <1>9, TlsCertsTransport
<1>10. CASE NewCli
  BY <1>10, NewCliTransport
<1>11. CASE Cmd
  BY <1>11, CmdTransport
<1>12. CASE Terminated \/ UNCHANGED vars
  BY <1>12 DEF Terminated, vars, TransportInv, AfterInit, ClientTransport, ModeHosts,
               DefaultFiles, FoundPair, CertHome
<1> QED
  BY <1>1, <1>2, <1>3, <1>4, <1>5, <1>6, <1>7, <1>8, <1>9, <1>10, <1>11, <1>12
  DEF Next

\* Whatever the build, the command line, the environment and the files on
\* disk, the DockerCli main builds talks to the one host given by -H, else
\* $DOCKER_HOST, else the unix socket; over https exactly when --tls or
\* --tlsverify is given; verifies the daemon exactly under --tlsverify, and
\* then against the CA of the cert directory; and sends the cert
\* directory's key pair exactly when both files exist.
THEOREM ClientTransportSafety == Spec => []ClientTransport
<1>1. Init => TransportInv
  BY InitTransport
<1>2. TransportInv /\ [Next]_vars => TransportInv'
  BY NextTransport
<1>3. TransportInv => ClientTransport
  BY DEF TransportInv
<1> QED
  BY <1>1, <1>2, <1>3, PTL DEF Spec

-----------------------------------------------------------------------------
(* ReexecExclusive: what runs depends on reexec.Init alone.                *)

\* The steps of main after reexec.Init has returned false.
AfterReexec == {"parse", "flags", "hosts", "mode", "tlsVerify", "tlsCerts", "newCli", "cmd"}

\* What makes ReexecExclusive inductive: nothing runs before reexec.Init,
\* and main goes past it only when os.Args[0] names no registered
\* initializer; the registry does not change after package init.
ReexecInv ==
  /\ pc \in Pcs
  /\ pc \in {"register", "init1", "init2", "reexec"} => ran = {}
  /\ pc \in AfterReexec => argv.argv0 \notin registry /\ "initializer" \notin ran
  /\ ReexecExclusive

\* A step of main after reexec.Init that runs no initializer keeps ReexecInv.
LEMMA AfterReexecStep ==
  ASSUME ReexecInv, pc \in AfterReexec, pc' \in AfterReexec \cup {"exited"},
         "initializer" \notin ran', UNCHANGED <<argv, registry>>
  PROVE  ReexecInv'
BY DEF ReexecInv, ReexecExclusive, AfterReexec, Pcs

LEMMA InitReexec == ASSUME Init PROVE ReexecInv
BY DEF Init, ReexecInv, ReexecExclusive, Pcs

LEMMA NextReexec == ASSUME ReexecInv, [Next]_vars PROVE ReexecInv'
<1>1. CASE Register
  BY <1>1 DEF Register, Exit, ReexecInv, ReexecExclusive, Pcs, AfterReexec
<1>2. CASE CertPathVar \/ CertPathInit \/ FlagDefaultsInit
  BY <1>2 DEF CertPathVar, CertPathInit, FlagDefaultsInit, ReexecInv, ReexecExclusive, Pcs, AfterReexec
<1>3. CASE ReexecInit
  BY <1>3 DEF ReexecInit, Exit, ReexecInv, ReexecExclusive, Pcs, AfterReexec
<1>4. CASE Parse \/ Flags \/ DefaultHost \/ Mode \/ TlsVerify \/ TlsCerts
  <2>1. pc \in AfterReexec /\ pc' \in AfterReexec \cup {"exited"}
        /\ ran' \subseteq ran \cup {"version", "daemon"}
        /\ UNCHANGED <<argv, registry>>
    BY <1>4 DEF Parse, Flags, DefaultHost, Mode, TlsVerify, TlsCerts, Exit, AfterReexec
  <2>2. "initializer" \notin ran'
    BY <2>1 DEF ReexecInv
  <2> QED
    BY <2>1, <2>2, AfterReexecStep
<1>5. CASE NewCli \/ Cmd
  <2>1. pc \in AfterReexec /\ pc' \in AfterReexec \cup {"exited"}
        /\ ran' \subseteq ran \cup {"client", "command", "help"}
        /\ UNCHANGED <<argv, registry>>
    BY <1>5 DEF NewCli, Cmd, Exit, AfterReexec
  <2>2. "initializer" \notin ran'
    BY <2>1 DEF ReexecInv
  <2> QED
    BY <2>1, <2>2, AfterReexecStep
<1>6. CASE Terminated \/ UNCHANGED vars
  BY <1>6 DEF Terminated, vars, ReexecInv, ReexecExclusive, AfterReexec
<1> QED
  BY <1>1, <1>2, <1>3, <1>4, <1>5, <1>6 DEF Next

\* Whatever the build, the command line and the environment, a binary
\* started under the name of a registered reexec initializer runs that
\* initializer and nothing else (reexec.Init returned true and main
\* returned), and under any other name no initializer runs.
THEOREM ReexecSafety == Spec => []ReexecExclusive
<1>1. Init => ReexecInv
  BY InitReexec
<1>2. ReexecInv /\ [Next]_vars => ReexecInv'
  BY NextReexec
<1>3. ReexecInv => ReexecExclusive
  BY DEF ReexecInv
<1> QED
  BY <1>1, <1>2, <1>3, PTL DEF Spec

-----------------------------------------------------------------------------
(* Type correctness.                                                       *)

\* TypeOK with the types of the command line and the environment, which
\* no step changes.
TypeInv == TypeOK /\ argv \in ArgvType /\ env \in EnvType

LEMMA InitType == ASSUME Init PROVE TypeInv
<1>1. build \in Seq(Argv0s) /\ Len(build) \in Nat
  BY CliAssumption DEF Init
<1>2. regIdx \in 1 .. Len(build) + 1
  BY <1>1 DEF Init
<1>3. certPath \in CertDirs /\ certFlags \in [CertNames -> Files \cup {NoFile}]
  BY DEF Init, CertDirs
<1>4. tlsConf \in [verify : BOOLEAN, rootCAs : Files \cup {NoFile},
                   certs : (Files \X Files) \cup {NoPair}]
  BY DEF Init
<1>5. argv \in ArgvType /\ env \in EnvType
  BY DEF Init, ArgvType, EnvType
<1>7. flHosts \in Seq(HostProtos)
  BY DEF Init
<1>8. cli.made \in BOOLEAN
  BY DEF Init
<1>6. /\ pc \in Pcs /\ build \in Builds /\ registry \subseteq Argv0s
      /\ flTls \in BOOLEAN /\ debugEnv \in BOOLEAN
      /\ ran \subseteq {"initializer", "version", "daemon", "client", "command", "help"}
      /\ exit \in {"running", "ok", "usage", "panic", "fatal", "status", "daemon"}
  BY DEF Init, Pcs
<1> QED
  BY <1>2, <1>3, <1>4, <1>5, <1>6, <1>7, <1>8 DEF TypeInv, TypeOK

\* The steps before main: a registration, dockerCertPath, the flag defaults.
LEMMA InitStepsType ==
  ASSUME TypeInv, Register \/ CertPathVar \/ CertPathInit \/ FlagDefaultsInit
  PROVE  TypeInv'
<1>1. build \in Seq(Argv0s) /\ Len(build) \in Nat
  BY CliAssumption DEF TypeInv, TypeOK
<1>2. CASE Register
  <2>1. regIdx \in 1 .. Len(build) /\ build[regIdx] \in Argv0s
    BY <1>1, <1>2 DEF Register, TypeInv, TypeOK
  <2> QED
    BY <1>1, <1>2, <2>1 DEF Register, Exit, TypeInv, TypeOK, Pcs
<1>3. CASE CertPathVar \/ CertPathInit
  BY <1>3 DEF CertPathVar, CertPathInit, TypeInv, TypeOK, Pcs, CertDirs
<1>4. CASE FlagDefaultsInit
  BY <1>4 DEF FlagDefaultsInit, CertFile, TypeInv, TypeOK, Pcs, Files
<1> QED
  BY <1>2, <1>3, <1>4

\* main up to the hand-off: flHosts, flTls and tlsConfig keep their types.
LEMMA MainStepsType ==
  ASSUME TypeInv, ReexecInit \/ Parse \/ Flags \/ DefaultHost \/ Mode \/ TlsVerify
                  \/ TlsCerts \/ NewCli \/ Cmd
  PROVE  TypeInv'
<1>1. /\ argv.hosts \in Seq(HostProtos)
      /\ env.present \subseteq Files
      /\ flHosts \in Seq(HostProtos)
  BY HostListsType, CliAssumption DEF TypeInv, TypeOK, ArgvType, EnvType
<1>0. argv.tls \in BOOLEAN /\ argv.debug \in BOOLEAN /\ argv.tlsverify \in BOOLEAN
  BY DEF TypeInv, ArgvType
<1>2. CASE ReexecInit \/ Parse \/ Flags
  BY <1>0, <1>1, <1>2 DEF ReexecInit, Parse, Flags, Exit, TypeInv, TypeOK, Pcs
<1>6. CASE Mode
  BY <1>6 DEF Mode, Exit, TypeInv, TypeOK, Pcs
<1>7. CASE NewCli
  BY <1>7 DEF NewCli, TypeInv, TypeOK, Pcs
<1>8. CASE Cmd
  <2>1. \A r \in DOMAIN CmdExit : CmdExit[r] \in {"ok", "status", "fatal", "usage"}
    BY DEF CmdExit
  <2>2. \A w : HelpExit(w) \in {"ok", "usage"}
    BY DEF HelpExit
  <2> QED
    BY <1>8, <2>1, <2>2 DEF Cmd, Exit, TypeInv, TypeOK, Pcs
<1>3. CASE DefaultHost
  BY <1>1, <1>3 DEF DefaultHost, Exit, TypeInv, TypeOK, Pcs
<1>4. CASE TlsVerify
  BY <1>1, <1>4 DEF TlsVerify, Exit, TypeInv, TypeOK, Pcs
<1>5. CASE TlsCerts
  <2>1. certFlags["cert"] \in Files \cup {NoFile} /\ certFlags["key"] \in Files \cup {NoFile}
    BY DEF TypeInv, TypeOK, CertNames
  <2>2. {certFlags["cert"], certFlags["key"]} \subseteq env.present =>
          <<certFlags["cert"], certFlags["key"]>> \in Files \X Files
    BY <1>1
  <2> QED
    BY <1>0, <1>5, <2>2 DEF TlsCerts, Exit, TypeInv, TypeOK, Pcs
<1> QED
  BY <1>2, <1>3, <1>4, <1>5, <1>6, <1>7, <1>8

\* Type correctness of the entry-point model.
THEOREM CliTypeCorrect == Spec => []TypeOK
<1>1. Init => TypeInv
  BY InitType
<1>2. TypeInv /\ [Next]_vars => TypeInv'
  BY InitStepsType, MainStepsType DEF Next, Terminated, vars, TypeInv, TypeOK
<1>3. TypeInv => TypeOK
  BY DEF TypeInv
<1> QED
  BY <1>1, <1>2, <1>3, PTL DEF Spec

=============================================================================
