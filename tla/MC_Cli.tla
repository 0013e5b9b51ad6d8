------------------------------- MODULE MC_Cli -------------------------------
(* TLC instance of Cli: the daemon build, whose execution drivers register *)
(* two reexec names, the client-only build, and a build registering a name *)
(* twice; one command; certificate files in each directory.                *)
EXTENDS Cli

MCBuilds == {<<"lxc", "native">>, <<>>, <<"native", "native">>}

MCDaemonBuilds == {<<"lxc", "native">>, <<"native", "native">>}

MCDockerHosts == {Empty, "tcp", "bad"}

MCHostLists == {<<>>, <<"tcp">>, <<"unix", "fd">>}

\* no argument; "PS"; an unknown word before "ps"; an empty word
MCArgLists ==
  {<<>>,
   <<[name |-> "ps", upper |-> TRUE]>>,
   <<[name |-> "other", upper |-> FALSE], [name |-> "ps", upper |-> FALSE]>>,
   <<[name |-> Empty, upper |-> FALSE]>>}

\* every file in $HOME/.docker; every file in $DOCKER_CERT_PATH; every file
\* in the working directory only; the key missing from $HOME/.docker
MCFileSets ==
  {{"home"} \X CertNames, {"env"} \X CertNames, {Empty} \X CertNames,
   {<<"home", "ca">>, <<"home", "cert">>}}

=============================================================================
