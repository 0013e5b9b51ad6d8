CONSTANTS
  Builds <- MCBuilds
  DaemonBuilds <- MCDaemonBuilds
  Argv0s = {"docker", "lxc", "native"}
  HostLists <- MCHostLists
  DockerHosts <- MCDockerHosts
  ArgLists <- MCArgLists
  Commands = {"ps"}
  FileSets <- MCFileSets

SPECIFICATION Spec

INVARIANT TypeOK
INVARIANT DaemonGetsHosts
INVARIANT ClientTransport
INVARIANT ReexecExclusive
