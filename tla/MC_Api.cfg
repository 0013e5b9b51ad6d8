CONSTANTS
  Handlers <- MCAllHandlers
  Versions <- MCVersions
  ApiVersion <- MCApiVersion
  JobMsgs <- MCJobMsgs
  JobPhrases <- MCJobPhrases
SPECIFICATION Spec
INVARIANT TypeOK
INVARIANT VersionGate
INVARIANT ListFormat
