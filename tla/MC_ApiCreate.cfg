CONSTANTS
  Handlers <- MCCreate
  Versions <- MCVersions
  ApiVersion <- MCApiVersion
  JobMsgs <- MCJobMsgs
  JobPhrases <- MCJobPhrases
SPECIFICATION Spec
INVARIANT FailureReported
