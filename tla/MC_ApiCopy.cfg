CONSTANTS
  Handlers <- MCCopy
  Versions <- MCVersions
  ApiVersion <- MCApiVersion
  JobMsgs <- MCJobMsgs
  JobPhrases <- MCJobPhrases
SPECIFICATION Spec
INVARIANT FailureReported
