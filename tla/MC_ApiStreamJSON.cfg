CONSTANTS
  Handlers <- MCStreamJSONHandlers
  Versions <- MCVersions
  ApiVersion <- MCApiVersion
  JobMsgs <- MCJobMsgs
  JobPhrases <- MCJobPhrases
SPECIFICATION Spec
INVARIANT FailureReported
