CONSTANTS
  Handlers <- MCReportingHandlers
  Versions <- MCVersions
  ApiVersion <- MCApiVersion
  JobMsgs <- MCJobMsgs
  JobPhrases <- MCJobPhrases
SPECIFICATION Spec
INVARIANT FramingConsistent
INVARIANT FailureReported
