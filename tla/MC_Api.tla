------------------------------- MODULE MC_Api -------------------------------
EXTENDS Api

\* Versions on both sides of every threshold the handlers test, the server's
\* own (bare, "1.14" and "1.14.0") and newer ones ("1.15", "1.14.1", "2").
MCVersions == {<<>>, <<1, 0>>, <<1, 3>>, <<1, 4>>, <<1, 5>>, <<1, 6>>,
               <<1, 7>>, <<1, 8>>, <<1, 14>>, <<1, 14, 0>>, <<1, 14, 1>>,
               <<1, 15>>, <<2>>}

MCApiVersion == <<1, 14>>

\* Job error texts, and the tested substrings each one contains.
MCJobMsgs == {"No such container: c1", "Conflict, c1 is running",
              "Container already started", "Container already stopped",
              "no such file or directory"}

MCJobPhrases ==
  [m \in MCJobMsgs |->
     CASE m = "No such container: c1" -> {"No such", "No such container"}
       [] m = "Conflict, c1 is running" -> {"Conflict"}
       [] m = "no such file or directory" -> {"no such file or directory"}
       [] OTHER -> {}]

\* Handlers whose every error path reports the error to the client.
MCReportingHandlers == ReportingHandlers

\* Handlers that stream JSON with streamJSON and return job.Run(); the two
\* listings do so from their cutover on.
MCStreamJSONHandlers ==
  {"getEvents", "getImagesHistory", "getContainersChanges", "getContainersTop",
   "getImagesSearch", "deleteImages", "getContainersByName", "getImagesByName",
   "getImagesJSON", "getContainersJSON"}

MCAllHandlers ==
  MCReportingHandlers \cup MCStreamJSONHandlers
    \cup {"postContainersCreate", "wsContainersAttach", "postContainersCopy"}

MCCopy   == {"postContainersCopy"}
MCCreate == {"postContainersCreate"}
=============================================================================
