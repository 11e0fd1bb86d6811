SPECIFICATION Spec
CONSTANTS
  None = None
  Requests = {q1, q2}
  Kinds = {"db", "java"}
  Main = "db"
  Versions <- ThreeAndOne
  MaxConcurrent = 2
  MaxFaults = 1
  MaxCancels = 1
INVARIANT TwoVersions SurvivesNext
PROPERTY DownloadsComplete
CHECK_DEADLOCK FALSE
