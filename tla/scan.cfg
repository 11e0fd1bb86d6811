SPECIFICATION Spec
CONSTANTS
  None = None
  Preps <- Releases
  Digests = {"a", "b"}
  ImagesOf <- OneImage
  TargetOf <- OwnRegistry
  Shipped = {"b"}
  RecentReleases = 1
  MaxDatabaseAge = 1
  MaxImageScans = 2
  Intervals = {None, 2}
  Edits = {"Prep","Promote","Kitchen","Product","Database","Restart","Failure"}
  MaxEdits = 3
  MaxPass = 1
  MaxTime = 3
INVARIANTS OneSBOM ScansSettle RecheckInTime
PROPERTIES NoRescan
CHECK_DEADLOCK FALSE
