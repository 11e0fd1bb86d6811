SPECIFICATION FairSpec
CONSTANTS
  NoRecord = NoRecord
  NumPreps = 2
  MaxTime = 1
  MaxEdits = 2
  MaxEntries = 2
  AppLag = FALSE
  Edits = {"Wanted","Degrade","Approved","Delete","Crash"}
INVARIANT NoLostWakeup 
PROPERTY EventuallyDeployed EventuallyGone
CHECK_DEADLOCK FALSE
