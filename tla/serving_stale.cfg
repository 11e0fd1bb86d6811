SPECIFICATION Spec
CONSTANTS
  NoRecord = NoRecord
  NumPreps = 3
  MaxEntries = 3
  MaxTime = 3
  MaxEdits = 1
  AppLag = TRUE
  Edits = {"Failure","Degrade","Order","Upstream","Site"}
INVARIANT HistoryInv RecordedFirst Inductive
PROPERTY KeepsPromises
CHECK_DEADLOCK FALSE
