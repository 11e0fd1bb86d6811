SPECIFICATION Spec
CONSTANTS
  NoRecord = NoRecord
  test = test
  Stages = {test,prod}
  Soak <- Soaks
  NumPreps = 2
  MaxEntries = 3
  MaxTime = 4
  MaxEdits = 1
  Edits = {"Promote","Degrade","Failure","Wanted","Order","After"}
INVARIANT EvidenceRecorded GateWakes
PROPERTY SoakServed
CHECK_DEADLOCK FALSE
