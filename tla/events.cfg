SPECIFICATION Spec
CONSTANTS
  Names = {n1, n2}
  Clients = {c1}
  None = None
  MaxEdits = 4
  MaxOpens = 2
PROPERTY CatchesUp StreamsEnd
CHECK_DEADLOCK FALSE
