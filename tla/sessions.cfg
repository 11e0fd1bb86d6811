SPECIFICATION Spec
CONSTANTS
  None = None
  Replicas = {r1, r2}
  SessionIds = {s1}
  ProviderSids = {p1}
  SignIns <- NamedOrNot
  AccessTTL = 1
  IdleTTL = 2
  SessionTTL = 3
  PendingTTL = 1
  CheckEvery = 1
  LogoutTTL = 1
  MaxTime = 5
  MaxEntries = 1
  MaxEdits = 2
  Edits = {"Failure","Restart","Unavailable","Logout","Grant"}
INVARIANT Lifetime EndedEverywhere CheckedInTime
SYMMETRY Interchangeable
CHECK_DEADLOCK FALSE
