SPECIFICATION Spec
CONSTANTS
  Approvers = {a1, a2}
  RequiredApprovals = 1
  MaxApprovers = 2
  MaxRequests = 2
  MaxEdits = 2
  Edits = {"Failure","Gates","Crash"}
INVARIANT RegistryHolds PromotedAsVoted VotesSettle TargetPromoted
PROPERTY SealHolds
SYMMETRY Interchangeable
CHECK_DEADLOCK FALSE
