CONSTANTS
  MaxKeys = 2
  NumSources = 2
  None = None
  Bad = Bad
  Unreachable = Unreachable
  MaxEdits = 2
  MaxFailures = 1
  MaxEvents = 2
  Edits = {"Settings", "DeleteKitchen", "Secret", "Product", "Order", "Registry", "Policy", "Sign"}
SPECIFICATION Spec
INVARIANT KeyPublished ProductSettles VerifiedIsSigned ProductReleased
CHECK_DEADLOCK FALSE
