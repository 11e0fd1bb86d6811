SPECIFICATION Spec
CONSTANTS
  None = None
  Bad = Bad
  Err = Err
  Specs <- Settings
  Settled <- Before
  MaxEdits = 2
INVARIANT AuthCurrent
PROPERTY PasswordReadable
CHECK_DEADLOCK FALSE
