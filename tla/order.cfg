CONSTANTS
  NumSpecs = 3
  NumSources = 2
  Refused <- RefusedIntents
  Misfits <- MisfitIntents
  None = None
  MaxEdits = 2
  MaxFailures = 1
  Edits = {"Spec", "Delete", "Create", "Product", "Registry", "Pipeline", "Promote"}
SPECIFICATION Spec
INVARIANT RendersOnce IntentRendered ServingKept
PROPERTY ParentIsLatest
CHECK_DEADLOCK FALSE
