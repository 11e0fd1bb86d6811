SPECIFICATION Spec
CONSTANTS
  s1 = s1
  s2 = s2
  on = on
  off = off
  Clusters = {a, b}
  Local = local
  Labels = {on, off}
  InLabel = on
  Selectors <- MCSelectors
  Servers = {s1, s2}
  Kubeconfigs <- MCKubeconfigs
  None = None
  Bad = Bad
  Edits = {"Create", "Update", "Delete", "Kubeconfig", "Foreign", "Environment", "DeleteEnvironment", "Project", "Health", "Timer"}
  MaxEdits = 2
  MaxFailures = 1
  MaxEvents = 2
INVARIANT ClustersSettle
PROPERTY OwnRegistration
SYMMETRY Symmetry
CHECK_DEADLOCK FALSE
