SPECIFICATION Spec
CONSTANTS
  Versions = {0, 1}
  Deployments <- Advertised
  Editable = {"shares", "identity", "adverts"}
  Revert = FALSE
  Crashable = {"webui"}
  Faults = {"generate", "hook", "survive"}
  MaxStray = 1
INVARIANTS
  WebuiCurrent
  FullRecycleApplies
PROPERTY
  IdentityStaged
CHECK_DEADLOCK FALSE
