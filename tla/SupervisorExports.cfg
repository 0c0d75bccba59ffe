SPECIFICATION Spec
CONSTANTS
  Versions = {0, 1}
  Deployments <- EitherMode
  Editable = {"exports"}
  Revert = TRUE
  Crashable = {"ganesha", "watcher"}
  Faults = {"generate", "hook", "hang", "warm", "fork", "survive", "restart"}
  MaxStray = 1
INVARIANTS
  OneGanesha
  SavedConfigOnDisk
  ExportsServed
PROPERTY
  ImplementsRecycleJob
CHECK_DEADLOCK FALSE
