SPECIFICATION FairSpec
CONSTANTS
  Versions = {0, 1}
  Deployments <- InContainer
  Editable = {"exports"}
  Revert = TRUE
  Crashable = {"ganesha"}
  Faults = {}
  MaxStray = 1
PROPERTIES
  SignalServed
  
  GaneshaComesBack
CHECK_DEADLOCK FALSE
