SPECIFICATION FairSpec
CONSTANTS
  Jobs <- RunningJobs
  MaxSaves = 2
  MaxClicks = 2
  Faults = {"undeliverable", "blind", "abort", "stick"}
PROPERTIES
  LatchReleased
  
  
CHECK_DEADLOCK FALSE
