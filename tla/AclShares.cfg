SPECIFICATION FairSpec
CONSTANTS
  Order <- ShareOrder
  ServePath <- Paths
  Policy <- Policies
  Points <- MountPoints
  Confs <- Edits
  Interval = 1
  Ttl = 2
  InconclusiveTtl = 1
  Gap = 3
  MaxFlips = 2
  MaxSaves = 1
  MaxResets = 1
  Faults = {"blind", "panic", "restart", "undelivered"}
INVARIANT SurfacesCatchUp
PROPERTIES
  FlapBounded
  BannerFollows
  DriftReconciled
CHECK_DEADLOCK FALSE
