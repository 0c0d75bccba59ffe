CONSTANTS
  Requests = {"a", "b"}
  Forms <- SomeForms
  Entries <- Paths
  Top = "top"
  Kind <- Kinds
  Parent <- Parents
  Depth <- Depths
  Later = {"link"}
  Chunk = 2
  Fresh <- Plain
  Faults = {"ldap", "chown", "chmod", "setfacl", "panic", "restart"}
  MaxTrouble = 1
SPECIFICATION FairSpec
INVARIANT OneApplyWrites
PROPERTIES  PagesSettle
CHECK_DEADLOCK FALSE
