SPECIFICATION Spec
CONSTANTS
  Browsers = {b1}
  Lists <- UsersAndGroups
  Servers = {"s1", "s2"}
  First = "s1"
  MaxVersion = 1
  MaxClients <- ReplacedOnce
  Ttl = 2
  Slow = 1
  Every = 1
INVARIANT ListsFresh
PROPERTY ListsConverge
