CONSTANTS
  Users = {alice}
  Clients = {c1, c2}
  HealConn = heal
  Hosts = {laptop}
  MAX_CLIENT_THREADS = 1
  MaxTrouble = 1
  MaxLog = 1
SPECIFICATION Spec
 
 
PROPERTY UsersMapped
CHECK_DEADLOCK FALSE
