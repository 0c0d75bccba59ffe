SPECIFICATION FairSpec
CONSTANTS
  u1 = u1
  u2 = u2
  srv = srv
  cli = cli
  g1 = g1
  Users = {u1, u2}
  Machines = {srv, cli}
  Servers = {srv}
  Groups = {g1}
  Directories <- Beginnings
  Budgets <- Disturbances
INVARIANTS
  EntriesServed
  PersistedCache
PROPERTIES
  KeepsHeldWhileUp
  UsersConverge
