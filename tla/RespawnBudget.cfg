SPECIFICATION FairSpec
CONSTANTS
  Services <- MCServices
  Order <- MCOrder
  Window = 5
  Budget = 2
  Cooldown = 2
  MaxPass = 2
INVARIANTS
  BudgetPerWindow
  CooldownGap
  OneFatalLinePerEpisode
PROPERTY
  NeverAbandoned
CHECK_DEADLOCK TRUE
