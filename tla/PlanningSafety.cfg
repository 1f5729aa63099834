SPECIFICATION PlanSpec
CONSTANTS
  None = None
  Networks = {1, 2}
  Carriers = {"aether", "psiphon"}
  Recipes <- Recipe
  Remedies = {"ech", "fragment"}
  Contexts <- Recipe
  MaxNetworks = 1
  ForgetAfter = 2
  EngineRetryAfter = 2
  Settings <- Saved
  Later <- Changed
  Passing <- Through
  MaxAttempts = 12
  MaxTicks = 3
INVARIANTS ProvenLeads SettingsSurvive EveryRecipeHasItsTurn MemoryIsBounded
CHECK_DEADLOCK FALSE
