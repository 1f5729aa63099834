SPECIFICATION FairSpec
CONSTANTS
  None = None
  Networks = {1, 2}
  Carriers = {"aether", "psiphon"}
  Recipes = {"plain"}
  Remedies = {}
  Contexts = {"c"}
  MaxNetworks = 1
  ForgetAfter = 2
  EngineRetryAfter = 1
  Order <- One
  Remedied <- RemedyOf
  OtherLanes <- OneEach
  Earlier <- Before
  MaxRounds = 2
  MaxSearches = 1
  MaxEvents = 1
  MaxNow = 2
  User = {"cancel", "disconnect", "connect", "move"}
INVARIANTS NothingMissed NothingTriedIsLeft RememberedIsProven
PROPERTIES WinnerIsWanted SearchEnds
CHECK_DEADLOCK FALSE
