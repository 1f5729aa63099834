SPECIFICATION FairSpec
CONSTANTS
  Kinds = {"aether", "psiphon"}
  Routes <- AllRoutes
  Profiles <- Some
  Threads = {1, 2, 3}
  Commands = {"start", "stop", "move", "chain"}
  MaxCommands = 3
  MaxDeaths = 1
  MaxAttempts = 2
  Calm = {"stop", "user", "watch", "tunnel", "prompt"}
INVARIANTS OneAtWork NothingIsLeft
PROPERTIES KillSwitchHolds DeathIsAnswered
CHECK_DEADLOCK FALSE
