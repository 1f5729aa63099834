SPECIFICATION Spec
CONSTANTS
  Shares = {1, 2, 3}
  Ports = {1080, 1081}
  Logins = {"", "a"}
  Clients = {"phone"}
  Addresses <- AllAddresses
  Procs = {1, 2, 3}
  Threads = {1, 2}
  Sessions <- SomeSessions
  ChainChoices <- SomeChoices
  DoorChoices <- SomeDoors
  MaxCommands = 3
  MaxFaults = 2
  Serial = TRUE
INVARIANTS NoStrayEngine EngineIsAsAsked RulesAreSound FollowsTheEngine SignedIn
CHECK_DEADLOCK FALSE
