SPECIFICATION Spec
CONSTANTS
  Procs = {1, 2}
  MaxAttempts = 1
  Profiles <- KillOrOnce
  UserCommands = {"start", "stop", "enable", "disable"}
  MaxEvents = 2
  Faults = {"apply", "revert", "kill"}
  SlowRoutes = TRUE
  Lines = {"listening", "ech"}
  Patient = TRUE
INVARIANTS TypeOK OneSupervisor
PROPERTY KillSwitchHolds
CHECK_DEADLOCK FALSE
