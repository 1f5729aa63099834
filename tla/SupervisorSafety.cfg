SPECIFICATION Spec
CONSTANTS
  Procs = {1, 2}
  MaxAttempts = 1
  Profiles <- Unrouted
  UserCommands = {"start", "stop"}
  MaxEvents = 3
  Faults = {"spawn", "mihomo", "door"}
  SlowRoutes = FALSE
  Lines = {"listening", "hunting"}
  Patient = TRUE
INVARIANTS NoStrayEngine StopSticks
CHECK_DEADLOCK FALSE
