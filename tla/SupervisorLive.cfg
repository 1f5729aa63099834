SPECIFICATION FairSpec
CONSTANTS
  Procs = {1, 2}
  MaxAttempts = 1
  Profiles <- KillOnly
  UserCommands = {"start", "stop"}
  MaxEvents = 2
  Faults = {}
  SlowRoutes = FALSE
  Lines = {"listening", "hunting", "swept"}
  Patient = TRUE
INVARIANT BlockingIsRetried
CHECK_DEADLOCK FALSE
PROPERTIES ExitIsAnswered RetriesEnd LifecycleSpec
