SPECIFICATION Spec
CONSTANTS
  Shares = {1, 2, 3}
  Ports = {1080, 1081}
  Logins = {"", "a"}
  Clients = {"phone"}
  Addresses <- AllAddresses
  Procs = {1, 2, 3}
  Threads = {1, 2}
  Sessions <- TunnelOnly
  ChainChoices <- SomeChoices
  DoorChoices <- SomeDoors
  MaxCommands = 3
  MaxFaults = 0
  Serial = TRUE
INVARIANT DoorLeadsOut
CHECK_DEADLOCK FALSE
