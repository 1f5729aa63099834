SPECIFICATION FairSpec
CONSTANTS
  Workers = {"w"}
  Pages = {"p"}
  Envs = {"e", "f"}
  MaxFaults = 1
  Courteous = TRUE
INVARIANTS NothingIsOrphaned ReadyIsTrue DomainIsWhole
PROPERTY DeleteSucceeds
CHECK_DEADLOCK FALSE
