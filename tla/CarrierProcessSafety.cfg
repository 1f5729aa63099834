SPECIFICATION FairSpec
CONSTANTS
  s1 = s1
  s2 = s2
  c1 = c1
  Kinds <- Both
  Starters <- OneStarter
  Stoppers <- OneStopper
  Procs = {1, 2}
  MaxCalls = 2
  MaxPipe = 2
  Patient = TRUE
  Prompt = TRUE
INVARIANTS NoStrayProcess ReadyMeansTunnel
PROPERTY StartReturns
CHECK_DEADLOCK FALSE
