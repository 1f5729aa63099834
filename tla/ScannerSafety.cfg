SPECIFICATION FairSpec
CONSTANTS
  Jobs = {1}
  Recipes <- OneRecipe
  Peers = {"a", "b"}
  Networks = {"home", ""}
  Limit = 1
  MaxPlaces = 1
  MaxMoves = 1
  MaxSearches = 1
  Courteous = TRUE
INVARIANTS NothingIsLeft FoundIsConfirmed WindowIsCurrent
PROPERTIES SearchEnds
CHECK_DEADLOCK FALSE
