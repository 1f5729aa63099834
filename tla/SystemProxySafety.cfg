SPECIFICATION Spec
CONSTANTS
  Platforms = {"windows", "macos", "gnome"}
  Bridges = {"b1", "b2", "b3"}
  OwnServers = {"empty", "corp"}
  Faults <- Survivable
INVARIANTS WayBack BridgeIsServed
CHECK_DEADLOCK FALSE
