SPECIFICATION Spec
CONSTANTS
  Sockets = {s1, s2}
  MaxClients = 2
  QueueMax = 8
  Budget = 3
  Faults = {"close", "silent", "late", "refused", "joinfail", "deauth", "disassoc",
            "readfail", "readkeep"}
INVARIANTS
  HandlerNeverBlocks
  HeldForAnAnswer
  DataParsedAsData
\* Without the network the program waits for nothing.
CHECK_DEADLOCK FALSE
