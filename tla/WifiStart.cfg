SPECIFICATION FairSpec
CONSTANTS
  Sockets = {s1, s2}
  MaxClients = 2
  QueueMax = 8
  Budget = 1
  Faults = {"refused", "deauth"}
PROPERTIES
  BlueNRGStarts
\* Without the network the program waits for nothing.
CHECK_DEADLOCK FALSE
