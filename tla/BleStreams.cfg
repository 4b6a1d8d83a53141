CONSTANTS
  n1 = n1
  n2 = n2
  phone = phone
  Addrs = {n1}
  Clients = {phone}
  Offers <- ProximityNode
  NodeType <- OneFL1
  Handles = {1, 2}
  ClientCmds <- BothCommands
  Losable = {phone}
  Unreliable = FALSE
  EventsMax = 2
  MaxNumOfNodes = 2
  ByteValues = 4
SPECIFICATION Spec
\* A loop over 256 nodes never ends: the program really may stop.
CHECK_DEADLOCK FALSE
INVARIANTS
  OneStream
  StreamsHaveAClient
  SlotsAreLinked
