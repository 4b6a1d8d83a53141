CONSTANTS
  n1 = n1
  n2 = n2
  phone = phone
  Addrs = {n1}
  Clients = {phone}
  Offers <- RecognitionOnly
  NodeType <- OneSE1
  Handles = {1, 2}
  ClientCmds <- NoCommands
  Losable = {n1, phone}
  Unreliable = TRUE
  EventsMax = 2
  MaxNumOfNodes = 1
  ByteValues = 4
SPECIFICATION Spec
\* A loop over 256 nodes never ends: the program really may stop.
CHECK_DEADLOCK FALSE
INVARIANTS
  TypeOK
  NodesCounted
  IndexInTable
  SlotsAreLinked
  ClientIsLinked
  NothingAwaitedInVain
