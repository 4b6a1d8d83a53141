CONSTANTS
  n1 = n1
  n2 = n2
  phone = phone
  Addrs = {n1}
  Clients = {}
  Offers <- RecognitionOnly
  NodeType <- OneSE1
  Handles = {1, 2}
  ClientCmds <- NoCommands
  Losable = {n1}
  Unreliable = FALSE
  EventsMax = 2
  MaxNumOfNodes = 1
  ByteValues = 4
SPECIFICATION FairSpec
PROPERTIES
  WaitsEnd
  NodesServed
  ReadPeriodically
  ScansForNodes
