SPECIFICATION FairSpec
CONSTANTS
  Size = 8
  Chunk = 4
  Margin = 3
  Slack = 2
  MaxSent = 17
  Faults = {"txerr"}
INVARIANTS
  TypeOK
  NothingOverrun
  RingHoldsStream
  ReceiverRestarted
PROPERTIES
  ParserReadsStream
  ReceiverRuns
