SPECIFICATION FairSpec
CONSTANTS
  Sockets = {s1, s2, s3}
  MaxClients = 3
  QueueMax = 8
  Budget = 6
  Faults = {"close", "silent", "joinfail", "readfail"}
INVARIANTS
  TypeOK
  AnswerBelongs
  OneCallUnderWay
  SocketsAgree
PROPERTIES
  ServesInTheEnd
