SPECIFICATION Spec
CONSTANTS
  Sockets = {s1, s2}
  MaxClients = 2
  QueueMax = 8
  Budget = 1
  Faults = {"race"}
INVARIANTS
  AnswerBelongs
CHECK_DEADLOCK FALSE
