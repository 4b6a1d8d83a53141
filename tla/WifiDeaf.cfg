SPECIFICATION Spec
CONSTANTS
  Size = 8
  Chunk = 4
  Margin = 3
  Slack = 2
  MaxSent = 12
  Faults = {"preempt"}
INVARIANTS
  ReceiverRestarted
