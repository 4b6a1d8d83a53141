SPECIFICATION Spec
CONSTANTS
  PacketNum = 2
  Opcodes = {op1}
  Notices = {n1}
  Faults = {}
  CtrlMax = 1
  OwedMax = 1

INVARIANT
  WaitIsNotDeaf
