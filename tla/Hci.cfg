SPECIFICATION FairSpec
CONSTANTS
  PacketNum = 3
  Opcodes = {op1}
  Notices = {n1}
  Faults = {"bad", "hwerr"}
  CtrlMax = 1
  OwedMax = 1
INVARIANTS
  TypeOK
  BuffersConserved
  DropFindsAnEvent
  RoomForAnswer
  IrqDiscipline
  NothingSetAsideOutsideRequest
PROPERTIES
  InOrderDelivery
  NoticesLostOnlyUnderLoad
  RequestReturns
  LineAttended
