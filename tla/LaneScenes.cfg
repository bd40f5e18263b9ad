SPECIFICATION SceneSpec
CONSTANTS
  a = a
  b = b
  h1 = h1
  h2 = h2
  i1 = i1
  i2 = i2
  i3 = i3
  i4 = i4
  op1 = op1
  op2 = op2
  NoId = NoId
  NoLane = NoLane
  Lanes = {a}
  Ids = {i1, i2, i3, i4}
  Owner <- OneLaneOwner
  HostOf <- OneHost
  SlotOf <- OneSlot
  Operators = {op1}
  OpHost <- OneOpHost
  Kinds = {"create", "destroy", "recreate", "reap"}
  Faults = {"crash", "api", "record", "clear", "reset"}
  MaxFaults = 3
INVARIANTS
  ReapSafe
  OnlineHasAgent
  DownWhileTornDown
PROPERTIES
  OneCleanJob
  LeftoversAreSettled
  LaneServes
