SPECIFICATION Spec
CONSTANTS
  a = a
  b = b
  h1 = h1
  h2 = h2
  i1 = i1
  i2 = i2
  i3 = i3
  i4 = i4
  op1 = op1
  op2 = op2
  NoId = NoId
  NoLane = NoLane
  Lanes = {a, b}
  Ids = {i1, i2, i3, i4}
  Owner <- TwoLaneOwner
  HostOf <- TwoHosts
  SlotOf <- OneSlot
  Operators = {op1, op2}
  OpHost <- TwoOpHosts
  Kinds = {"reap"}
  Faults = {}
  MaxFaults = 0
INVARIANTS
  ReapSafe
