SPECIFICATION Spec
CONSTANTS
  Types = {"REQ"}
  p1 = p1
  p2 = p2
  p3 = p3
  Pipes = {p1, p2, p3}
  AtOnce = {}
  Slots = 2
  Prio <- MCPrio
  Topics = {a, b}
  MaxId = 2
  MaxFaults = 0
  MaxKey = 1
INVARIANT RightReply
CHECK_DEADLOCK FALSE
