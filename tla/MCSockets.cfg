SPECIFICATION Spec
CONSTANTS
  Types = {"PAIR", "PUSH", "PULL", "BUS", "PUB", "SUB", "REQ", "REP", "SURVEYOR", "RESPONDENT"}
  p1 = p1
  p2 = p2
  p3 = p3
  Pipes = {p1, p2, p3}
  AtOnce = {p1}
  Slots = 2
  Prio <- MCPrio
  Topics = {a, b}
  MaxId = 2
  MaxFaults = 2
  MaxKey = 3
INVARIANTS
  NeverBad
  OffersTrue
  SentToLive
  ToTheAsker
PROPERTIES
  ServedInOrder
  SurveyEnds
  Answered
CHECK_DEADLOCK FALSE
