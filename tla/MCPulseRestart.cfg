SPECIFICATION Spec
CONSTANTS
  a = a
  b = b
  c = c
  d = d
  u = u
  v = v
  NoValue = NoValue
  Down = {}
  DeliveryTimes = {0, 1, 2, 3, 4, 5, 6}
  Node <- Node3
  NumValidators = 2
  Required = 2
  MaxRound = 0
  Validator <- Validator2
  Producer <- Producer2
  EnoughNodes <- MCEnoughNodes
  Round0Start <- MCRound0Start
  Skew <- NoSkew3
  Payload = {1}
  RandomValue = {u, v}
  MaxRestarts = 1
  MaxBlocks = 1
  MaxTime = 0
INVARIANTS
  Agreement
  CommitBeforeReveal
CHECK_DEADLOCK FALSE
ACTION_CONSTRAINTS Urgent Prompt NoStragglers StayDown Deliveries NoFaults NoneEarly RestartOnce
SYMMETRY SameValues
