SPECIFICATION Spec
CONSTANTS
  a = a
  b = b
  c = c
  d = d
  u = u
  v = v
  NoValue = NoValue
  Down = {d}
  DeliveryTimes = {0, 1, 2, 3, 4, 5, 6}
  Node <- Node4
  NumValidators = 3
  Required = 2
  MaxRound = 0
  Validator <- Validator3
  Producer <- Producer3
  EnoughNodes <- MCEnoughNodes
  Round0Start <- MCRound0Start
  Skew <- NoSkew4
  Payload = {}
  RandomValue = {u}
  MaxRestarts = 0
  MaxBlocks = 1
  MaxTime = 2
INVARIANTS
  LockInAgreement
CHECK_DEADLOCK FALSE
ACTION_CONSTRAINTS Urgent Prompt NoStragglers StayDown Deliveries
