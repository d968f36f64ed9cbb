SPECIFICATION LateSpec
CONSTANTS
  a = a
  b = b
  c = c
  d = d
  u = u
  v = v
  NoValue = NoValue
  Down = {}
  DeliveryTimes = {0, 6}
  Node <- Node3
  NumValidators = 2
  Required = 2
  MaxRound = 1
  Validator <- SwapValidator
  Producer <- SwapProducer
  EnoughNodes <- MCEnoughNodes
  Round0Start <- MCRound0Start
  Skew <- NoSkew3
  Payload = {1}
  RandomValue = {u}
  MaxRestarts = 0
  MaxBlocks = 1
  MaxTime = 6
INVARIANTS
  SingleVoice
  CompleteBlocks
CHECK_DEADLOCK FALSE
