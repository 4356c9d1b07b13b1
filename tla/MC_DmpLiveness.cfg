CONSTANTS
  p1 = p1
  p2 = p2
  m1 = m1
  m2 = m2
  Paras <- MCParasOne
  Payloads <- MCPayloads
  PayloadSize <- MCPayloadSize
  ConfigSizes = {0, 1, 2}
  MAX_POSSIBLE_ALLOCATION = 2
  THRESHOLD_FACTOR = 2
  MinFeeFactor = 4
  FixedOne = 4
  EXPONENTIAL_FEE_BASE = 5
  MESSAGE_SIZE_FEE_BASE = 1
  KB = 1
  MaxFeeFactor = 8
  MaxBlock = 3
  MaxHistory = 4
  MaxProcessed = 3
  RelayParentLookback = 0
  NoCandidate = NoCandidate




SPECIFICATION FairSpec
PROPERTY QueueEventuallyDrains
PROPERTY FeeEventuallyRelaxes
