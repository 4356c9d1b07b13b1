CONSTANTS
  p1 = p1
  p2 = p2
  m1 = m1
  m2 = m2
  Paras <- MCParas
  Payloads <- MCPayloads
  PayloadSize <- MCPayloadSize
  ConfigSizes = {1, 2}
  MAX_POSSIBLE_ALLOCATION = 2
  THRESHOLD_FACTOR = 2
  MinFeeFactor = 4
  FixedOne = 4
  EXPONENTIAL_FEE_BASE = 5
  MESSAGE_SIZE_FEE_BASE = 1
  KB = 1
  MaxFeeFactor = 8
  MaxBlock = 1
  MaxHistory = 2
  MaxProcessed = 2
  RelayParentLookback = 1
  NoCandidate = NoCandidate



SPECIFICATION Spec

SYMMETRY MCSymmetry

\* Both paras: per-para storage, cleanup and refinement with another para
\* whose queue, head and fee must be left alone.
INVARIANT NoDanglingQueue
PROPERTY MailboxRefinement
PROPERTY DisjointPartition
