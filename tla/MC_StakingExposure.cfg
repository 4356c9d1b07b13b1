CONSTANTS
  n1 = n1
  n2 = n2
  Nominators <- MCNominators
  Values = {1, 2}
  OwnValues = {0, 1}
  BalanceBits = 16
  CountBits = 16
  PageSizes = {1, 2, 3}
  MaxOthers = 3
  MaxSplit = 2
  MaxSplits = 3

SPECIFICATION Spec

\* The caller makes at most MaxSplits calls and then stops.
CHECK_DEADLOCK FALSE

INVARIANT TypeOK
INVARIANT SplitIsLossless
INVARIANT IntoPagesIsPaging
INVARIANT UpdateWithMatchesIntoPages
INVARIANT UnitTestsHold
