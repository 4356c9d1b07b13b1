\* The exposure primitives with u32 scaled down to 2 bits, and the page
\* size at u32::MAX (3): a runtime that does not want its exposures paged
\* sets MaxExposurePageSize to u32::MAX.  Up to two nominators, split off
\* in one call.
CONSTANTS
  n1 = n1
  n2 = n2
  Nominators <- MCNominators
  Values = {1}
  OwnValues = {0}
  BalanceBits = 4
  CountBits = 2
  PageSizes = {3}
  MaxOthers = 2
  MaxSplit = 2
  MaxSplits = 1

SPECIFICATION Spec

\* The caller makes at most MaxSplits calls and then stops.
CHECK_DEADLOCK FALSE

INVARIANT UpdateWithMatchesIntoPages
