------------------------- MODULE MC_StakingExposure -------------------------
EXTENDS StakingExposureTests, TLC

CONSTANTS n1, n2

MCNominators == {n1, n2}

=============================================================================
