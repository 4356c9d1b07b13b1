------------------------- MODULE MC_StealthZkBench -------------------------
(***************************************************************************)
(* The claim benchmark's setup on the mock runtime of the unit tests.      *)
(***************************************************************************)
EXTENDS StealthZkBench, TLC

BenchRecipientLists == {<<Caller>>}

=============================================================================
