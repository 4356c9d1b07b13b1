------------------------- MODULE MC_StealthZkTests -------------------------
(***************************************************************************)
(* StealthZk instantiated with the mock runtime of the pallet's unit      *)
(* tests.  Transfer ids are 2 bits wide; the tests use id 0 only.          *)
(***************************************************************************)
EXTENDS StealthZkTests, TLC

=============================================================================
