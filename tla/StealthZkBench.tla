---------------------------- MODULE StealthZkBench ----------------------------
(***************************************************************************)
(* The setup of the claim_stealth_transfer benchmark of                    *)
(* anonx-node/pallets/stealth-zk/lib.rs (mod benchmarking), run by         *)
(* impl_benchmark_test_suite on the unit tests' mock runtime: the root     *)
(* sets a verifying key and whitelisted_caller submits a transfer of       *)
(* minimum_balance to itself, both results discarded with `let _`; the     *)
(* benchmark then claims transfer NextTransferId - 1.  `phase` is the      *)
(* position in that script.                                                *)
(***************************************************************************)
EXTENDS StealthZkTests

CONSTANTS
  Caller,      \* whitelisted_caller(): not endowed by new_test_ext
  BenchKey,    \* vec![0u8; 128]
  BenchProof   \* vec![0u8; 192] with inputs vec![0u8; 64]

VARIABLE phase

benchVars == <<vars, phase>>

\* new_test_ext endows accounts 1 and 2 only.
BenchAccounts == TestAccounts \cup {Caller}
BenchInitialBalance == TestInitialBalance @@ (Caller :> 0)

BenchInit == Init /\ phase = "set_key"

\* let _ = Pallet::<T>::set_verifying_key(Root, vk).
SetupSetKey ==
  /\ phase = "set_key"
  /\ SetVerifyingKey(BenchKey)
  /\ phase' = "submit"

\* let _ = Pallet::<T>::submit_stealth_transfer(caller, [caller],
\* minimum_balance, ..): an Err (a guard failing) changes nothing and is
\* ignored.
SetupSubmit ==
  /\ phase = "submit"
  /\ \/ SubmitStealthTransfer(Caller, <<Caller>>, ExistentialDeposit)
     \/ /\ ~ENABLED SubmitStealthTransfer(Caller, <<Caller>>, ExistentialDeposit)
        /\ UNCHANGED vars
  /\ phase' = "claim"

BenchNext == SetupSetKey \/ SetupSubmit

BenchSpec == BenchInit /\ [][BenchNext]_benchVars

-----------------------------------------------------------------------------
\* The benchmark measures a claim of the transfer its setup stored: when
\* the setup is done, `NextTransferId::<T>::get() - 1` neither underflows
\* the u64 nor names an id without a transfer.
ClaimBenchmarkSetup ==
  phase = "claim" =>
    /\ NextTransferId > 0
    /\ Transfers[NextTransferId - 1] # NoTransfer

=============================================================================
