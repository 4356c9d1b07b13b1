---------------------------- MODULE StealthZkTests ----------------------------
(***************************************************************************)
(* The unit tests of anonx-node/pallets/stealth-zk/lib.rs (mod tests) over *)
(* StealthZk: the mock runtime's genesis and parameters, the calls the     *)
(* tests make, and what submit_and_claim_flow asserts of them.             *)
(*                                                                         *)
(* The tests store the stub verifying key vec![1,2,3] and claim with the   *)
(* proof vec![0].  Three bytes are not a compressed PreparedVerifyingKey   *)
(* of BLS12-381, so StubKey is not among the deserializable keys, and no   *)
(* key of the instance makes Groth16 accept the one-byte proof.           *)
(***************************************************************************)
EXTENDS StealthZk

CONSTANTS
  StubKey,     \* vec![1,2,3] passed to set_verifying_key
  DummyProof,  \* vec![0] passed as proof (and public_inputs)
  EmptyProof   \* vec![] passed by claim_with_invalid_proof_fails

\* new_test_ext: accounts 1 and 2 with 100 each.
TestAccounts == {1, 2}
TestInitialBalance == (1 :> 100) @@ (2 :> 100)

\* parameter_types! of the mock: MaxRecipients 5, ExistentialDeposit 1.
TestMaxRecipients == 5
TestExistentialDeposit == 1

\* The calls of the tests: the stub key, a transfer to [2] of 50 or 30,
\* and claims with the dummy or the empty proof.
TestKeys == {StubKey}
TestRecipientLists == {<<2>>}
TestAmounts == {50, 30}
TestProofs == {DummyProof, EmptyProof}

-----------------------------------------------------------------------------
\* submit_and_claim_flow: once the stub key is set and account 1 has
\* locked 50 for [2] in transfer 0, claim_stealth_transfer(0, vec![0],
\* vec![0]) returns Ok ("dummy proof and inputs always succeed") and
\* account 2's free balance goes up by the amount.
SubmitAndClaimFlow ==
  (/\ VerifyingKey = StubKey
   /\ Transfers[0] = [sender |-> 1, recipients |-> <<2>>, amount |-> 50])
    => ENABLED (/\ ClaimStealthTransfer(0, DummyProof)
                /\ balances'[2] = balances[2] + 50)

=============================================================================
