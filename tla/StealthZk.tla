------------------------------ MODULE StealthZk ------------------------------
(***************************************************************************)
(* The stealth_zk pallet of anonx-node/pallets/stealth-zk/lib.rs: a sender *)
(* locks AX in a pending transfer to a bounded list of recipients, and a   *)
(* claim carrying a Groth16 proof accepted by the stored verifying key     *)
(* releases the amount to the recipients in equal shares, the remainder   *)
(* to the last one.                                                        *)
(*                                                                         *)
(* The Currency collaborator (pallet_balances) is modelled by what its     *)
(* withdraw (AllowDeath) and deposit_creating do to free balances,         *)
(* including the existential deposit: an account left below it is reaped  *)
(* and its dust destroyed, and a deposit below it to an account that does  *)
(* not exist is dropped.  `dust` is a history variable adding up the value *)
(* the currency destroyed this way.  Proof checking is abstracted to a     *)
(* relation between keys and proofs.                                       *)
(***************************************************************************)
EXTENDS Naturals, Sequences, SequencesExt, Functions

CONSTANTS
  Accounts,            \* T::AccountId
  InitialBalance,      \* [Accounts -> Nat]: free balances at genesis
  ExistentialDeposit,
  MaxRecipients,       \* T::MaxRecipients
  Amounts,             \* amounts a sender may lock
  RecipientLists,      \* recipient lists a sender may pass
  IdBits,              \* width of the u64 transfer id, scaled down
  Keys,                \* verifying key byte strings
  DeserializableKeys,  \* those that deserialize to a PreparedVerifyingKey
  Proofs,              \* proof and public-input byte strings
  Verifies,            \* <<key, proof>> pairs Groth16::verify_proof accepts
  NoKey,               \* VerifyingKey is None
  NoTransfer           \* Transfers has no entry for an id

ASSUME /\ InitialBalance \in [Accounts -> Nat]
       /\ DeserializableKeys \subseteq Keys
       /\ Verifies \subseteq Keys \X Proofs
       /\ IdBits \in Nat \ {0}
       /\ RecipientLists \subseteq Seq(Accounts)

VARIABLES
  VerifyingKey,    \* Option<Vec<u8>>
  NextTransferId,  \* u64
  Transfers,       \* [TransferId -> StealthTransfer \cup {NoTransfer}]
  balances,        \* Currency free balances
  dust             \* value destroyed by the currency (history)

vars == <<VerifyingKey, NextTransferId, Transfers, balances, dust>>

U64Max == 2^IdBits - 1

TransferId == 0 .. U64Max

StealthTransfer ==
  [sender : Accounts, recipients : BoundedSeq(Accounts, MaxRecipients),
   amount : Amounts]

InitialTotal == SumFunction(InitialBalance)

(***************************************************************************)
(* Currency::withdraw(who, amount, TRANSFER, AllowDeath): fails when the   *)
(* free balance is short; an account left below the existential deposit   *)
(* is reaped and its remaining balance is dust.                            *)
(***************************************************************************)
Withdraw(bal, who, amount) ==
  LET rest == bal[who] - amount IN
  IF bal[who] < amount
  THEN [error |-> TRUE, bal |-> bal, dust |-> 0]
  ELSE IF rest < ExistentialDeposit
  THEN [error |-> FALSE, bal |-> [bal EXCEPT ![who] = 0], dust |-> rest]
  ELSE [error |-> FALSE, bal |-> [bal EXCEPT ![who] = rest], dust |-> 0]

(***************************************************************************)
(* Currency::deposit_creating(acct, amt), folded over payouts: an account  *)
(* that does not exist is created only by a deposit of at least the        *)
(* existential deposit; a smaller one is dropped (a zero imbalance).       *)
(***************************************************************************)
DepositCreating(st, payout) ==
  LET acct == payout[1]
      amt == payout[2]
  IN
  IF st.bal[acct] > 0 \/ amt >= ExistentialDeposit
  THEN [st EXCEPT !.bal[acct] = @ + amt]
  ELSE [st EXCEPT !.dust = @ + amt]

(***************************************************************************)
(* The payouts of a claim: total / n to every recipient, in order, and the *)
(* remainder total - share * n added to the last one.                      *)
(***************************************************************************)
\* Mutation: the remainder is not paid to the last recipient.
PayoutsNoRemainder(t) ==
  LET n == Len(t.recipients)
  IN [i \in 1 .. n |-> <<t.recipients[i], t.amount \div n>>]

Payouts(t) ==
  LET n == Len(t.recipients)
      share == t.amount \div n
      rem == t.amount - share * n
  IN [i \in 1 .. n |-> <<t.recipients[i], IF i = n THEN share + rem ELSE share>>]

\* Mutation: the bound admits one recipient too many.
IsBoundedRecipientsOffByOne(rs) == Len(rs) <= MaxRecipients + 1

\* BoundedRecipients::try_from succeeds.
IsBoundedRecipients(rs) == Len(rs) <= MaxRecipients

\* Mutation: no IdOverflow guard; the id wraps around.
CheckIdOverflowMissing(id) == TRUE

\* ensure!(id != u64::MAX, IdOverflow).
CheckIdOverflow(id) == id # U64Max

-----------------------------------------------------------------------------

Init ==
  /\ VerifyingKey = NoKey
  /\ NextTransferId = 0
  /\ Transfers = [id \in TransferId |-> NoTransfer]
  /\ balances = InitialBalance
  /\ dust = 0

\* set_verifying_key from the root origin.
SetVerifyingKey(vk) ==
  /\ VerifyingKey' = vk
  /\ UNCHANGED <<NextTransferId, Transfers, balances, dust>>

(***************************************************************************)
(* submit_stealth_transfer(who, recipients, amount) past the recipient     *)
(* bound and the IdOverflow guard: the transfer is stored and the id       *)
(* advanced before the withdrawal; a failed withdrawal removes the entry   *)
(* and decrements the id again.                                            *)
(***************************************************************************)
SubmitStealthTransfer(who, recipients, amount) ==
  LET id == NextTransferId
      stored == [Transfers EXCEPT ![id] = [sender |-> who,
                   recipients |-> recipients, amount |-> amount]]
      next == (id + 1) % 2^IdBits
      w == Withdraw(balances, who, amount)
  IN
  /\ IsBoundedRecipients(recipients)
  /\ CheckIdOverflow(id)
  /\ IF w.error
     THEN /\ Transfers' = [stored EXCEPT ![id] = NoTransfer]
          /\ NextTransferId' = (next + U64Max) % 2^IdBits
          /\ UNCHANGED <<balances, dust>>
     ELSE /\ Transfers' = stored
          /\ NextTransferId' = next
          /\ balances' = w.bal
          /\ dust' = dust + w.dust
  /\ UNCHANGED VerifyingKey

(***************************************************************************)
(* claim_stealth_transfer(transfer_id, proof) when it returns Ok: a key is *)
(* set and deserializes, the proof verifies, the transfer is taken and     *)
(* paid out.  With no recipients `total / n` divides by zero and the call  *)
(* panics, so no claim of such a transfer ever succeeds.                   *)
(***************************************************************************)
ClaimStealthTransfer(id, proof) ==
  LET t == Transfers[id]
      st == FoldLeft(DepositCreating, [bal |-> balances, dust |-> dust], Payouts(t))
  IN
  /\ VerifyingKey \in DeserializableKeys
  /\ <<VerifyingKey, proof>> \in Verifies
  /\ t # NoTransfer
  /\ Len(t.recipients) > 0
  /\ Transfers' = [Transfers EXCEPT ![id] = NoTransfer]
  /\ balances' = st.bal
  /\ dust' = st.dust
  /\ UNCHANGED <<VerifyingKey, NextTransferId>>

Next ==
  \/ \E vk \in Keys : SetVerifyingKey(vk)
  \/ \E who \in Accounts, rs \in RecipientLists,
        amount \in Amounts :
       SubmitStealthTransfer(who, rs, amount)
  \/ \E id \in TransferId, proof \in Proofs : ClaimStealthTransfer(id, proof)

Spec == Init /\ [][Next]_vars

-----------------------------------------------------------------------------
(***************************************************************************)
(* Properties                                                              *)
(***************************************************************************)

Locked == SumFunction([id \in TransferId |->
            IF Transfers[id] = NoTransfer THEN 0 ELSE Transfers[id].amount])

\* Types; a stored transfer respects the BoundedVec bound on recipients.
TypeOK ==
  /\ VerifyingKey \in Keys \cup {NoKey}
  /\ NextTransferId \in TransferId
  /\ Transfers \in [TransferId -> StealthTransfer \cup {NoTransfer}]
  /\ balances \in [Accounts -> Nat]
  /\ dust \in Nat

\* No AX is created or lost by the pallet: what the accounts hold, what is
\* locked in pending transfers and what the currency destroyed as dust
\* always add up to the genesis total.  This pairs every withdrawal of
\* submit_stealth_transfer with a stored transfer (and its rollback with
\* none) and makes the share/remainder split of a claim pay out exactly
\* the locked amount.
Conservation == SumFunction(balances) + Locked + dust = InitialTotal

\* A stored transfer is never replaced by another one: an entry changes only
\* by being taken by a claim.  Submit writes at NextTransferId, so this
\* rests on the id never coming back to an occupied slot (IdOverflow guard,
\* rollback decrement).
NoTransferOverwritten ==
  [][\A id \in TransferId :
       Transfers[id] # NoTransfer => Transfers'[id] \in {Transfers[id], NoTransfer}
    ]_vars

\* A successful claim hands the whole locked amount to the recipients
\* (the doc of StealthTransferClaimed: funds released).
ClaimPaysInFull ==
  [][\A id \in TransferId, proof \in Proofs :
       ClaimStealthTransfer(id, proof)
         => SumFunction(balances') = SumFunction(balances) + Transfers[id].amount
    ]_vars

\* Recipients keep trying to claim with an accepted proof.
FairSpec ==
  /\ Spec
  /\ \A id \in TransferId : WF_vars(\E proof \in Proofs : ClaimStealthTransfer(id, proof))

\* Once a usable verifying key stays in place, every locked transfer is
\* eventually released by a claim (submit: "lock AX"; claim: "distribute
\* AX").
TransfersEventuallyReleased ==
  <>[](VerifyingKey \in DeserializableKeys) =>
    \A id \in TransferId : [](Transfers[id] # NoTransfer => <>(Transfers[id] = NoTransfer))

=============================================================================
