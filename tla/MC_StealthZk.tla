---------------------------- MODULE MC_StealthZk ----------------------------
(***************************************************************************)
(* Small instance of StealthZk.  a1 exists with 4, a2 with 2, the          *)
(* existential deposit is 2: withdrawals can leave dust, a share of 1 to  *)
(* an account that does not exist is below it.  Ids are 2 bits wide, so    *)
(* the IdOverflow guard is reached after three stored transfers.           *)
(***************************************************************************)
EXTENDS StealthZk, TLC

CONSTANTS a1, a2, k1, k2, pf1, pf2

MCAccounts == {a1, a2}
MCInitialBalance == (a1 :> 4) @@ (a2 :> 2)
MCKeys == {k1, k2}
MCProofs == {pf1, pf2}
MCVerifies == {<<k1, pf1>>}

\* Every list up to one recipient past the bound, so that the bound check
\* of submit is exercised.
MCRecipientLists == BoundedSeq(MCAccounts, MaxRecipients + 1)

=============================================================================
