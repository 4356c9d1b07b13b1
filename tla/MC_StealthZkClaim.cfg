CONSTANTS
  a1 = a1
  a2 = a2
  k1 = k1
  k2 = k2
  pf1 = pf1
  pf2 = pf2
  Accounts <- MCAccounts
  InitialBalance <- MCInitialBalance
  ExistentialDeposit = 2
  MaxRecipients = 2
  Amounts = {1, 3}
  RecipientLists <- MCRecipientLists
  IdBits = 2
  Keys <- MCKeys
  DeserializableKeys = {k1}
  Proofs <- MCProofs
  Verifies <- MCVerifies
  NoKey = NoKey
  NoTransfer = NoTransfer

SPECIFICATION Spec

PROPERTY ClaimPaysInFull
