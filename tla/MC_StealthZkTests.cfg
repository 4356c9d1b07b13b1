\* The mock runtime of the unit tests, no key accepting any proof.
CONSTANTS
  StubKey = StubKey
  DummyProof = DummyProof
  EmptyProof = EmptyProof
  Accounts <- TestAccounts
  InitialBalance <- TestInitialBalance
  ExistentialDeposit <- TestExistentialDeposit
  MaxRecipients <- TestMaxRecipients
  Amounts <- TestAmounts
  RecipientLists <- TestRecipientLists
  IdBits = 2
  Keys <- TestKeys
  DeserializableKeys = {}
  Proofs <- TestProofs
  Verifies = {}
  NoKey = NoKey
  NoTransfer = NoTransfer

SPECIFICATION Spec

INVARIANT SubmitAndClaimFlow
