\* The mock runtime of the unit tests with the unendowed whitelisted caller.
CONSTANTS
  StubKey = StubKey
  DummyProof = DummyProof
  EmptyProof = EmptyProof
  Caller = Caller
  BenchKey = BenchKey
  BenchProof = BenchProof
  Accounts <- BenchAccounts
  InitialBalance <- BenchInitialBalance
  ExistentialDeposit <- TestExistentialDeposit
  MaxRecipients <- TestMaxRecipients
  Amounts <- TestAmounts
  RecipientLists <- BenchRecipientLists
  IdBits = 2
  Keys = {BenchKey}
  DeserializableKeys = {}
  Proofs = {BenchProof}
  Verifies = {}
  NoKey = NoKey
  NoTransfer = NoTransfer

INIT BenchInit
NEXT BenchNext

\* The setup script ends after the submit.
CHECK_DEADLOCK FALSE

INVARIANT ClaimBenchmarkSetup
