SPECIFICATION Spec
CONSTANTS
  NAccounts = 1
  NBuckets = 2
  MaxTotal = 2
  NUsers = 2
  Membership <- WithoutAdmin
  NRules = 1
  Catalogue <- GMOnly
  Company = "company"
  NRequests = 3
  Kind <- OneOfEach
  Amounts = {1}
  MaxDecisions = 4
  NBills = 1
  NDeposits = 1
  DepositAmounts = {2}
  References = {"ref"}
  InitialRules = {1}
  EditableRules = {}
  Quantities = {1, 2}
INVARIANTS
  LedgerMatchesDocuments
  BucketsSolvent
PROPERTIES
  ImplementsTreasury
CHECK_DEADLOCK FALSE
