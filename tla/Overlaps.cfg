SPECIFICATION TxSpec
CONSTANTS
  NAccounts = 1
  NBuckets = 1
  MaxTotal = 2
  NUsers = 1
  Membership <- Everything
  NRules = 1
  Catalogue <- GMOnly
  Company = "company"
  NRequests = 3
  Kind <- TwoAndOne
  Amounts = {1}
  MaxDecisions = 1
  NBills = 1
  NDeposits = 1
  DepositAmounts = {1}
  References = {"ref"}
  InitialRules = {1}
  EditableRules = {}
  MaxOverlap = 1
INVARIANTS
  AccountsSolvent
PROPERTIES
  ActsAtomically
CHECK_DEADLOCK FALSE
