SPECIFICATION Spec
CONSTANTS
  NAccounts = 1
  NBuckets = 2
  MaxTotal = 1
  NUsers = 1
  Membership <- Chief
  NRules = 1
  Catalogue <- GMOnly
  Company = "company"
  NRequests = 3
  Kind <- OneOfEach
  Amounts = {1}
  MaxDecisions = 2
  NBills = 2
  NDeposits = 1
  DepositAmounts = {1}
  References = {"ref"}
  InitialRules = {1}
  EditableRules = {}
  Quantities = {1}
INVARIANTS
  TransferHoldsCovered
  SpentIsPostedBills
  MoneyConserved
PROPERTIES
  ImplementsTreasury
