SPECIFICATION Spec
CONSTANTS
  NAccounts = 1
  NBuckets = 1
  MaxTotal = 2
  NUsers = 4
  Membership <- Minimal
  NRules = 2
  Catalogue <- Competing
  Company = "company"
  NRequests = 2
  Kind <- Allocations
  Amounts = {1, 2}
  MaxDecisions = 5
  NBills = 0
  NDeposits = 1
  DepositAmounts = {2}
  References = {"ref"}
  InitialRules = {1}
  EditableRules = {1, 2}
  Quantities = {1, 2}
INVARIANTS
  TypeOK
  AllocationHoldsCovered
  AccountsSolvent
  MoneyConserved
  DecisionsRecorded
PROPERTIES
  ImplementsTreasury
