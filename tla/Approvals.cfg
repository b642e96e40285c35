SPECIFICATION FairSpec
CONSTANTS
  NAccounts = 1
  NBuckets = 1
  MaxTotal = 3
  NUsers = 5
  Membership <- Departments
  NRules = 4
  Catalogue <- Chains
  Company = "company"
  NRequests = 1
  Kind <- Allocations
  Amounts = {1, 2, 3}
  MaxDecisions = 9
  NBills = 0
  NDeposits = 1
  DepositAmounts = {3}
  References = {"ref"}
  InitialRules = {1, 2, 3, 4}
  EditableRules = {}
  Quantities = {1, 2, 3}
INVARIANTS
  DecisionsInOrder
  AlertsCurrent
PROPERTIES
  RequestsDecided
