SPECIFICATION Spec
CONSTANTS
  NAccounts = 1
  NBuckets = 1
  MaxTotal = 3
  NUsers = 2
  Membership <- WithoutAdmin
  NRules = 0
  Catalogue <- NoRules
  Company = "company"
  NRequests = 2
  Kind <- Requisitions
  Amounts = {1, 2}
  MaxDecisions = 9
  NBills = 1
  NDeposits = 1
  DepositAmounts = {2}
  References = {"ref"}
  InitialRules = {}
  EditableRules = {}
  Quantities = {1, 2}
INVARIANTS
  ReservationsUsable
CHECK_DEADLOCK FALSE
