SPECIFICATION Spec
CONSTANTS
  NAccounts = 1
  NBuckets = 1
  MaxTotal = 2
  NUsers = 2
  Membership <- RequesterAndChief
  NRules = 1
  Catalogue <- GMOnly
  Company = "company"
  NRequests = 2
  Kind <- Requisitions
  Amounts = {1, 2}
  MaxDecisions = 9
  NBills = 2
  NDeposits = 1
  DepositAmounts = {2}
  References = {"ref"}
  InitialRules = {1}
  EditableRules = {}
  Quantities = {1, 2}
INVARIANTS
  RequisitionHoldsCovered
  BilledWithinApproved
  DashboardAgrees
