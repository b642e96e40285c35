SPECIFICATION EmailSpec
CONSTANTS
  NAccounts = 2
  NBuckets = 0
  MaxTotal = 1
  NUsers = 1
  Membership <- OneFinance
  NDeposits = 2
  DepositAmounts = {1}
  References = {"t1", "t2"}
  NMessages = 1
  NSamples = 0
  Alert <- ZeroAlert
  AccountKey <- Keys
  AccountBank <- Banks
  Workers = {w1, w2}
INVARIANTS
  EveryEmailRecorded
CHECK_DEADLOCK FALSE
