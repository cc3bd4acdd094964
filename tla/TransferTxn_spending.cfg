SPECIFICATION Spec
CONSTANTS
  c1 = c1
  c2 = c2
  c3 = c3
  ann = ann
  bob = bob
  eve = eve
  Nobody = Nobody
  NoUser = NoUser
  Issuance = 0
  Clients = {c1, c2, c3}
  Users <- MCUsers
  Accounts = {0, 1, 2}
  Keys = {1, 2}
  Command <- MCSpending
  Owner <- MCOwner
  Opening <- MCOpening
  MaxSingle = 3
  DailyLimit = 3
  LastDay = 1
INVARIANTS NoWaitCycle Isolation BalanceIsLedger MoneyConserved NeverOverdrawn DailyLimitHeld
PROPERTIES ClosedAccountsFrozen
