SPECIFICATION OverdraftSpec
CONSTANTS
  HoldIds = {1, 2, 3}
  Accounts <- MCAccounts
  Pending = 0
  Sender <- MCSender
  Receiver <- MCReceiver
  Amount <- MCAmount
  Opening <- MCOpening
  MaxAttempts = 2
  Pools = {4, 5}
  Sponsor <- MCSponsor
  Deposits = {2}
  Offers <- MCOffers
  Payments <- MCPayments
  MaxDraw = 3
  LienBasisPoints = 5000
INVARIANTS
  OverdraftTypeOK
  PoolSolvent
  OldestLoanFirst
  DrawsWithinGrant
PROPERTIES
  BorrowerKeepsHalf
CHECK_DEADLOCK FALSE
