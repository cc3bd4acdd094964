SPECIFICATION FairSpec
CONSTANTS
  None = None
  p1 = p1
  Escrows = {1, 2}
  Accounts = {0, 1, 2}
  EscrowAccount = 0
  Buyer <- MCBuyer
  Seller <- MCSeller
  Price <- MCPrice
  Opening <- MCOpening
  Keys <- MCKeys
  CodeKeys <- MCCodeKeys
  Parcels = {p1}
  MaxCodeAttempts = 2
  MaxAttempts = 2
INVARIANTS
  TypeOK
  EscrowBacked
  TimerTracksOrder
  AnswersStayTrue
  AttemptsCounted
PROPERTIES
  DisputeFreezes
  DeliveredResolves
CHECK_DEADLOCK FALSE
