SPECIFICATION Spec
CONSTANTS
  Nobody = Nobody
  None = None
  payer = payer
  requester = requester
  Users = {payer, requester}
  Clients = {c1, c2}
  Caller <- MCCaller
  Requests = {1, 2}
  Requester <- MCRequester
  Payer <- MCPayer
  Amount <- MCAmount
  Opening <- MCOpening
  Keys = {1, 2}
  Bannable = {requester}
  MaxFailures = 2
  Lockout = 1
  Expiry = 1
  LastTick = 2
SYMMETRY MCDevices
INVARIANTS
  TypeOK
  PaidOnceIffAccepted
  PinFailuresCounted
  WrongPinsPaced
CHECK_DEADLOCK FALSE
