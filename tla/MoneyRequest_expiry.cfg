SPECIFICATION WorkerSpec
CONSTANTS
  Nobody = Nobody
  None = None
  payer = payer
  requester = requester
  Users = {payer, requester}
  Clients = {c1}
  Caller <- MCCaller
  Requests = {1}
  Requester <- MCRequester
  Payer <- MCPayer
  Amount <- MCAmount
  Opening <- MCOpening
  Keys = {1}
  Bannable = {requester}
  MaxFailures = 2
  Lockout = 1
  Expiry = 1
  LastTick = 2
PROPERTIES
  RequestsExpire
CHECK_DEADLOCK FALSE
