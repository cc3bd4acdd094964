SPECIFICATION Spec
CONSTANTS
  u1 = u1
  u2 = u2
  u3 = u3
  d1 = d1
  w1 = w1
  w2 = w2
  Nobody = Nobody
  HoldIds = {1, 2}
  Accounts <- MCAccounts
  Pending = 0
  Sender <- MCSender
  Receiver <- MCReceiver
  Amount <- MCAmount
  Opening <- MCOpening
  MaxAttempts = 2
  Undoers = {u1}
  Target <- MCTarget
  UndoKey <- MCUndoKey
  Directs = {d1}
  From <- MCFrom
  To <- MCTo
  Pays <- MCPays
  Workers = {w1}
  BatchSize = 2
  MaxCrashes = 0
INVARIANT
  NoMutualWait
