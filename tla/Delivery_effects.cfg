SPECIFICATION Spec
CONSTANTS
  None = None
  Events = {1, 2}
  Relays = {r1}
  Workers = {w1, w2}
  BatchSize = 2
  MaxAttempts = 2
  MaxFaults = 1
INVARIANTS
  EffectExactlyOnce
CHECK_DEADLOCK FALSE
