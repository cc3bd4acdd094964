SPECIFICATION FairSpec
CONSTANTS
  None = None
  Events = {1, 2}
  Relays = {r1, r2}
  Workers = {w1, w2}
  BatchSize = 2
  MaxAttempts = 2
  MaxFaults = 1
INVARIANTS
  DeliveryTypeOK
  PublishedNeverLost
PROPERTIES
  ProcessedMeansNotified
  EventsHandled
CHECK_DEADLOCK FALSE
