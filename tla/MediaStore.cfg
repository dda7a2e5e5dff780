SPECIFICATION MediaSpec
CONSTANTS
  Delivery = {d1, d2}
  Retention = 2
  CopyTimeout = 1
  SweepTime = 1
  MaxCrashes = 2
INVARIANT AcceptedMediaIsThere
PROPERTY ExpiredIsRemoved
