SPECIFICATION WorkerFairSpec
CONSTANTS
  p = p  m1 = m1  m2 = m2  k1 = k1  k2 = k2  kp = kp
  d1 = d1  d2 = d2  d3 = d3  o1 = o1  o2 = o2
  NoId = NoId  NoKey = NoKey  NoExpiry = NoExpiry  NoRole = NoRole
  Device <- MCDevice
  DeliveryId <- MCDeliveryId
  DurableId <- MCDurableId
  Envelope <- MCEnvelope
  Sends <- MCSends
  KeyOf <- MCKeyOf
  Announces <- MCAnnounces
  Control <- MCControl
  SmallBytes = 2
  LargeFrame = 2
  LargeBytes = 2
  HoldLimit = 2
  DefaultTTL = 3
  MaxClock = 1
  MaxArrivals = 2
  MaxFaults = 1
INVARIANTS ArrayBounds
PROPERTIES ImplementsSubmissions EventuallyDelivered
CHECK_DEADLOCK FALSE
