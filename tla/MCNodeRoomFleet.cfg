SPECIFICATION FairSpec
CONSTANTS
  p = p  m1 = m1  m2 = m2  k1 = k1  k2 = k2
  d1 = d1  d2 = d2  o1 = o1
  NoId = NoId  NoKey = NoKey  NoExpiry = NoExpiry  NoRole = NoRole
  Device <- MCDevice
  DeliveryId <- MCDeliveryId
  DurableId <- MCDurableId
  Envelope <- MCEnvelope
  Sends <- MCSends
  KeyOf <- MCKeyOf
  Announces <- MCAnnounces
  Control <- MCControl
  SmallBytes = 2
  LargeFrame = 4
  LargeBytes = 4
  HoldLimit = 2
  DefaultTTL = 1
  MaxClock = 0
  MaxArrivals = 2
  MaxFaults = 1
INVARIANTS AddresseeOnly
PROPERTY EventuallyDelivered
CHECK_DEADLOCK FALSE
