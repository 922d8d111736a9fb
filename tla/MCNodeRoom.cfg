SPECIFICATION Spec
CONSTANTS
  p = p  m = m  k = k  k2 = k2  kp = kp
  d1 = d1  d2 = d2  d3 = d3  d4 = d4  o1 = o1  o2 = o2  r1 = r1
  NoId = NoId  NoKey = NoKey  NoExpiry = NoExpiry  NoRole = NoRole
  Device <- MCDevice
  DeliveryId <- MCDeliveryId
  DurableId <- MCDurableId
  Envelope <- MCEnvelope
  Sends <- MCSends
  KeyOf <- MCKeyOf
  Announces <- MCAnnounces
  Control <- MCControl
  SmallBytes = 2
  LargeFrame = 4
  LargeBytes = 4
  HoldLimit = 2
  DefaultTTL = 2
  MaxClock = 1
  MaxArrivals = 3
  MaxFaults = 1
INVARIANTS ReceiptDurability MailboxBounds OneRowPerDelivery
PROPERTY ImplementsSubmissions
CHECK_DEADLOCK FALSE
