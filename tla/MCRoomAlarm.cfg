SPECIFICATION FairSpec
CONSTANTS
  desk = desk  laptop = laptop
  Recipient <- MCRecipient
  None = None
  Limit = 1
  TTL = 2
  Interval = 1
  MaxTries = 2
  WakeLives = {2}
  OfferEvery = 1
  Starts = {1}
  JobLives = {2}
  Keep = 1
  MaxEvictions = 1
INVARIANTS AlarmComposed
PROPERTIES ExpiredRecordsRemoved DueWakeServed
