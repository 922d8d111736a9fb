SPECIFICATION WriterSpec
CONSTANTS
  j1 = j1  j2 = j2  c1 = c1  c2 = c2  w1 = w1  w2 = w2  r1 = r1
  JobId <- MCJobId
  Body <- MCBody
  ClaimId <- MCClaimId
  NoClaim = NoClaim
  NoJob = NoJob
  JobTTL = 3
  Retention = 1
  RoomJobBytes = 3
  RoomJobLimit = 2
  RoomReceiptLimit = 2
  MaxClock = 6
  Writer <- MCWriter
  NoWriter = NoWriter
  OwnerBody <- MCOwnerBody
  Grant <- MCGrant
  GrantLifetime = 4
  GrantLimit = 1
  Never = Never
SYMMETRY Symmetric
INVARIANTS SingleStart CiphertextLifetime RoomBounds ReceiptOnRecord ReportsOfGrants
PROPERTIES AcceptedUntilFinished StartsInsideSchedule StartsWithinGrant
CHECK_DEADLOCK FALSE
