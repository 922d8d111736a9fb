SPECIFICATION FairSpec
CONSTANTS
  computer = computer  phone = phone
  device = device  key = key  sender = sender
  NoTicket = NoTicket
  NoId = NoId
  Client <- MCClient
  RoleOf <- MCRoleOf
  TicketRole <- MCTicketRole
  Keyed <- MCKeyed
  Identity <- MCIdentity
  ManagedId <- MCManagedId
  PlainId <- MCPlainId
  Lives = {1, 2}
  MaxRoomSockets = 1
  Base = 1
  MaxBackoff = 2
  Reset = 1
  MaxEntries = 2
  SweepPerStrike = 1
INVARIANTS RoomCapacity LeaseReconnects
PROPERTIES CoolDownServed OnlyLapsedLeasesExpire LapsedSocketsClose
