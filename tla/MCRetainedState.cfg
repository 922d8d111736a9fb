CONSTANTS
    p = p
    q = q
    catalog = catalog
    grant = grant
    head = head
    other = other
    g = g
    h = h
    None = None
    Frames <- MCFrames
    Recipient <- MCRecipient
    Device = {p, q}
    RoomSlots = 2
    RoomBytes = 3
    FrameBytes = 2
    Ttl = 2
    Lives = {2}
    PresenceLimit = 1
    Runtime = {"node", "worker"}
    MaxTime = 2
    MaxFaults = 2

SPECIFICATION Spec

INVARIANT TornOnlyAfterTwoCuts
INVARIANT RoomLimits
PROPERTY ImplementsStateCache
PROPERTY EvictionOrder

CHECK_DEADLOCK FALSE
