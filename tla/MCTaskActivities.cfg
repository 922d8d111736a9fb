CONSTANTS
    a1 = a1
    a2 = a2
    t1 = t1
    t2 = t2
    d1 = d1
    d2 = d2
    None = None
    Activities <- MCActivities
    Tokens <- MCTokens
    Deliveries <- MCDeliveries
    Limit = 1
    Ttl = 2
    Gap = 2
    BodyWait = 1
    MaxTime = 2
    MaxUpdates = 2

SPECIFICATION Spec

INVARIANT RegistryAgrees
INVARIANT UpdatesSpaced
INVARIANT RetryNotResent
PROPERTY ChainDrains

CHECK_DEADLOCK FALSE
