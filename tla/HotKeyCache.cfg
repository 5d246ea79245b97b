SPECIFICATION FairSpec
CONSTANTS
    NoKey = NoKey
    Keys = {k1, k2, k3, k4}
    Capacities = {0, 1, 2, 3}
INVARIANTS TypeOK ListIntact IndexExact BoundHolds
PROPERTIES ImplementsLRU EvictionSparesMostRecent EvictionEnds
