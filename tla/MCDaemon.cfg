CONSTANTS
    Process = {d1, d2}
    Holder = {h1, h2}
    Source <- MCSource
    Order <- MCOrder
    Ttl = 3
    TicksPerSecond = 2
    MaxFaults = 1
    None = None
SPECIFICATION FairSpec
INVARIANTS LeaseExclusive SoleDeliverer
PROPERTIES EverySourceServed
