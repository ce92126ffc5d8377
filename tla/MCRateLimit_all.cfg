\* Three IPs, a map of two, two requests in flight.
CONSTANTS
    IPs = {i1, i2, i3}
    Requests = {r1, r2}
    Window = 4
    Second = 2
    RateLimitCapacity = 3
    RateLimitMaxIPs = 2
    NoIP = NoIP
SPECIFICATION FairSpec
INVARIANTS TypeOK GuessesBounded RefusalsAreHonest
PROPERTIES StalestGoesFirst LockoutEnds
