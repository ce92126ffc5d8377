\* Two requests pass the check before either records.
CONSTANTS
    IPs = {i1}
    Requests = {r1, r2}
    Window = 4
    Second = 2
    RateLimitCapacity = 2
    RateLimitMaxIPs = 1
    NoIP = NoIP
SPECIFICATION Spec
INVARIANT SixthIsRefused
