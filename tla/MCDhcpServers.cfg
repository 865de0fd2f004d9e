\* Two servers that answer at once, and no faults.
SPECIFICATION DhcpFairSpec
CONSTANTS
    Address = {a1, a2}
    NoAddr = zero
    Server = {s1, s2}
    NoServer = none
    RetryPeriod = 2
    SecTicks = 1
    LeaseSeconds = 2
    QueueCap = 2
    Faults = 0
PROPERTY GetsAddress
