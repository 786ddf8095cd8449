SPECIFICATION Spec
CONSTANTS
    p1 = p1
    p2 = p2
    p3 = p3
    a = a
    b = b
    None = None
    Peers = {p1, p2, p3}
    Ips = {a, b}
    IpOf <- MCIpOf
    Forceable = {p1}
    Assignable = {p3}
    Rtts = {1, 2, 3}
    Budget = 1
    RecentCap = 2
    MaxFails = 2
    MaxCount = 3
    Rest = 1
    StayedUp = 1
INVARIANTS TypeOK RingSound
PROPERTIES RestsForOwnFailures ProvenOrLeft
CHECK_DEADLOCK FALSE
