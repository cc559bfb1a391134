\* Three handles on one file, none durable: the waits, the wakes, the cap.
SPECIFICATION FairSpec
CONSTANTS
    o1 = o1  o2 = o2  o3 = o3  c1 = c1  c2 = c2
    Opens <- MCOpens
    Conns <- MCConns
    ConnOf <- MCConnOf
    Files = {f1}
    Requests <- ThreeRequests
    DurableOpens = {}
    MaxSharingWaits = 1
    NoKey = NoKey
INVARIANTS
    TypeOK WaitersAccounted ParkingBounded
PROPERTY CreateIsAnswered
