\* The reclaim window: the reservation of a handle being reclaimed is swept.
SPECIFICATION Spec
CONSTANTS
    o1 = o1  o2 = o2  o3 = o3  c1 = c1  c2 = c2
    Opens <- MCOpens
    Conns <- MCConns
    ConnOf <- MCConnOf
    Files = {f1}
    Requests <- TwoRequests
    DurableOpens <- MCOpens
    MaxSharingWaits = 1
    NoKey = NoKey
INVARIANT ReclaimKeepsDenyMode
