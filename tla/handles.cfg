\* Two frames at a time on two files, durable or not: detach, expiry,
\* replacement, reclaim, supersession, teardown.
SPECIFICATION Spec
CONSTANTS
    c1 = c1  c2 = c2  s1 = s1  s2 = s2  u = u
    Conns <- MCConns
    Sessions <- MCSessions
    HostOf <- MCHostOf
    UserOf <- MCUserOf
    Workers = {w1, w2}
    Trees = {t1}
    Opens = {o1, o2}
    Dirs = {}
    Keys = {k1}
    MaxOpens = 2
    None = None
INVARIANTS
    OneOwner NoUseAfterClose DurableEntriesMatchHandles GoneHoldsNothing
SYMMETRY MCSymmetry
CONSTRAINT UntilUnlocked
