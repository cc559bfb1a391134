\* Teardown and supersession come to an end.
SPECIFICATION FairSpec
CONSTANTS
    c1 = c1  c2 = c2  s1 = s1  s2 = s2  u = u
    Conns <- MCConns
    Sessions <- MCSessions
    HostOf <- MCHostOf
    UserOf <- MCUserOf
    Workers = {w1}
    Trees = {t1}
    Opens = {o1, d1}
    Dirs = {d1}
    Keys = {}
    MaxOpens = 1
    None = None
PROPERTY TeardownCompletes
