\* Two handles, one request at a time on each.
SPECIFICATION Spec
CONSTANTS
    j1 = j1  j2 = j2  h1 = h1  h2 = h2
    Handles <- MCHandles
    Jobs = {j1, j2}
    HandleOf <- OnePerHandle
    Requests <- TwoBytes
    MaxInt = 1
    MaxPerFile = 3
    MaxPerOwner = 2
    TidyClients = TRUE
INVARIANTS
    NoConflictingLocks RequestIsAtomic NoMissedRelease
