\* One watch and one lock; one pending lock at a time in the process.
SPECIFICATION FairSpec
CONSTANTS
    n1 = n1  l1 = l1  d = d  f = f
    Requests <- MCRequests
    Handles <- MCHandles
    Directories = {d}
    TargetOf <- MCTargetOf
    MaxPreCancelled = 2
    MaxPendingLockWaits = 1
    None = None
INVARIANTS
    OneFinalAnswer WaitersReachable
PROPERTIES
    NoCloseUnderRetry NoWaiterOutlivesConn LockIsAnswered
