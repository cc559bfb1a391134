\* Two sessions on one connection, every policy, with and without a worker.
SPECIFICATION Spec
CONSTANTS
    alice = alice  root = root
    Sessions = {s1, s2}
    Workers = {w1, w2}
    Users = {alice, root}
    UidOf <- MCUidOf
    Guest = Guest
    Offers <- MCOffers
    MaxHalfOpen = 2
    None = None
INVARIANTS
    KeysAgree ConformingClientServed ServedAsOwner
SYMMETRY MCSymmetry
