\* Two handles on a writable share and one on a read-only one.
SPECIFICATION Spec
CONSTANTS
    file = file  link = link  other = other
    f = f  l = l  i1 = i1  i2 = i2
    None = None
    Handles = {h1, h2, ro}
    ReadOnly = {ro}
    Names = {file, link, other}
    Inodes = {f, l, i1, i2}
    Streams = {"afp", "tags"}
    Afp = "afp"
    Requests <- MCRequests
    FirstDir <- MCFirstDir
    FirstKind <- MCFirstKind
    PointsTo <- MCPointsTo
    MaxOps = 2
INVARIANTS
    LeftOnlyWhenWithdrawn
    PathsFollowHandle
PROPERTIES
    OwnNameOnly
    ReadOnlyShareUnchanged
SYMMETRY MCSymmetry
CHECK_DEADLOCK FALSE
