SPECIFICATION FairSpec
CONSTANTS
    src = src
    dst = dst
    twin = twin
    late = late
    one = one
    two = two
    fileA = fileA
    fileB = fileB
    fileC = fileC
    None = None
    Opens = {src, dst, twin, late}
    Fds = {1, 2, 3}
    Keys = {k1, k2}
    SessOf <- MCSessOf
    FileOf <- MCFileOf
    Grants <- MCGrants
    Contents <- MCContents
    Early <- MCEarly
    Closing <- MCEarly
    Requests <- MCRequests
    MaxInt = 5
    MaxCount = 2
    MaxChunk = 2
    MaxTotal = 3
    CopyBuf = 1
    MaxEdits = 1
    MaxCopies = 1
INVARIANTS
    KeysNameLiveHandles
    AnswerDescribesTarget
    AllOrNothing
PROPERTIES
    CopyIsAnswered
CHECK_DEADLOCK FALSE
