\* Two frames on a pool of two, a queue of one frame and three bytes.
SPECIFICATION FairSpec
CONSTANTS
    s1 = s1  s2 = s2
    FrameCount = 2
    Inbound <- MCInbound
    Sessions = {s1, s2}
    NoSession = NoSession
    ConnWorkers = 2
    WriteQueueDepth = 1
    WriteQueueBytes = 3
INVARIANTS
    BacklogBounded OwedAnswersDelivered ChainClosesItsHandle AnswersStaySealed
PROPERTY ConnectionIsTornDown
CHECK_DEADLOCK FALSE
