------------------------ MODULE AsyncRequestsProofs ------------------------
(***************************************************************************)
(* What the asynchronous requests of a connection promise, for every set   *)
(* of requests and handles and every value of the two limits.              *)
(***************************************************************************)
EXTENDS AsyncRequests, FiniteSetTheorems, TLAPS

\* The phases in which a request's frame holds Open.mu.
HoldPhases == {"running", "overCap", "parking", "registered"}

\* The phases before the request is in the table.
EarlyPhases == {"sent", "running", "overCap", "parking"}

\* The phases only a LOCK goes through.
LockPhases == {"overCap", "parking", "subscribe", "retry", "retrying", "select"}

\* The phases from the registration to the end of the wait.
TablePhases == {"registered"} \cup WaitPhases

Ended == {"exiting", "done"}

\* TypeOK without the two counters, whose bounds need the parts below, and with
\* what each kind of request goes through.
Typed ==
    /\ pc \in [Requests -> Phases]
    /\ regs \subseteq Requests /\ cancelled \subseteq Requests
    /\ preCancelled \subseteq Requests
    /\ cancelFrame \in [Requests -> {"none", "sent", "done"}]
    /\ owned \subseteq Handles /\ batch \subseteq Handles
    /\ fd \in [Handles -> {"open", "closed", "nil"}]
    /\ mu \in [Handles -> Requests \cup {Closer, None}]
    /\ disconnect \in {"none", "taken", "releasing", "done"}
    /\ conn \in {"serving", "draining", "cancelled", "flushed", "releasing", "closed"}
    /\ \A r \in Requests : pc[r] \in LockPhases => r \in Locks
    /\ \A r \in Requests : pc[r] \in {"watching", "draining"} => r \in Notifies
    /\ woken \subseteq Locks

\* A frame runs only until the pool is drained.
FramesDrained ==
    \A r \in Requests : pc[r] \in FramePhases => conn \in {"serving", "draining"}

\* Open.mu is with the frames that need it, and no retry runs under it.
MuHeld ==
    /\ \A r \in Requests : pc[r] \in HoldPhases => mu[TargetOf[r]] = r
    /\ \A r \in Requests : pc[r] = "retrying" => mu[TargetOf[r]] = None

\* What has been sent agrees with how far the request is.
Answers ==
    /\ out \in [Requests -> Seq(Statuses)]
    /\ \A r \in Requests :
          /\ pc[r] \in {"idle"} \cup FramePhases => out[r] = <<>>
          /\ pc[r] \in WaitPhases => out[r] = Interim
          /\ pc[r] \in Ended => out[r] \in {Interim, <<"FINAL">>, Interim \o <<"FINAL">>}

\* A waiting request is in the table, or its cancel channel is closed already.
Registered ==
    /\ \A r \in Requests : pc[r] \in TablePhases => r \in regs \cup cancelled
    /\ \A r \in Requests : pc[r] \in {"idle"} \cup EarlyPhases => r \notin regs

\* CLOSE has taken the handle, or the teardown is past cancelAllNotifies.
Taken(h) == mu[h] = Closer \/ fd[h] = "closed" \/ conn \notin {"serving", "draining"}

\* Whoever still waits on such a handle has been told, and no frame can park
\* another request on it.
TakenIsCancelled ==
    /\ \A r \in Requests :
          Taken(TargetOf[r]) /\ pc[r] \in TablePhases \cup HoldPhases => r \in cancelled
    /\ \A h \in Handles : mu[h] = Closer \/ fd[h] = "closed" => h \notin owned
    /\ conn \in {"releasing", "closed"} => owned = {}

Inv ==
    /\ Typed /\ FramesDrained /\ MuHeld /\ Answers /\ Registered
    /\ TakenIsCancelled

-----------------------------------------------------------------------------
(* What the helpers do.                                                    *)

\* The answers a request goes through.
LEMMA AnswerSeqs ==
    /\ Append(<<>>, "PENDING") = Interim
    /\ Append(<<>>, "FINAL") = <<"FINAL">>
    /\ Append(Interim, "FINAL") = Interim \o <<"FINAL">>
  BY DEF Interim

\* reply changes what was sent for one request only.
LEMMA ReplyTo ==
    ASSUME out \in [Requests -> Seq(Statuses)], NEW r \in Requests,
           NEW s \in Statuses, reply(r, s)
    PROVE  /\ out' \in [Requests -> Seq(Statuses)]
           /\ \A q \in Requests \ {r} : out'[q] = out[q]
           /\ out'[r] \in {out[r], Append(out[r], s)}
           /\ conn \in {"serving", "draining"} => out'[r] = Append(out[r], s)
  BY DEF reply


\* A frame that answers, or one that parks its request, or the end of a wait.
LEMMA ReplyKeepsAnswers ==
    ASSUME Typed, FramesDrained, Answers, NEW r \in Requests,
           \A q \in Requests \ {r} : pc'[q] = pc[q],
           \/ /\ reply(r, "FINAL") /\ pc[r] \in FramePhases \cup WaitPhases
              /\ pc'[r] \in Ended
           \/ reply(r, "PENDING") /\ pc[r] = "registered" /\ pc'[r] \in WaitPhases
    PROVE  Answers'
<1> USE DEF FramePhases, WaitPhases, Ended
<1>1. /\ out' \in [Requests -> Seq(Statuses)]
      /\ \A q \in Requests \ {r} : out'[q] = out[q]
  BY ReplyTo DEF Answers, Statuses
<1>2. CASE reply(r, "FINAL") /\ pc[r] \in FramePhases /\ pc'[r] \in Ended
  <2>1. out'[r] = <<"FINAL">>
    BY <1>2, ReplyTo, AnswerSeqs DEF Answers, FramesDrained, Statuses
  <2> QED BY <1>1, <1>2, <2>1 DEF Answers
<1>3. CASE reply(r, "FINAL") /\ pc[r] \in WaitPhases /\ pc'[r] \in Ended
  <2>1. out'[r] \in {Interim, Interim \o <<"FINAL">>}
    BY <1>3, ReplyTo, AnswerSeqs DEF Answers, Statuses
  <2> QED BY <1>1, <1>3, <2>1 DEF Answers
<1>4. CASE reply(r, "PENDING") /\ pc[r] = "registered" /\ pc'[r] \in WaitPhases
  <2>1. out'[r] = Interim
    BY <1>4, ReplyTo, AnswerSeqs DEF Answers, FramesDrained, Statuses
  <2> QED BY <1>1, <1>4, <2>1 DEF Answers
<1> QED BY <1>2, <1>3, <1>4

\* The end of a wait: the final status goes out and nothing else moves.
LEMMA FinishKeeps ==
    ASSUME Inv, NEW r \in Requests, pc[r] \in WaitPhases, finish(r),
           UNCHANGED <<tableVars, cancelFrame, pendingLockWaits, woken, handleVars,
                       endVars>>
    PROVE  Inv'
<1> USE DEF Inv, Phases, FramePhases, WaitPhases, HoldPhases, EarlyPhases,
            LockPhases, TablePhases, Ended, tableVars, handleVars, endVars
<1>1. /\ pc'[r] = "exiting" /\ pc' \in [Requests -> Phases] /\ reply(r, "FINAL")
      /\ \A q \in Requests \ {r} : pc'[q] = pc[q]
  BY DEF finish, Typed
<1>2. Typed' /\ FramesDrained' /\ MuHeld' /\ Registered' /\ TakenIsCancelled'
  BY <1>1, AsyncConstants DEF Typed, FramesDrained, MuHeld, Registered,
     TakenIsCancelled, Taken, Locks, Notifies
<1>3. Answers'
  BY <1>1, ReplyKeepsAnswers
<1> QED BY <1>2, <1>3

-----------------------------------------------------------------------------
(* The invariant is inductive.                                             *)

LEMMA InitInv == Init => Inv
  BY AsyncConstants DEF Init, Inv, Typed, FramesDrained, MuHeld, Answers, Registered,
     TakenIsCancelled, Taken, Phases, FramePhases, WaitPhases, HoldPhases, EarlyPhases,
     LockPhases, TablePhases, Ended

\* The frame of the request, on the pool.
LEMMA FrameKeeps ==
    ASSUME Inv, NEW r \in Requests, Send(r) \/ Frame(r)
    PROVE  Inv'
<1> USE AsyncConstants
    DEF Inv, Typed, FramesDrained, MuHeld, Registered, TakenIsCancelled,
        Taken, Phases, FramePhases, WaitPhases, HoldPhases, EarlyPhases, LockPhases,
        TablePhases, Ended, Locks, Notifies, tableVars, handleVars, endVars
<1>1. CASE Send(r)
  BY <1>1 DEF Send, Answers
<1>2. CASE LockHandle(r)
  BY <1>2 DEF LockHandle, Free, Retrying, Answers
<1>3. CASE CountLockWait(r)
  BY <1>3 DEF CountLockWait, Answers
<1>4. CASE Register(r)
  BY <1>4 DEF Register, registerNotify, Answers
<1>5. CASE UnknownHandle(r) \/ AnswerNow(r) \/ RefuseOverCap(r) \/ Park(r)
  <2>1. Answers'
    BY <1>5, ReplyKeepsAnswers DEF UnknownHandle, AnswerNow, RefuseOverCap, Park
  <2>2. CASE UnknownHandle(r)
    BY <2>1, <2>2 DEF UnknownHandle
  <2>3. CASE AnswerNow(r)
    BY <2>1, <2>3 DEF AnswerNow, endFrame
  <2>4. CASE RefuseOverCap(r)
    BY <2>1, <2>4 DEF RefuseOverCap, endFrame
  <2>5. CASE Park(r)
    BY <2>1, <2>5 DEF Park, endFrame
  <2> QED BY <1>5, <2>2, <2>3, <2>4, <2>5
<1> QED BY <1>1, <1>2, <1>3, <1>4, <1>5 DEF Frame

\* The goroutine of the request.
LEMMA GoroutineKeeps ==
    ASSUME Inv, NEW r \in Requests,
           \/ Waiter(r) \/ Event(r) \/ NotifyCancelled(r) \/ WatchStops(r)
           \/ WaitReleased(r) \/ WaitCancelled(r) \/ WaitTimesOut(r)
    PROVE  Inv'
<1>1. CASE \/ DrainEnds(r) \/ NotifyCancelled(r) \/ WatchStops(r) \/ RetryGranted(r)
           \/ RetryFails(r) \/ WaitCancelled(r) \/ WaitTimesOut(r)
  BY <1>1, FinishKeeps DEF DrainEnds, NotifyCancelled, WatchStops, RetryGranted,
     RetryFails, WaitCancelled, WaitTimesOut, WaitPhases
<1> USE AsyncConstants
    DEF Inv, Typed, FramesDrained, MuHeld, Registered, Answers, TakenIsCancelled,
        Taken, Phases, FramePhases, WaitPhases, HoldPhases, EarlyPhases, LockPhases,
        TablePhases, Ended, Locks, Notifies, tableVars, handleVars, endVars
<1>2. CASE Event(r)
  BY <1>2 DEF Event
<1>3. CASE Subscribe(r)
  BY <1>3 DEF Subscribe
<1>4. CASE RetryBegins(r)
  BY <1>4 DEF RetryBegins
<1>5. CASE RetryConflicts(r)
  BY <1>5 DEF RetryConflicts
<1>6. CASE WaitReleased(r)
  BY <1>6 DEF WaitReleased
<1>7. CASE Exit(r)
  BY <1>7 DEF Exit
<1> QED BY <1>1, <1>2, <1>3, <1>4, <1>5, <1>6, <1>7 DEF Waiter

\* SMB2_CANCEL, CLOSE, TREE_DISCONNECT and LOGOFF, and the handles they release.
LEMMA EndingKeeps ==
    ASSUME Inv,
           \/ \E r \in Requests : SendCancel(r) \/ Cancel(r)
           \/ \E h \in Handles : Close(h) \/ CloseFile(h) \/ ReleaseOpen(h)
           \/ Disconnect \/ CancelForDisconnect \/ Disconnected
    PROVE  Inv'
<1> USE AsyncConstants
    DEF Inv, Typed, FramesDrained, MuHeld, Registered, Answers, TakenIsCancelled,
        Taken, Phases, FramePhases, WaitPhases, HoldPhases, EarlyPhases, LockPhases,
        TablePhases, Ended, Locks, Notifies, tableVars, handleVars, endVars
<1>1. ASSUME NEW r \in Requests, SendCancel(r) PROVE Inv'
  BY <1>1 DEF SendCancel
<1>2. ASSUME NEW r \in Requests, Cancel(r) PROVE Inv'
  BY <1>2 DEF Cancel, cancelNotify, cancelRegs
<1>3. ASSUME NEW h \in Handles, Close(h) PROVE Inv'
  BY <1>3 DEF Close, cancelNotifiesForOpens, cancelRegs, Free, Retrying
<1>4. ASSUME NEW h \in Handles, CloseFile(h) PROVE Inv'
  BY <1>4 DEF CloseFile, wakeOrNot, Subscribed
<1>5. ASSUME NEW h \in Handles, ReleaseOpen(h) PROVE Inv'
  BY <1>5 DEF ReleaseOpen, wakeOrNot, Subscribed, Free
<1>6. CASE Disconnect
  BY <1>6 DEF Disconnect
<1>7. CASE CancelForDisconnect
  BY <1>7 DEF CancelForDisconnect, cancelNotifiesForOpens, cancelRegs
<1>8. CASE Disconnected
  BY <1>8 DEF Disconnected
<1> QED BY <1>1, <1>2, <1>3, <1>4, <1>5, <1>6, <1>7, <1>8

\* The teardown of the connection, and what other connections do.
LEMMA TeardownKeeps ==
    ASSUME Inv,
           \/ LoopEnds \/ CancelAllNotifies \/ CloseWriter \/ ReleaseConnOpens
           \/ Closed \/ ReleasedElsewhere \/ OtherParks \/ OtherLeaves
           \/ UNCHANGED vars
    PROVE  Inv'
<1> USE AsyncConstants
    DEF Inv, Typed, FramesDrained, MuHeld, Registered, Answers, TakenIsCancelled,
        Taken, Phases, FramePhases, WaitPhases, HoldPhases, EarlyPhases, LockPhases,
        TablePhases, Ended, Locks, Notifies, tableVars, handleVars, endVars
<1>1. CASE LoopEnds
  BY <1>1 DEF LoopEnds
<1>2. CASE CancelAllNotifies
  BY <1>2 DEF CancelAllNotifies, cancelRegs, drained
<1>3. CASE CloseWriter
  BY <1>3 DEF CloseWriter
<1>4. CASE ReleaseConnOpens
  BY <1>4 DEF ReleaseConnOpens
<1>5. CASE Closed
  BY <1>5 DEF Closed
<1>6. CASE ReleasedElsewhere
  BY <1>6 DEF ReleasedElsewhere, Subscribed
<1>7. CASE OtherParks \/ OtherLeaves
  BY <1>7 DEF OtherParks, OtherLeaves
<1>8. CASE UNCHANGED vars
  BY <1>8 DEF vars
<1> QED BY <1>1, <1>2, <1>3, <1>4, <1>5, <1>6, <1>7, <1>8

LEMMA InvInductive == Inv /\ [Next]_vars => Inv'
  BY FrameKeeps, GoroutineKeeps, EndingKeeps, TeardownKeeps
     DEF Next, Waiter, Frame, Disposal, Terminated

LEMMA Invariance == Spec => []Inv
  BY InitInv, InvInductive, PTL DEF Spec

-----------------------------------------------------------------------------
(* The theorems.                                                           *)

\* A request is answered at most once with STATUS_PENDING and then at most once
\* with a final status, whoever cancels, closes or times out meanwhile, for any
\* number of requests on any number of handles (sendAsync, dispatch.go 523-526).
THEOREM RequestsAnsweredOnce == Spec => []OneFinalAnswer
<1>1. Inv => OneFinalAnswer
  BY DEF Inv, Typed, Answers, OneFinalAnswer, Phases, Ended
<1> QED BY <1>1, Invariance, PTL

\* No CLOSE and no release of a handle closes the descriptor under a retry that
\* holds Open.mu shared (lock.go 316-325).
THEOREM RetriesKeepTheirDescriptor == Spec => NoCloseUnderRetry
<1> DEFINE Step == \A h \in Handles : fd'[h] # fd[h] => ~Retrying(h)
<1>1. Inv /\ [Next]_vars => [Step]_vars
  <2> SUFFICES ASSUME Inv, Next, NEW h \in Handles, fd'[h] # fd[h]
               PROVE  ~Retrying(h)
    BY DEF vars
  <2>1. \E g \in Handles : CloseFile(g) \/ ReleaseOpen(g)
    BY DEF Next, Send, SendCancel, Cancel, Frame, LockHandle, UnknownHandle,
       AnswerNow, CountLockWait, RefuseOverCap, Register, Park, Waiter, DrainEnds,
       Subscribe, RetryBegins, RetryGranted, RetryConflicts, RetryFails, Exit, Event,
       NotifyCancelled, WatchStops, WaitReleased, WaitCancelled, WaitTimesOut, Close,
       ReleasedElsewhere, Disconnect, LoopEnds, Disposal, CancelForDisconnect,
       Disconnected, CancelAllNotifies, CloseWriter, ReleaseConnOpens, Closed,
       OtherParks, OtherLeaves, Terminated, handleVars, vars
  <2>2. CloseFile(h) \/ ReleaseOpen(h)
    BY <2>1 DEF CloseFile, ReleaseOpen, Inv, Typed
  <2>3. CASE CloseFile(h)
    BY <2>3, AsyncConstants DEF CloseFile, Retrying, Inv, MuHeld
  <2>4. CASE ReleaseOpen(h)
    BY <2>4 DEF ReleaseOpen, Free
  <2> QED BY <2>2, <2>3, <2>4
<1> QED BY <1>1, Invariance, PTL DEF Spec, NoCloseUnderRetry

-----------------------------------------------------------------------------
(* The cancel that overtakes its request.  cancelNotify remembers it only  *)
(* while preCancelled has room, and the client may send as many cancels as *)
(* it has requests: a cancel that comes after the answer is remembered too *)
(* and stays.  So the promise needs room for every request of the          *)
(* connection's life.                                                      *)

Room == Cardinality(Requests) <= MaxPreCancelled

\* A cancel that has been handled is remembered until its request registers,
\* and has closed the request's channel from then on.
CancelKept ==
    \A r \in Requests :
        /\ pc[r] = "idle" => cancelFrame[r] = "none"
        /\ cancelFrame[r] = "done" /\ pc[r] \in EarlyPhases => r \in preCancelled
        /\ cancelFrame[r] = "done" /\ pc[r] \in TablePhases => r \in cancelled

\* With room for every request, one that is not remembered yet still fits.
LEMMA RoomForOne ==
    ASSUME Room, NEW P \in SUBSET Requests, NEW r \in Requests \ P
    PROVE  Cardinality(P) < MaxPreCancelled
<1>1. /\ Cardinality(P) \in Nat /\ Cardinality(Requests) \in Nat
      /\ Cardinality(P) < Cardinality(Requests)
  BY AsyncConstants, FS_Subset, FS_CardinalityType
<1> QED BY <1>1, AsyncConstants DEF Room

LEMMA CancelKeptStep ==
    ASSUME Room, Inv, CancelKept, [Next]_vars
    PROVE  CancelKept'
<1> USE DEF Inv, Typed, CancelKept, EarlyPhases, TablePhases, WaitPhases, tableVars
<1>1. ASSUME NEW r \in Requests, Cancel(r) PROVE CancelKept'
  BY <1>1, RoomForOne DEF Cancel, cancelNotify, cancelRegs, Registered
<1>2. ASSUME NEW r \in Requests, Register(r) PROVE CancelKept'
  BY <1>2 DEF Register, registerNotify, Phases
<1>3. ASSUME NEW r \in Requests, Send(r) \/ SendCancel(r) PROVE CancelKept'
  BY <1>3 DEF Send, SendCancel
<1>4. ASSUME NEW r \in Requests,
             \/ LockHandle(r) \/ UnknownHandle(r) \/ AnswerNow(r) \/ CountLockWait(r)
             \/ RefuseOverCap(r) \/ Park(r)
      PROVE  CancelKept'
  BY <1>4 DEF LockHandle, UnknownHandle, AnswerNow, CountLockWait, RefuseOverCap, Park
<1>5. ASSUME NEW r \in Requests,
             \/ Waiter(r) \/ Event(r) \/ NotifyCancelled(r) \/ WatchStops(r)
             \/ WaitReleased(r) \/ WaitCancelled(r) \/ WaitTimesOut(r)
      PROVE  CancelKept'
  BY <1>5 DEF Waiter, DrainEnds, Subscribe, RetryBegins, RetryGranted, RetryConflicts,
     RetryFails, Exit, Event, NotifyCancelled, WatchStops, WaitReleased,
     WaitCancelled, WaitTimesOut, finish
<1>6. ASSUME NEW h \in Handles, Close(h) \/ CloseFile(h) \/ ReleaseOpen(h)
      PROVE  CancelKept'
  BY <1>6 DEF Close, CloseFile, ReleaseOpen, cancelNotifiesForOpens, cancelRegs
<1>7. CASE ReleasedElsewhere \/ Disconnect \/ LoopEnds \/ OtherParks \/ OtherLeaves
  BY <1>7 DEF ReleasedElsewhere, Disconnect, LoopEnds, OtherParks, OtherLeaves
<1>8. CASE Disposal
  BY <1>8 DEF Disposal, CancelForDisconnect, Disconnected, CancelAllNotifies,
     CloseWriter, ReleaseConnOpens, Closed, cancelNotifiesForOpens, cancelRegs
<1>9. CASE UNCHANGED vars
  BY <1>9 DEF vars
<1> QED BY <1>1, <1>2, <1>3, <1>4, <1>5, <1>6, <1>7, <1>8, <1>9
        DEF Next, Frame, Terminated

\* As long as preCancelled has room for every request of the client, whatever is
\* to end a wait reaches it: the cancel that overtook the request, and the close
\* of its handle (registerNotify and cancelNotify, dispatch.go 122-205).
THEOREM WaitersWithinReach == Room => (Spec => []WaitersReachable)
<1> SUFFICES ASSUME Room PROVE Spec => []WaitersReachable
  OBVIOUS
<1>1. Init => CancelKept
  BY DEF Init, CancelKept, EarlyPhases, TablePhases, WaitPhases
<1>2. Inv /\ CancelKept /\ [Next]_vars => CancelKept'
  BY CancelKeptStep
<1>3. Inv /\ CancelKept => WaitersReachable
  BY AsyncConstants DEF Inv, CancelKept, TakenIsCancelled, Taken, TablePhases,
     WaitersReachable, CancelNotLost, NoWaitOnClosedHandle
<1> QED BY <1>1, <1>2, <1>3, Invariance, PTL DEF Spec

\* Without that room the close of the handle is still heard by every waiter.
THEOREM CloseIsHeard == Spec => []NoWaitOnClosedHandle
<1>1. Inv => NoWaitOnClosedHandle
  BY AsyncConstants DEF Inv, TakenIsCancelled, Taken, TablePhases, NoWaitOnClosedHandle
<1> QED BY <1>1, Invariance, PTL

-----------------------------------------------------------------------------
(* The two bounded tables.                                                 *)

CountedLocks == {r \in Locks : pc[r] \in Counted}

\* Those of them that startLockWait is about to refuse.
OverCap == {r \in Locks : pc[r] = "overCap"}

\* The process-wide count is what the parked LOCKs add up to, only those about to
\* be refused are above its limit, and preCancelled stays within its own.
Counts ==
    /\ otherWaits \in Nat
    /\ pendingLockWaits = otherWaits + Cardinality(CountedLocks)
    /\ pendingLockWaits <= MaxPendingLockWaits + Cardinality(OverCap)
    /\ Cardinality(preCancelled) <= MaxPreCancelled

LEMMA CountedFinite ==
    ASSUME Typed
    PROVE  /\ IsFiniteSet(CountedLocks) /\ Cardinality(CountedLocks) \in Nat
           /\ IsFiniteSet(OverCap) /\ Cardinality(OverCap) \in Nat
           /\ IsFiniteSet(preCancelled) /\ Cardinality(preCancelled) \in Nat
<1>1. CountedLocks \subseteq Requests /\ OverCap \subseteq Requests
  BY DEF CountedLocks, OverCap, Locks
<1> QED BY <1>1, AsyncConstants, FS_Subset, FS_CardinalityType DEF Typed

\* A step of one request that is counted, or not, before and after it alike.
LEMMA CountStays ==
    ASSUME Inv, Counts, NEW r \in Requests,
           \A q \in Requests \ {r} : pc'[q] = pc[q],
           r \in Locks => (pc[r] \in Counted <=> pc'[r] \in Counted),
           pc[r] # "overCap" /\ pc'[r] # "overCap",
           UNCHANGED <<pendingLockWaits, otherWaits>>,
           Cardinality(preCancelled') <= MaxPreCancelled
    PROVE  Counts'
<1>1. CountedLocks' = CountedLocks /\ OverCap' = OverCap
  BY DEF Inv, Typed, CountedLocks, OverCap, Locks, Notifies
<1> QED BY <1>1 DEF Counts

\* startLockWait: the LOCK is counted, and may be one too many.
LEMMA CountStarts ==
    ASSUME Inv, Counts, NEW r \in Requests, CountLockWait(r)
    PROVE  Counts'
<1> USE DEF Inv, Typed
<1>1. /\ r \in Locks /\ pc[r] = "running" /\ pendingLockWaits' = pendingLockWaits + 1
      /\ pendingLockWaits + 1 > MaxPendingLockWaits => pc'[r] = "overCap"
      /\ pendingLockWaits + 1 <= MaxPendingLockWaits => pc'[r] = "parking"
      /\ \A q \in Requests \ {r} : pc'[q] = pc[q]
      /\ otherWaits' = otherWaits /\ preCancelled' = preCancelled
  BY AsyncConstants, CountedFinite DEF CountLockWait, Counts, endVars, tableVars
<1>2. Cardinality(CountedLocks') = Cardinality(CountedLocks) + 1
  <2>1. CountedLocks' = CountedLocks \cup {r} /\ r \notin CountedLocks
    BY <1>1, AsyncConstants, CountedFinite DEF CountedLocks, Counted, Locks, Notifies, Counts
  <2> QED BY <2>1, CountedFinite, FS_AddElement
<1>3. CASE pendingLockWaits + 1 > MaxPendingLockWaits
  <2>1. OverCap' = OverCap \cup {r} /\ r \notin OverCap
    BY <1>1, <1>3 DEF OverCap, Locks, Notifies
  <2>2. Cardinality(OverCap') = Cardinality(OverCap) + 1
    BY <2>1, CountedFinite, FS_AddElement
  <2> QED BY <1>1, <1>2, <2>2, CountedFinite, AsyncConstants DEF Counts
<1>4. CASE pendingLockWaits + 1 <= MaxPendingLockWaits
  <2>1. OverCap' = OverCap
    BY <1>1, <1>4 DEF OverCap, Locks, Notifies
  <2> QED BY <1>1, <1>2, <1>4, <2>1, CountedFinite, AsyncConstants DEF Counts
<1> QED BY <1>3, <1>4, CountedFinite, AsyncConstants DEF Counts

\* A LOCK that was one too many is refused, or a parked one is over.
LEMMA CountEnds ==
    ASSUME Inv, Counts, NEW r \in Requests,
           RefuseOverCap(r) \/ (r \in Locks /\ Exit(r))
    PROVE  Counts'
<1> USE DEF Inv, Typed
<1>1. /\ r \in Locks /\ pc[r] \in {"overCap", "exiting"} /\ pc'[r] = "done"
      /\ pendingLockWaits' = pendingLockWaits - 1
      /\ \A q \in Requests \ {r} : pc'[q] = pc[q]
      /\ otherWaits' = otherWaits /\ preCancelled' = preCancelled
  BY DEF RefuseOverCap, Exit, LockPhases, endVars, tableVars
<1>2. Cardinality(CountedLocks') = Cardinality(CountedLocks) - 1
  <2>1. CountedLocks' = CountedLocks \ {r} /\ r \in CountedLocks
    BY <1>1 DEF CountedLocks, Counted, Locks, Notifies
  <2> QED BY <2>1, CountedFinite, FS_RemoveElement
<1>3. /\ Cardinality(OverCap') >= Cardinality(OverCap) - 1
      /\ Cardinality(OverCap') \in Nat
  <2>1. OverCap' = OverCap \ {r}
    BY <1>1 DEF OverCap, Locks, Notifies
  <2>2. Cardinality(OverCap \ {r}) \in {Cardinality(OverCap), Cardinality(OverCap) - 1}
    BY CountedFinite, FS_RemoveElement
  <2>3. Cardinality(OverCap \ {r}) \in Nat
    BY CountedFinite, FS_RemoveElement, FS_CardinalityType
  <2> QED BY <2>1, <2>2, <2>3, CountedFinite
<1> QED BY <1>1, <1>2, <1>3, CountedFinite, AsyncConstants DEF Counts

\* cancelNotify remembers a cancel only while there is room.
LEMMA RememberedWithinLimit ==
    ASSUME Inv, Counts, NEW r \in Requests, cancelNotify(r)
    PROVE  Cardinality(preCancelled') <= MaxPreCancelled
<1>1. Cardinality(preCancelled \cup {r})
        \in {Cardinality(preCancelled), Cardinality(preCancelled) + 1}
  BY CountedFinite, FS_AddElement DEF Inv
<1>2. Cardinality(preCancelled \cup {r}) \in Nat
  BY CountedFinite, FS_AddElement, FS_CardinalityType DEF Inv
<1> QED BY <1>1, <1>2, CountedFinite, AsyncConstants DEF cancelNotify, Counts, Inv

LEMMA CountsStep == ASSUME Inv, Counts, [Next]_vars PROVE Counts'
<1> USE DEF Inv, Counted, tableVars, endVars
<1>1. ASSUME NEW r \in Requests, Cancel(r) PROVE Counts'
  BY <1>1, RememberedWithinLimit DEF Cancel, Counts, CountedLocks, OverCap
<1>2. ASSUME NEW r \in Requests, Register(r) PROVE Counts'
  <2>1. Cardinality(preCancelled') <= MaxPreCancelled
    <3>1. Cardinality(preCancelled \ {r})
            \in {Cardinality(preCancelled), Cardinality(preCancelled) - 1}
      BY CountedFinite, FS_RemoveElement
    <3>2. Cardinality(preCancelled \ {r}) \in Nat
      BY CountedFinite, FS_RemoveElement, FS_CardinalityType
    <3>3. preCancelled' = preCancelled \/ preCancelled' = preCancelled \ {r}
      BY <1>2 DEF Register, registerNotify
    <3>4. Cardinality(preCancelled) \in Nat
      BY CountedFinite
    <3>5. Cardinality(preCancelled \ {r}) <= MaxPreCancelled
      BY <3>1, <3>2, <3>4, AsyncConstants DEF Counts
    <3> QED BY <3>3, <3>5 DEF Counts
  <2> QED BY <1>2, <2>1, CountStays DEF Register, Typed, Locks
<1>3. ASSUME NEW r \in Requests, CountLockWait(r) PROVE Counts'
  BY <1>3, CountStarts
<1>4. ASSUME NEW r \in Requests, RefuseOverCap(r) \/ Exit(r) PROVE Counts'
  <2>1. CASE r \in Locks
    BY <1>4, <2>1, CountEnds
  <2>2. CASE r \notin Locks
    <3>1. Exit(r)
      BY <1>4, <2>2 DEF RefuseOverCap, Typed, LockPhases
    <3> QED BY <3>1, <2>2, CountStays DEF Exit, Counts
  <2> QED BY <2>1, <2>2
<1>5. ASSUME NEW r \in Requests,
             \/ Send(r) \/ LockHandle(r) \/ UnknownHandle(r) \/ AnswerNow(r) \/ Park(r)
             \/ Event(r) \/ DrainEnds(r) \/ NotifyCancelled(r) \/ WatchStops(r)
             \/ Subscribe(r) \/ RetryBegins(r) \/ RetryGranted(r) \/ RetryConflicts(r)
             \/ RetryFails(r) \/ WaitReleased(r) \/ WaitCancelled(r) \/ WaitTimesOut(r)
      PROVE  Counts'
  <2>1. /\ \A q \in Requests \ {r} : pc'[q] = pc[q]
        /\ pc[r] # "overCap" /\ pc'[r] # "overCap"
        /\ r \in Locks => (pc[r] \in Counted <=> pc'[r] \in Counted)
    BY <1>5 DEF Send, LockHandle, UnknownHandle, AnswerNow, Park, Event, DrainEnds,
       NotifyCancelled, WatchStops, Subscribe, RetryBegins, RetryGranted,
       RetryConflicts, RetryFails, WaitReleased, WaitCancelled, WaitTimesOut, finish,
       Phases, FramePhases, WaitPhases, Typed, Locks
  <2>2. UNCHANGED <<pendingLockWaits, otherWaits, preCancelled>>
    BY <1>5 DEF Send, LockHandle, UnknownHandle, AnswerNow, Park, Event, DrainEnds,
       NotifyCancelled, WatchStops, Subscribe, RetryBegins, RetryGranted,
       RetryConflicts, RetryFails, WaitReleased, WaitCancelled, WaitTimesOut
  <2> QED BY <2>1, <2>2, CountStays DEF Counts
<1>6. CASE OtherParks \/ OtherLeaves
  <2>1. CountedLocks' = CountedLocks /\ OverCap' = OverCap
    BY <1>6 DEF OtherParks, OtherLeaves, CountedLocks, OverCap
  <2> QED BY <1>6, <2>1, CountedFinite, AsyncConstants
          DEF OtherParks, OtherLeaves, Counts
<1>7. CASE \/ \E r \in Requests : SendCancel(r)
           \/ \E h \in Handles : Close(h) \/ CloseFile(h) \/ ReleaseOpen(h)
           \/ ReleasedElsewhere \/ Disconnect \/ LoopEnds \/ Disposal
           \/ UNCHANGED vars
  <2>1. UNCHANGED <<pc, pendingLockWaits, otherWaits, preCancelled>>
    BY <1>7 DEF SendCancel, Close, CloseFile, ReleaseOpen, ReleasedElsewhere,
       Disconnect, LoopEnds, Disposal, CancelForDisconnect, Disconnected,
       CancelAllNotifies, CloseWriter, ReleaseConnOpens, Closed, vars
  <2> QED BY <2>1 DEF Counts, CountedLocks, OverCap
<1> QED BY <1>1, <1>2, <1>3, <1>4, <1>5, <1>6, <1>7
        DEF Next, Frame, Waiter, Terminated

LEMMA CountsInvariance == Spec => []Counts
<1>1. Init => Counts
  <2> SUFFICES ASSUME Init PROVE Counts
    OBVIOUS
  <2>1. CountedLocks = {} /\ OverCap = {}
    BY DEF Init, CountedLocks, OverCap, Counted, Locks
  <2> QED BY <2>1, FS_EmptySet, AsyncConstants DEF Init, Counts
<1>2. Inv /\ Counts /\ [Next]_vars => Counts'
  BY CountsStep
<1> QED BY <1>1, <1>2, Invariance, PTL DEF Spec

\* The variables of the asynchronous requests keep their types: in particular the
\* process-wide count never goes below zero and preCancelled never grows past
\* maxPreCancelled.
THEOREM TypeCorrect == Spec => []TypeOK
<1>1. Inv /\ Counts => TypeOK
  <2> SUFFICES ASSUME Inv, Counts PROVE TypeOK
    OBVIOUS
  <2>1. pendingLockWaits \in Nat
    BY CountedFinite DEF Counts, Inv
  <2> QED BY <2>1 DEF Inv, Typed, Answers, Counts, TypeOK
<1> QED BY <1>1, Invariance, CountsInvariance, PTL

\* startLockWait counts before it compares, so the count itself may pass the
\* limit for a moment; the LOCKs that really park, on this connection and on the
\* others, never do (lock.go 279-298).
LockWaitsBounded ==
    otherWaits + Cardinality(CountedLocks) - Cardinality(OverCap) <= MaxPendingLockWaits

\* Parked LOCKs never exceed the process-wide limit.
THEOREM ParkedLocksBounded == Spec => []LockWaitsBounded
<1>1. Inv /\ Counts => LockWaitsBounded
  BY CountedFinite, AsyncConstants DEF Inv, Counts, LockWaitsBounded
<1> QED BY <1>1, Invariance, CountsInvariance, PTL
=============================================================================
