--------------------------- MODULE AsyncRequests ---------------------------
(***************************************************************************)
(* The requests a connection parks: CHANGE_NOTIFY and the blocking LOCK.   *)
(*                                                                         *)
(* Each registers in the connection's asyncTable under its MessageId, is   *)
(* answered STATUS_PENDING by the frame that carried it, and is completed  *)
(* later by a goroutine of its own.  An SMB2_CANCEL, the CLOSE of the      *)
(* handle, the TREE_DISCONNECT or LOGOFF that takes it, and the teardown   *)
(* of the connection all end the wait through the table.  Frames run side  *)
(* by side, so any of them may overtake the request it is about.           *)
(*                                                                         *)
(* Whether a lock is free is left open here (module ByteRangeLocks decides *)
(* it): a retry on an open descriptor may succeed or conflict.             *)
(***************************************************************************)
EXTENDS Naturals, FiniteSets, Sequences

CONSTANTS
    Requests,            \* the MessageIds of the parking requests
    Handles,             \* *Open values
    Directories,         \* those CHANGE_NOTIFY watches; the others are files
    TargetOf,            \* the handle a request names
    MaxPreCancelled,     \* maxPreCancelled
    MaxPendingLockWaits, \* maxPendingLockWaits
    None                 \* no holder of Open.mu

\* The parties that can hold Open.mu exclusively beside a request's frame.
Closer == "CLOSE"

ASSUME AsyncConstants ==
    /\ Directories \subseteq Handles
    /\ TargetOf \in [Requests -> Handles]
    /\ MaxPreCancelled \in Nat
    /\ MaxPendingLockWaits \in Nat
    /\ None \notin Requests \cup {Closer} /\ Closer \notin Requests
    /\ IsFiniteSet(Requests)

Notifies == {r \in Requests : TargetOf[r] \in Directories}
Locks == Requests \ Notifies

VARIABLES
    pc,               \* where each request's frame or goroutine stands
    out,              \* the statuses sent for each request
    regs,             \* asyncTable.regs
    cancelled,        \* the requests whose reg.cancel is closed
    preCancelled,     \* asyncTable.preCancelled
    cancelFrame,      \* the SMB2_CANCEL for each request
    pendingLockWaits, \* the process-wide count of parked LOCKs
    otherWaits,       \* how many of them other connections parked
    woken,            \* lock waiters whose released channel has been closed
    owned,            \* the handles in Session.opens
    fd,               \* Open.File: "open", "closed" by CLOSE, "nil" by a release
    mu,               \* who holds Open.mu exclusively
    disconnect,       \* the TREE_DISCONNECT or LOGOFF frame
    batch,            \* the handles it, or the teardown, took
    conn              \* the life of the connection

tableVars == <<regs, cancelled, preCancelled>>
handleVars == <<owned, fd, mu>>
endVars == <<disconnect, batch, conn, otherWaits>>
vars == <<pc, out, tableVars, cancelFrame, pendingLockWaits, woken, handleVars,
          endVars>>

\* A frame is on the pool up to and including "registered"; after that the
\* request belongs to its own goroutine.
FramePhases == {"sent", "running", "overCap", "parking", "registered"}
WaitPhases == {"watching", "draining", "subscribe", "retry", "retrying", "select"}
Phases == FramePhases \cup WaitPhases \cup {"idle", "exiting", "done"}

\* The phases in which a LOCK counts in pendingLockWaits.
Counted == {"overCap", "parking", "registered", "subscribe", "retry", "retrying",
            "select", "exiting"}

\* What a client can hear of a request: the interim STATUS_PENDING, or a final
\* status (which one is not told apart).
Statuses == {"PENDING", "FINAL"}

TypeOK ==
    /\ pc \in [Requests -> Phases]
    /\ out \in [Requests -> Seq(Statuses)]
    /\ regs \subseteq Requests
    /\ cancelled \subseteq Requests
    /\ preCancelled \subseteq Requests
    /\ Cardinality(preCancelled) <= MaxPreCancelled
    /\ cancelFrame \in [Requests -> {"none", "sent", "done"}]
    /\ pendingLockWaits \in Nat /\ otherWaits \in Nat
    /\ woken \subseteq Locks
    /\ owned \subseteq Handles
    /\ fd \in [Handles -> {"open", "closed", "nil"}]
    /\ mu \in [Handles -> Requests \cup {Closer, None}]
    /\ disconnect \in {"none", "taken", "releasing", "done"}
    /\ batch \subseteq Handles
    /\ conn \in {"serving", "draining", "cancelled", "flushed", "releasing", "closed"}

Init ==
    /\ pc = [r \in Requests |-> "idle"]
    /\ out = [r \in Requests |-> <<>>]
    /\ regs = {} /\ cancelled = {} /\ preCancelled = {}
    /\ cancelFrame = [r \in Requests |-> "none"]
    /\ pendingLockWaits = 0 /\ otherWaits = 0
    /\ woken = {}
    /\ owned = Handles
    /\ fd = [h \in Handles |-> "open"]
    /\ mu = [h \in Handles |-> None]
    /\ disconnect = "none" /\ batch = {} /\ conn = "serving"

-----------------------------------------------------------------------------
(* Helpers.                                                                *)

\* sendAsync and respondError: what is sent after the writer closed is lost.
reply(r, s) ==
    out' = IF conn \in {"flushed", "releasing", "closed"}
           THEN out
           ELSE [out EXCEPT ![r] = Append(@, s)]

\* applyLockOps runs under Open.mu held shared.
Retrying(h) == \E r \in Requests : pc[r] = "retrying" /\ TargetOf[r] = h

Free(h) == mu[h] = None /\ ~Retrying(h)

\* Complete a set of registered requests: close the reg.cancel of each.
cancelRegs(S) == cancelled' = cancelled \cup (regs \cap S)

cancelNotifiesForOpens(H) == cancelRegs({r \in Requests : TargetOf[r] \in H})

\* A range disappeared: every subscribed waiter's channel is closed.
Subscribed == {r \in Requests : pc[r] \in {"retry", "retrying", "select"}}

\* The frame is done with the request: release Open.mu.
endFrame(r) == mu' = [mu EXCEPT ![TargetOf[r]] = None]

-----------------------------------------------------------------------------
(* The frame of a CHANGE_NOTIFY or LOCK.                                   *)

Send(r) ==
    /\ conn = "serving" /\ pc[r] = "idle"
    /\ pc' = [pc EXCEPT ![r] = "sent"]
    /\ UNCHANGED <<out, tableVars, cancelFrame, pendingLockWaits, woken,
                   handleVars, endVars>>

\* Dispatch locks the handle for the length of the message.
LockHandle(r) ==
    /\ pc[r] = "sent"
    /\ TargetOf[r] \in owned /\ Free(TargetOf[r])
    /\ mu' = [mu EXCEPT ![TargetOf[r]] = r]
    /\ pc' = [pc EXCEPT ![r] = "running"]
    /\ UNCHANGED <<out, tableVars, cancelFrame, pendingLockWaits, woken, owned,
                   fd, endVars>>

\* The FileID names nothing.
UnknownHandle(r) ==
    /\ pc[r] = "sent"
    /\ TargetOf[r] \notin owned
    /\ reply(r, "FINAL")
    /\ pc' = [pc EXCEPT ![r] = "done"]
    /\ UNCHANGED <<tableVars, cancelFrame, pendingLockWaits, woken, handleVars,
                   endVars>>

\* inotify.New fails, or the LOCK is answered without waiting.
AnswerNow(r) ==
    /\ pc[r] = "running"
    /\ reply(r, "FINAL")
    /\ endFrame(r)
    /\ pc' = [pc EXCEPT ![r] = "done"]
    /\ UNCHANGED <<tableVars, cancelFrame, pendingLockWaits, woken, owned, fd,
                   endVars>>

\* startLockWait: the count goes up before it is compared.
CountLockWait(r) ==
    /\ pc[r] = "running" /\ r \in Locks
    /\ pendingLockWaits' = pendingLockWaits + 1
    /\ pc' = [pc EXCEPT ![r] = IF pendingLockWaits + 1 > MaxPendingLockWaits
                               THEN "overCap" ELSE "parking"]
    /\ UNCHANGED <<out, tableVars, cancelFrame, woken, handleVars, endVars>>

RefuseOverCap(r) ==
    /\ pc[r] = "overCap"
    /\ pendingLockWaits' = pendingLockWaits - 1
    /\ reply(r, "FINAL")
    /\ endFrame(r)
    /\ pc' = [pc EXCEPT ![r] = "done"]
    /\ UNCHANGED <<tableVars, cancelFrame, woken, owned, fd, endVars>>

\* Mutant: a cancel that came first is forgotten.
registerNotify_IgnoresEarlyCancel(r) ==
    /\ preCancelled' = preCancelled \ {r}
    /\ regs' = regs \cup {r}
    /\ UNCHANGED cancelled

\* A cancel that came first is applied at once, and nothing is registered.
registerNotify(r) ==
    IF r \in preCancelled
    THEN /\ preCancelled' = preCancelled \ {r}
         /\ cancelled' = cancelled \cup {r}
         /\ UNCHANGED regs
    ELSE /\ regs' = regs \cup {r}
         /\ UNCHANGED <<preCancelled, cancelled>>

Register(r) ==
    /\ pc[r] = IF r \in Notifies THEN "running" ELSE "parking"
    /\ registerNotify(r)
    /\ pc' = [pc EXCEPT ![r] = "registered"]
    /\ UNCHANGED <<out, cancelFrame, pendingLockWaits, woken, handleVars, endVars>>

\* STATUS_PENDING goes out, the goroutine starts and the frame ends.
Park(r) ==
    /\ pc[r] = "registered"
    /\ reply(r, "PENDING")
    /\ endFrame(r)
    /\ pc' = [pc EXCEPT ![r] = IF r \in Notifies THEN "watching" ELSE "subscribe"]
    /\ UNCHANGED <<tableVars, cancelFrame, pendingLockWaits, woken, owned, fd,
                   endVars>>

-----------------------------------------------------------------------------
(* The goroutine of a CHANGE_NOTIFY.                                       *)

finish(r) ==
    /\ reply(r, "FINAL")
    /\ pc' = [pc EXCEPT ![r] = "exiting"]

\* The first event the filter lets through starts a short drain.
Event(r) ==
    /\ pc[r] = "watching"
    /\ pc' = [pc EXCEPT ![r] = "draining"]
    /\ UNCHANGED <<out, tableVars, cancelFrame, pendingLockWaits, woken,
                   handleVars, endVars>>

\* By the timer, by a cancel or by the end of the watch; what was gathered is
\* sent all the same, or ENUM_DIR if it does not fit.
DrainEnds(r) ==
    /\ pc[r] = "draining"
    /\ finish(r)
    /\ UNCHANGED <<tableVars, cancelFrame, pendingLockWaits, woken, handleVars,
                   endVars>>

\* The cancel channel.
NotifyCancelled(r) ==
    /\ pc[r] = "watching" /\ r \in cancelled
    /\ finish(r)
    /\ UNCHANGED <<tableVars, cancelFrame, pendingLockWaits, woken, handleVars,
                   endVars>>

\* The watch ended by itself.
WatchStops(r) ==
    /\ pc[r] = "watching"
    /\ finish(r)
    /\ UNCHANGED <<tableVars, cancelFrame, pendingLockWaits, woken, handleVars,
                   endVars>>

-----------------------------------------------------------------------------
(* The goroutine of a blocking LOCK: awaitLock.                            *)

\* The release channel is taken before the attempt.
Subscribe(r) ==
    /\ pc[r] = "subscribe"
    /\ woken' = woken \ {r}
    /\ pc' = [pc EXCEPT ![r] = "retry"]
    /\ UNCHANGED <<out, tableVars, cancelFrame, pendingLockWaits, handleVars, endVars>>

\* Mutant: the retry does not take Open.mu.
RetryBegins_NoLock(r) ==
    /\ pc[r] = "retry"
    /\ pc' = [pc EXCEPT ![r] = "retrying"]
    /\ UNCHANGED <<out, tableVars, cancelFrame, pendingLockWaits, woken,
                   handleVars, endVars>>

RetryBegins(r) ==
    /\ pc[r] = "retry"
    /\ mu[TargetOf[r]] = None
    /\ pc' = [pc EXCEPT ![r] = "retrying"]
    /\ UNCHANGED <<out, tableVars, cancelFrame, pendingLockWaits, woken,
                   handleVars, endVars>>

RetryGranted(r) ==
    /\ pc[r] = "retrying" /\ fd[TargetOf[r]] = "open"
    /\ finish(r)
    /\ UNCHANGED <<tableVars, cancelFrame, pendingLockWaits, woken, handleVars,
                   endVars>>

RetryConflicts(r) ==
    /\ pc[r] = "retrying" /\ fd[TargetOf[r]] = "open"
    /\ pc' = [pc EXCEPT ![r] = "select"]
    /\ UNCHANGED <<out, tableVars, cancelFrame, pendingLockWaits, woken,
                   handleVars, endVars>>

\* EBADF from a descriptor that is gone.
RetryFails(r) ==
    /\ pc[r] = "retrying" /\ fd[TargetOf[r]] # "open"
    /\ finish(r)
    /\ UNCHANGED <<tableVars, cancelFrame, pendingLockWaits, woken, handleVars,
                   endVars>>

WaitReleased(r) ==
    /\ pc[r] = "select" /\ r \in woken
    /\ pc' = [pc EXCEPT ![r] = "subscribe"]
    /\ UNCHANGED <<out, tableVars, cancelFrame, pendingLockWaits, woken,
                   handleVars, endVars>>

WaitCancelled(r) ==
    /\ pc[r] = "select" /\ r \in cancelled
    /\ finish(r)
    /\ UNCHANGED <<tableVars, cancelFrame, pendingLockWaits, woken, handleVars,
                   endVars>>

\* Mutant: the timer only makes it try again.
WaitTimesOut_TriesAgain(r) ==
    /\ pc[r] = "select"
    /\ pc' = [pc EXCEPT ![r] = "subscribe"]
    /\ UNCHANGED <<out, tableVars, cancelFrame, pendingLockWaits, woken,
                   handleVars, endVars>>

WaitTimesOut(r) ==
    /\ pc[r] = "select"
    /\ finish(r)
    /\ UNCHANGED <<tableVars, cancelFrame, pendingLockWaits, woken, handleVars,
                   endVars>>

\* The deferred calls: unregisterNotify, then the count.
Exit(r) ==
    /\ pc[r] = "exiting"
    /\ regs' = regs \ {r}
    /\ pendingLockWaits' = IF r \in Locks THEN pendingLockWaits - 1 ELSE pendingLockWaits
    /\ pc' = [pc EXCEPT ![r] = "done"]
    /\ UNCHANGED <<out, cancelled, preCancelled, cancelFrame, woken,
                   handleVars, endVars>>

\* A range of some other handle disappears, on this connection or another.
ReleasedElsewhere ==
    /\ Subscribed \ woken # {}
    /\ woken' = woken \cup Subscribed
    /\ UNCHANGED <<pc, out, tableVars, cancelFrame, pendingLockWaits, handleVars,
                   endVars>>

\* The count is process-wide: other connections take slots and give them back.
OtherParks ==
    /\ pendingLockWaits < MaxPendingLockWaits
    /\ pendingLockWaits' = pendingLockWaits + 1 /\ otherWaits' = otherWaits + 1
    /\ UNCHANGED <<pc, out, tableVars, cancelFrame, woken, handleVars, disconnect,
                   batch, conn>>

OtherLeaves ==
    /\ otherWaits > 0
    /\ pendingLockWaits' = pendingLockWaits - 1 /\ otherWaits' = otherWaits - 1
    /\ UNCHANGED <<pc, out, tableVars, cancelFrame, woken, handleVars, disconnect,
                   batch, conn>>

-----------------------------------------------------------------------------
(* The four ways a wait is ended from outside.                             *)

SendCancel(r) ==
    /\ conn = "serving" /\ pc[r] # "idle" /\ cancelFrame[r] = "none"
    /\ cancelFrame' = [cancelFrame EXCEPT ![r] = "sent"]
    /\ UNCHANGED <<pc, out, tableVars, pendingLockWaits, woken, handleVars, endVars>>

\* A cancel that finds no registration is remembered while there is room.
cancelNotify(r) ==
    /\ cancelRegs({r})
    /\ preCancelled' = IF r \notin regs /\ Cardinality(preCancelled) < MaxPreCancelled
                       THEN preCancelled \cup {r} ELSE preCancelled

\* Mutant: the CANCEL is answered itself.
Cancel_Answers(r) ==
    /\ cancelFrame[r] = "sent"
    /\ cancelNotify(r)
    /\ reply(r, "FINAL")
    /\ cancelFrame' = [cancelFrame EXCEPT ![r] = "done"]
    /\ UNCHANGED <<pc, regs, pendingLockWaits, woken, handleVars, endVars>>

Cancel(r) ==
    /\ cancelFrame[r] = "sent"
    /\ cancelNotify(r)
    /\ cancelFrame' = [cancelFrame EXCEPT ![r] = "done"]
    /\ UNCHANGED <<pc, out, regs, pendingLockWaits, woken, handleVars, endVars>>

\* handleClose, under Open.mu: the handle leaves the session, then the
\* requests registered on it are completed.
Close(h) ==
    /\ conn = "serving" /\ h \in owned /\ Free(h)
    /\ mu' = [mu EXCEPT ![h] = Closer]
    /\ owned' = owned \ {h}
    /\ cancelNotifiesForOpens({h})
    /\ UNCHANGED <<pc, out, regs, preCancelled, cancelFrame, pendingLockWaits,
                   woken, fd, endVars>>

\* Whether the handle held ranges, whose release wakes every waiter.
wakeOrNot == woken' \in {woken, woken \cup Subscribed}

\* releaseAll, File.Close, and the end of the message.
CloseFile(h) ==
    /\ mu[h] = Closer
    /\ fd' = [fd EXCEPT ![h] = "closed"]
    /\ mu' = [mu EXCEPT ![h] = None]
    /\ wakeOrNot
    /\ UNCHANGED <<pc, out, tableVars, cancelFrame, pendingLockWaits, owned, endVars>>

\* TREE_DISCONNECT, LOGOFF or a superseding session: the handles leave the map.
Disconnect ==
    /\ conn = "serving" /\ disconnect = "none" /\ owned # {}
    /\ batch' = owned /\ owned' = {}
    /\ disconnect' = "taken"
    /\ UNCHANGED <<pc, out, tableVars, cancelFrame, pendingLockWaits, woken, fd,
                   mu, conn, otherWaits>>

\* releaseOpens completes the requests first, without Open.mu.
CancelForDisconnect ==
    /\ disconnect = "taken"
    /\ cancelNotifiesForOpens(batch)
    /\ disconnect' = "releasing"
    /\ UNCHANGED <<pc, out, regs, preCancelled, cancelFrame, pendingLockWaits,
                   woken, handleVars, batch, conn, otherWaits>>

\* Then it releases each handle under its lock, as does the teardown of the
\* connection; only the former clears Open.File.
ReleaseOpen(h) ==
    /\ disconnect = "releasing" \/ conn = "releasing"
    /\ h \in batch /\ Free(h)
    /\ fd' = [fd EXCEPT ![h] = IF conn = "releasing" THEN "closed" ELSE "nil"]
    /\ batch' = batch \ {h}
    /\ wakeOrNot
    /\ UNCHANGED <<pc, out, tableVars, cancelFrame, pendingLockWaits, owned, mu,
                   disconnect, conn, otherWaits>>

Disconnected ==
    /\ disconnect = "releasing" /\ batch = {}
    /\ disconnect' = "done"
    /\ UNCHANGED <<pc, out, tableVars, cancelFrame, pendingLockWaits, woken,
                   handleVars, batch, conn, otherWaits>>

-----------------------------------------------------------------------------
(* The teardown of the connection.                                         *)

LoopEnds ==
    /\ conn = "serving"
    /\ conn' = "draining"
    /\ UNCHANGED <<pc, out, tableVars, cancelFrame, pendingLockWaits, woken,
                   handleVars, disconnect, batch, otherWaits>>

\* pool.drain: no frame is still executing.
drained ==
    /\ \A r \in Requests : pc[r] \notin FramePhases /\ cancelFrame[r] # "sent"
    /\ \A h \in Handles : mu[h] = None
    /\ disconnect \in {"none", "done"}

\* Mutant: the requests are cancelled while frames still run.
CancelAllNotifies_BeforeDrain ==
    /\ conn = "draining"
    /\ cancelRegs(Requests)
    /\ conn' = "cancelled"
    /\ UNCHANGED <<pc, out, regs, preCancelled, cancelFrame, pendingLockWaits,
                   woken, handleVars, disconnect, batch, otherWaits>>

CancelAllNotifies ==
    /\ conn = "draining" /\ drained
    /\ cancelRegs(Requests)
    /\ conn' = "cancelled"
    /\ UNCHANGED <<pc, out, regs, preCancelled, cancelFrame, pendingLockWaits,
                   woken, handleVars, disconnect, batch, otherWaits>>

CloseWriter ==
    /\ conn = "cancelled"
    /\ conn' = "flushed"
    /\ UNCHANGED <<pc, out, tableVars, cancelFrame, pendingLockWaits, woken,
                   handleVars, disconnect, batch, otherWaits>>

\* releaseConnOpens takes what is left and releases it under Open.mu; durable
\* handles, which it detaches, are not modelled here.
ReleaseConnOpens ==
    /\ conn = "flushed"
    /\ batch' = {h \in owned : h \notin Directories} /\ owned' = {}
    /\ conn' = "releasing"
    /\ UNCHANGED <<pc, out, tableVars, cancelFrame, pendingLockWaits, woken, fd,
                   mu, disconnect, otherWaits>>

Closed ==
    /\ conn = "releasing" /\ batch = {}
    /\ conn' = "closed"
    /\ UNCHANGED <<pc, out, tableVars, cancelFrame, pendingLockWaits, woken,
                   handleVars, disconnect, batch, otherWaits>>

\* Everything has ended.
Terminated ==
    /\ conn = "closed" /\ \A r \in Requests : pc[r] \in {"idle", "done"}
    /\ UNCHANGED vars

-----------------------------------------------------------------------------
Frame(r) ==
    \/ LockHandle(r) \/ UnknownHandle(r) \/ AnswerNow(r) \/ CountLockWait(r)
    \/ RefuseOverCap(r) \/ Register(r) \/ Park(r)

Waiter(r) ==
    \/ DrainEnds(r) \/ Subscribe(r) \/ RetryBegins(r) \/ RetryGranted(r)
    \/ RetryConflicts(r) \/ RetryFails(r) \/ Exit(r)

Disposal ==
    \/ CancelForDisconnect \/ Disconnected
    \/ CancelAllNotifies \/ CloseWriter \/ ReleaseConnOpens \/ Closed

Next ==
    \/ \E r \in Requests :
          \/ Send(r) \/ SendCancel(r) \/ Cancel(r) \/ Frame(r) \/ Waiter(r)
          \/ Event(r) \/ NotifyCancelled(r) \/ WatchStops(r)
          \/ WaitReleased(r) \/ WaitCancelled(r) \/ WaitTimesOut(r)
    \/ \E h \in Handles : Close(h) \/ CloseFile(h) \/ ReleaseOpen(h)
    \/ ReleasedElsewhere \/ Disconnect \/ LoopEnds \/ Disposal
    \/ OtherParks \/ OtherLeaves \/ Terminated

Spec == Init /\ [][Next]_vars

\* Goroutines are scheduled.  Frames, disposals and the teardown do a bounded
\* amount of work each, so it is enough that one of those that can run does; a
\* waiting goroutine is scheduled in its own right.  awaitLock's select picks at
\* random among its ready arms, so the timer is heard in the end even if other
\* arms are ready each time.
Pool ==
    \/ \E r \in Requests : Frame(r) \/ Cancel(r)
    \/ \E h \in Handles : CloseFile(h) \/ ReleaseOpen(h)
    \/ Disposal

Fairness ==
    /\ WF_vars(Pool)
    /\ \A r \in Requests : WF_vars(Waiter(r) \/ NotifyCancelled(r))
    /\ \A r \in Locks : SF_vars(WaitTimesOut(r))

FairSpec == Spec /\ Fairness

-----------------------------------------------------------------------------
(* Properties.                                                             *)

Interim == <<"PENDING">>

\* A client hears at most one STATUS_PENDING and after it exactly one final
\* status for a MessageId, whoever cancelled, closed or timed out meanwhile
\* (dispatch.go 523-526: a second response for one MessageId "corrupted the
\* client's outstanding-request table").
OneFinalAnswer ==
    \A r \in Requests :
        /\ out[r] \in {<<>>, Interim, <<"FINAL">>, Interim \o <<"FINAL">>}
        /\ pc[r] \in WaitPhases => out[r] = Interim \/ conn # "serving"

\* A cancel that overtook its request is not lost (dispatch.go 122-127).
CancelNotLost ==
    \A r \in Requests :
        cancelFrame[r] = "done" /\ pc[r] \in WaitPhases => r \in cancelled

\* No request waits on a handle a CLOSE has taken (dispatch.go 2184-2186).
NoWaitOnClosedHandle ==
    \A r \in Requests :
        pc[r] \in WaitPhases /\ fd[TargetOf[r]] = "closed" => r \in cancelled

\* A request that waits is within reach of whatever should end its wait: the
\* cancel that came first and the close of its handle.
WaitersReachable == CancelNotLost /\ NoWaitOnClosedHandle

\* A descriptor is never closed under a retry that is about to lock it
\* (lock.go 316-325).
NoCloseUnderRetry ==
    [][\A h \in Handles : fd'[h] # fd[h] => ~Retrying(h)]_vars

\* Once its connection ends no goroutine keeps waiting (dispatch.go 243-247).
NoWaiterOutlivesConn ==
    conn = "draining" ~> \A r \in Requests : pc[r] \in {"idle", "done"}

\* A parked LOCK is always answered, by a grant, a cancel or the timeout.
LockIsAnswered == \A r \in Locks : pc[r] = "sent" ~> pc[r] = "done"
=============================================================================
