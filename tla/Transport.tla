------------------------------ MODULE Transport ------------------------------
(***************************************************************************)
(* One connection after NEGOTIATE, from the socket to the socket: the read *)
(* loop of ServeConn and its teardown (conn.go), the worker pool, the walk *)
(* of a compound chain with the state the members share (dispatch.go), the *)
(* answers of a chain gathered and sealed (compound.go), and the writer    *)
(* goroutine with its bounded queue (writer.go).                           *)
(*                                                                         *)
(* A frame is a chain of members.  What a command does to files is left to *)
(* the other modules: here it answers success or an error, drops the       *)
(* connection, or parks and answers later.                                 *)
(***************************************************************************)
EXTENDS Integers, FiniteSets, Sequences, SequencesExt

CONSTANTS
    FrameCount,       \* how many frames the peer sends at most
    Inbound,          \* what each of them may be: see ASSUME
    Sessions,         \* the authenticated sessions, all with keys
    NoSession,        \* the nil *Session of an answer
    ConnWorkers,      \* connWorkers(): frames executed at once
    WriteQueueDepth,  \* writeQueueDepth
    WriteQueueBytes   \* writeQueueBytes; a message is one byte

Frames == 1..FrameCount

\* "op" is every command that is answered at once; "fatal" one whose answer
\* drops the connection; "garbled" a header the chain walk gives up on.
Commands == {"create", "op", "close", "park", "cancel", "setup", "fatal", "garbled"}

\* related is FlagRelatedOps; previous, the all-FF FileID of the body.
Member == [cmd : Commands, sess : Sessions, related : BOOLEAN, previous : BOOLEAN]

ASSUME TransportConstants ==
    /\ FrameCount \in Nat
    /\ \A f \in Frames : \A m \in Inbound[f] :
          /\ m \in [chain : Seq(Member) \ {<<>>}, sealed : Sessions \cup {NoSession}]
          /\ Cardinality({i \in DOMAIN m.chain : m.chain[i].cmd = "park"}) <= 1
    /\ NoSession \notin Sessions
    /\ ConnWorkers \in Nat \ {0}
    /\ WriteQueueDepth \in Nat \ {0}
    /\ WriteQueueBytes \in Nat \ {0}

\* An answer to member i of frame f, sealed for sess (and so signed or not
\* protected at all when enc is FALSE).
Answer == [f : Frames, i : Nat, kind : {"sync", "interim", "async", "setup"},
           sess : Sessions \cup {NoSession}, enc : BOOLEAN]

\* The goroutines that call connWriter.send: a frame's, and a parked request's.
Senders == Frames \X {"frame", "async"}

VARIABLES
    reader,     \* where the read goroutine stands
    cur,        \* the frame it has read and not yet run or submitted
    deadline,   \* the read deadline: "far" (idleTimeout), or "now" (abort)
    aborted,    \* ServeConn's flag
    fr,         \* the frames: see Frame
    got,        \* the sessions with gotEncrypted set
    parked,     \* the parked request of each frame
    snd,        \* the progress of each sender through send
    q,          \* connWriter.q: frames, each a sequence of answers
    queued,     \* connWriter.queued
    closed,     \* connWriter.closed has been shut
    discard,    \* connWriter.discard
    writer,     \* where the writer goroutine stands
    flushing,   \* it has left run's loop for flush's
    inHand,     \* the frame it has taken off the queue
    sock,       \* the socket, as this end sees it
    owed        \* the answers of the chains that the socket has not taken yet

queueVars == <<q, queued, closed, discard>>
writerVars == <<writer, flushing, inHand>>
readVars == <<reader, cur, deadline>>
vars == <<readVars, aborted, fr, got, parked, snd, queueVars, writerVars, sock, owed>>

\* i is the next member; last the member whose CREATE is LastCreatedFileID (0
\* when HasLastCreated is false); live the handles the chain has left open.
Frame == [at : {"unsent", "read", "chain", "setup", "flush", "abort", "deadline", "done"},
          chain : Seq(Member), i : Nat, sealed : Sessions \cup {NoSession},
          pend : Seq(Answer), failed : BOOLEAN, last : Nat,
          status : {"success", "error"}, live : SUBSET Nat]

SendSteps == {"idle", "add", "put", "refused", "discard", "close"}

ReaderSteps == {"arm", "test", "read", "drainSerial", "serial", "submit", "drain",
                "cancel", "signal", "wait", "forced", "killed", "end", "gone"}

TypeOK ==
    /\ reader \in ReaderSteps
    /\ cur \in Frames \cup {0}
    /\ deadline \in {"far", "now"}
    /\ aborted \in BOOLEAN
    /\ fr \in [Frames -> Frame]
    /\ got \subseteq Sessions
    /\ parked \in [Frames -> {"none", "parked", "cancelled", "done"}]
    /\ snd \in [Senders -> [at : SendSteps, buf : Seq(Answer), ok : BOOLEAN]]
    /\ q \in Seq(Seq(Answer)) /\ Len(q) <= WriteQueueDepth
    /\ queued \in Nat
    /\ closed \in BOOLEAN /\ discard \in BOOLEAN
    /\ writer \in {"select", "count", "write", "discard", "close", "flush",
                   "exited"}
    /\ flushing \in BOOLEAN
    /\ inHand \in Seq(Answer)
    /\ sock \in {"open", "closed"}
    /\ owed \subseteq Answer

Init ==
    /\ reader = "arm" /\ cur = 0 /\ deadline = "far" /\ aborted = FALSE
    /\ fr = [f \in Frames |->
                [at |-> "unsent", chain |-> <<>>, i |-> 1, sealed |-> NoSession,
                 pend |-> <<>>, failed |-> FALSE, last |-> 0, status |-> "success",
                 live |-> {}]]
    /\ got = {}
    /\ parked = [f \in Frames |-> "none"]
    /\ snd = [s \in Senders |-> [at |-> "idle", buf |-> <<>>, ok |-> TRUE]]
    /\ q = <<>> /\ queued = 0 /\ closed = FALSE /\ discard = FALSE
    /\ writer = "select" /\ flushing = FALSE /\ inHand = <<>>
    /\ sock = "open" /\ owed = {}

-----------------------------------------------------------------------------
(* connWriter.send.                                                        *)

sendStep(s, step) == snd' = [snd EXCEPT ![s].at = step]

sendReturns(s, err) == snd' = [snd EXCEPT ![s] = [at |-> "idle", buf |-> <<>>, ok |-> ~err]]

\* A caller enters send with a frame; the first select looks at closed.
send(s, buf) ==
    IF closed THEN sendReturns(s, TRUE)
    ELSE snd' = [snd EXCEPT ![s] = [at |-> "add", buf |-> buf, ok |-> TRUE]]

\* The bytes are counted first and compared afterwards.
SendAdd(s) ==
    /\ snd[s].at = "add"
    /\ queued' = queued + Len(snd[s].buf)
    /\ sendStep(s, IF queued' > WriteQueueBytes THEN "refused" ELSE "put")
    /\ UNCHANGED <<readVars, aborted, fr, got, parked, q, closed, discard, writerVars,
                   sock, owed>>

\* Mutant: a send that loses to the shutdown keeps its bytes counted.
SendPut_ClosedKeepsCount(s) ==
    /\ snd[s].at = "put"
    /\ \/ /\ Len(q) < WriteQueueDepth
          /\ q' = Append(q, snd[s].buf)
          /\ sendReturns(s, FALSE)
       \/ closed /\ sendReturns(s, TRUE) /\ UNCHANGED q
       \/ /\ Len(q) = WriteQueueDepth /\ ~closed
          /\ sendStep(s, "refused")
          /\ UNCHANGED q
    /\ UNCHANGED <<readVars, aborted, fr, got, parked, queued, closed, discard, writerVars,
                   sock, owed>>

\* The three-way select: with room and a shutdown both ready it picks either.
SendPut(s) ==
    /\ snd[s].at = "put"
    /\ \/ /\ Len(q) < WriteQueueDepth
          /\ q' = Append(q, snd[s].buf)
          /\ sendReturns(s, FALSE)
          /\ UNCHANGED queued
       \/ /\ closed
          /\ queued' = queued - Len(snd[s].buf)
          /\ sendReturns(s, TRUE)
          /\ UNCHANGED q
       \/ /\ Len(q) = WriteQueueDepth /\ ~closed
          /\ sendStep(s, "refused")
          /\ UNCHANGED <<q, queued>>
    /\ UNCHANGED <<readVars, aborted, fr, got, parked, closed, discard, writerVars, sock,
                   owed>>

\* Over a bound: the bytes are taken back, then stall drops the connection.
SendRefused(s) ==
    /\ snd[s].at = "refused"
    /\ queued' = queued - Len(snd[s].buf)
    /\ sendStep(s, "discard")
    /\ UNCHANGED <<readVars, aborted, fr, got, parked, q, closed, discard, writerVars,
                   sock, owed>>

StallDiscard(s) ==
    /\ snd[s].at = "discard"
    /\ discard' = TRUE
    /\ sendStep(s, "close")
    /\ UNCHANGED <<readVars, aborted, fr, got, parked, q, queued, closed, writerVars, sock,
                   owed>>

\* signalClose and kill; a write that succeeds between the two might as well
\* have succeeded before both.
StallClose(s) ==
    /\ snd[s].at = "close"
    /\ closed' = TRUE
    /\ sock' = "closed"
    /\ sendReturns(s, TRUE)
    /\ UNCHANGED <<readVars, aborted, fr, got, parked, q, queued, discard, writerVars, owed>>

SendStep(s) ==
    \/ SendAdd(s) \/ SendPut(s) \/ SendRefused(s)
    \/ StallDiscard(s) \/ StallClose(s)

-----------------------------------------------------------------------------
(* The writer goroutine.                                                   *)

keepsRest == UNCHANGED <<readVars, aborted, fr, got, parked, snd, owed>>

\* run's select: a frame.
WriterTakes ==
    /\ writer = "select" /\ q # <<>>
    /\ inHand' = Head(q) /\ q' = Tail(q)
    /\ writer' = "count"
    /\ keepsRest /\ UNCHANGED <<queued, closed, discard, flushing, sock>>

\* Mutant: the writer stops at once instead of flushing the backlog.
WriterSeesClosed_NoFlush ==
    /\ writer = "select" /\ closed
    /\ writer' = "exited"
    /\ keepsRest /\ UNCHANGED <<queueVars, flushing, inHand, sock>>

\* run's select: the shutdown.
WriterSeesClosed ==
    /\ writer = "select" /\ closed
    /\ writer' = "flush" /\ flushing' = TRUE
    /\ keepsRest /\ UNCHANGED <<queueVars, inHand, sock>>

WriterCounts ==
    /\ writer = "count"
    /\ queued' = queued - Len(inHand)
    /\ writer' = "write"
    /\ keepsRest /\ UNCHANGED <<q, closed, discard, flushing, inHand, sock>>

\* The socket took the frame; the writer goes back to the loop it came from.
WriteSucceeds ==
    /\ writer = "write" /\ sock = "open"
    /\ owed' = owed \ ToSet(inHand)
    /\ inHand' = <<>>
    /\ writer' = IF flushing THEN "flush" ELSE "select"
    /\ UNCHANGED <<readVars, aborted, fr, got, parked, snd, queueVars, flushing, sock>>

\* The socket is closed, the peer reset it, or the write deadline passed.
WriteFails ==
    /\ writer = "write"
    /\ inHand' = <<>>
    /\ writer' = "discard"
    /\ keepsRest /\ UNCHANGED <<queueVars, flushing, sock>>

WriterDiscards ==
    /\ writer = "discard"
    /\ discard' = TRUE
    /\ writer' = "close"
    /\ keepsRest /\ UNCHANGED <<q, queued, closed, flushing, inHand, sock>>

WriterSignals ==
    /\ writer = "close"
    /\ closed' = TRUE
    /\ sock' = "closed"
    /\ writer' = "exited"
    /\ keepsRest /\ UNCHANGED <<q, queued, discard, flushing, inHand>>

\* flush: until the backlog is empty or to be discarded.
Flush ==
    /\ writer = "flush"
    /\ IF discard \/ q = <<>>
       THEN writer' = "exited" /\ UNCHANGED <<q, inHand>>
       ELSE writer' = "count" /\ inHand' = Head(q) /\ q' = Tail(q)
    /\ keepsRest /\ UNCHANGED <<queued, closed, discard, flushing, sock>>

WriterStep ==
    \/ WriterTakes \/ WriterSeesClosed \/ WriterCounts \/ WriteSucceeds \/ WriteFails
    \/ WriterDiscards \/ WriterSignals \/ Flush

-----------------------------------------------------------------------------
(* A frame's chain, on the clone forFrame makes of the dispatcher.         *)

next(f) == fr[f].chain[fr[f].i]

idle(s) == snd[s].at = "idle"

frameOf(f) == <<f, "frame">>

InChain(f) == fr[f].at = "chain" /\ idle(frameOf(f)) /\ fr[f].i <= Len(fr[f].chain)

\* hasPreviousHandleSentinel: only these commands carry a FileID.
sentinel(m) == m.previous /\ m.cmd \in {"op", "close", "park"}

\* Mutant: a CLOSE is swallowed like any other member after a failure.
closesLiveHandle_Never(f) == FALSE

closesLiveHandle(f) ==
    /\ next(f).related /\ sentinel(next(f))
    /\ fr[f].last # 0
    /\ next(f).cmd = "close"

\* The previous member failed and this one wants its handle.
inherits(f) ==
    /\ next(f).related /\ sentinel(next(f))
    /\ fr[f].status = "error"
    /\ ~closesLiveHandle(f)

\* The sentinel that SubstitutePreviousHandleFileID leaves in place, or whose
\* handle belongs to another session, names no open.
namesNothing(f) ==
    /\ sentinel(next(f))
    /\ \/ ~next(f).related
       \/ fr[f].last = 0
       \/ fr[f].chain[fr[f].last].sess # next(f).sess

\* willEncryptResponse.
willEncryptResponse(f, s) == s # NoSession /\ (s \in got \/ fr[f].sealed # NoSession)

answer(f, kind, s, enc) == [f |-> f, i |-> fr[f].i, kind |-> kind, sess |-> s, enc |-> enc]

\* respondSuccess and respondError: the answer joins the chain's.  The record r
\* is the frame with what else the member changed.
respond(f, r, status, s) ==
    LET a == answer(f, "sync", s, willEncryptResponse(f, s)) IN
    /\ fr' = [fr EXCEPT ![f] = [r EXCEPT !.i = @ + 1, !.status = status,
                                         !.pend = Append(@, a)]]
    /\ owed' = owed \cup {a}

chainUnchanged ==
    UNCHANGED <<readVars, aborted, got, queueVars, writerVars, sock>>

Inherit(f) ==
    /\ InChain(f) /\ inherits(f)
    /\ respond(f, fr[f], "error", next(f).sess)
    /\ chainUnchanged /\ UNCHANGED <<parked, snd>>

\* A CREATE that fails leaves LastCreatedFileID as it was.
Create(f) ==
    /\ InChain(f) /\ next(f).cmd = "create"
    /\ \/ respond(f, [fr[f] EXCEPT !.last = fr[f].i, !.live = @ \cup {fr[f].i}],
                   "success", next(f).sess)
       \/ respond(f, fr[f], "error", next(f).sess)
    /\ chainUnchanged /\ UNCHANGED <<parked, snd>>

\* Every other command that is answered at once.
Operate(f) ==
    /\ InChain(f) /\ next(f).cmd = "op" /\ ~inherits(f)
    /\ \E status \in {"success", "error"} :
           /\ namesNothing(f) => status = "error"
           /\ respond(f, fr[f], status, next(f).sess)
    /\ chainUnchanged /\ UNCHANGED <<parked, snd>>

\* handleClose takes the handle out of the session before anything can fail.
Close(f) ==
    /\ InChain(f) /\ next(f).cmd = "close" /\ ~inherits(f)
    /\ LET used == closesLiveHandle(f)
           gone == IF used /\ ~namesNothing(f) THEN {fr[f].last} ELSE {}
           r == [fr[f] EXCEPT !.last = IF used THEN 0 ELSE @, !.live = @ \ gone]
       IN  \E status \in {"success", "error"} :
               /\ namesNothing(f) => status = "error"
               /\ respond(f, r, status, next(f).sess)
    /\ chainUnchanged /\ UNCHANGED <<parked, snd>>

\* CHANGE_NOTIFY, or a LOCK that must wait: STATUS_PENDING goes out at once and
\* on its own; the chain's status stays as it was.
Park(f) ==
    /\ InChain(f) /\ next(f).cmd = "park" /\ ~inherits(f)
    /\ \/ respond(f, fr[f], "error", next(f).sess) /\ UNCHANGED <<parked, snd>>
       \/ LET s == next(f).sess
              a == answer(f, "interim", s, s \in got) IN
          /\ ~namesNothing(f) /\ parked[f] = "none"
          /\ parked' = [parked EXCEPT ![f] = "parked"]
          /\ send(frameOf(f), <<a>>)
          /\ owed' = owed \cup {a}
          /\ fr' = [fr EXCEPT ![f].i = @ + 1]
    /\ chainUnchanged

\* SMB2_CANCEL has no answer of its own.
Cancel(f) ==
    /\ InChain(f) /\ next(f).cmd = "cancel"
    /\ fr' = [fr EXCEPT ![f].i = @ + 1]
    /\ chainUnchanged /\ UNCHANGED <<parked, snd, owed>>

\* SESSION_SETUP frames its own answer, in the clear, ahead of the chain's.
SessionSetup(f) ==
    /\ InChain(f) /\ next(f).cmd = "setup"
    /\ LET a == answer(f, "setup", next(f).sess, FALSE) IN
       send(frameOf(f), <<a>>) /\ owed' = owed \cup {a}
    /\ fr' = [fr EXCEPT ![f].at = "setup"]
    /\ chainUnchanged /\ UNCHANGED parked

\* A failed write, a refused logon or a failed hook ends the connection.
SessionSetupReturns(f) ==
    /\ fr[f].at = "setup" /\ idle(frameOf(f))
    /\ \E fails \in BOOLEAN :
           /\ ~snd[frameOf(f)].ok => fails
           /\ fr' = [fr EXCEPT ![f].i = @ + 1, ![f].failed = fails,
                               ![f].at = IF fails THEN "flush" ELSE "chain"]
    /\ chainUnchanged /\ UNCHANGED <<parked, snd, owed>>

\* No session, an unauthenticated one (neither seals the answer), or in the clear
\* a bad signature: the error is owed to the client, the connection goes.
Fatal(f) ==
    /\ InChain(f) /\ next(f).cmd = "fatal"
    /\ \E s \in {NoSession, next(f).sess} :
        /\ s = NoSession \/ fr[f].sealed = NoSession
        /\ respond(f, [fr[f] EXCEPT !.failed = TRUE, !.at = "flush"], "error", s)
    /\ chainUnchanged /\ UNCHANGED <<parked, snd>>

\* A header that does not decode, or a NextCommand out of bounds.
Garbled(f) ==
    /\ InChain(f) /\ next(f).cmd = "garbled"
    /\ fr' = [fr EXCEPT ![f].failed = TRUE, ![f].at = "flush"]
    /\ chainUnchanged /\ UNCHANGED <<parked, snd, owed>>

ChainEnds(f) ==
    /\ fr[f].at = "chain" /\ idle(frameOf(f)) /\ fr[f].i > Len(fr[f].chain)
    /\ fr' = [fr EXCEPT ![f].at = "flush"]
    /\ chainUnchanged /\ UNCHANGED <<parked, snd, owed>>

-----------------------------------------------------------------------------
(* compound.go: the answers of a chain.                                    *)

\* How many answers at the head of p share a session and an encryption decision.
group(p) ==
    CHOOSE n \in 1..Len(p) :
        /\ \A k \in 1..n : p[k].sess = p[1].sess /\ p[k].enc = p[1].enc
        /\ n < Len(p) => p[n + 1].sess # p[1].sess \/ p[n + 1].enc # p[1].enc

FlushGroup(f) ==
    /\ fr[f].at = "flush" /\ idle(frameOf(f)) /\ fr[f].pend # <<>>
    /\ LET p == fr[f].pend IN
       /\ send(frameOf(f), SubSeq(p, 1, group(p)))
       /\ fr' = [fr EXCEPT ![f].pend = SubSeq(p, group(p) + 1, Len(p))]
    /\ chainUnchanged /\ UNCHANGED <<parked, owed>>

Flushed(f) == fr[f].at = "flush" /\ idle(frameOf(f)) /\ fr[f].pend = <<>>

\* The clone of the dispatcher is garbage once its chain has been answered.
ended(f, step) ==
    fr' = [fr EXCEPT ![f].at = step, ![f].i = 1, ![f].last = 0, ![f].status = "success"]

\* The goroutine of a pooled frame returns, or goes on to abort.
FrameEnds(f) ==
    /\ Flushed(f) /\ cur # f
    /\ ended(f, IF fr[f].failed THEN "abort" ELSE "done")
    /\ chainUnchanged /\ UNCHANGED <<parked, snd, owed>>

\* abort: the flag first, then the deadline.
AbortFlag(f) ==
    /\ fr[f].at = "abort"
    /\ aborted' = TRUE
    /\ fr' = [fr EXCEPT ![f].at = "deadline"]
    /\ UNCHANGED <<readVars, got, parked, snd, queueVars, writerVars, sock, owed>>

AbortDeadline(f) ==
    /\ fr[f].at = "deadline"
    /\ deadline' = "now"
    /\ fr' = [fr EXCEPT ![f].at = "done"]
    /\ UNCHANGED <<reader, cur, aborted, got, parked, snd, queueVars, writerVars, sock, owed>>

\* The goroutine of a parked request, started once STATUS_PENDING is sent, ends
\* on its event, its timeout or its cancel; its answer joins no chain.
Complete(f) ==
    /\ parked[f] \in {"parked", "cancelled"}
    /\ \A k \in DOMAIN snd[frameOf(f)].buf : snd[frameOf(f)].buf[k].kind # "interim"
    /\ \E i \in DOMAIN fr[f].chain :
           /\ fr[f].chain[i].cmd = "park"
           /\ LET s == fr[f].chain[i].sess IN
              send(<<f, "async">>, <<[f |-> f, i |-> i, kind |-> "async", sess |-> s,
                                      enc |-> s \in got]>>)
    /\ parked' = [parked EXCEPT ![f] = "done"]
    /\ chainUnchanged /\ UNCHANGED <<fr, owed>>

FrameStep(f) ==
    \/ Inherit(f) \/ Create(f) \/ Operate(f) \/ Close(f) \/ Park(f) \/ Cancel(f)
    \/ SessionSetup(f) \/ SessionSetupReturns(f) \/ Fatal(f) \/ Garbled(f)
    \/ ChainEnds(f) \/ FlushGroup(f) \/ FrameEnds(f)
    \/ AbortFlag(f) \/ AbortDeadline(f)

-----------------------------------------------------------------------------
(* ServeConn's read loop.                                                  *)

goto(step) == reader' = step

readUnchanged == UNCHANGED <<aborted, snd, queueVars, writerVars, owed>>

\* The frames that hold a slot of the pool.
Pooled ==
    {f \in Frames : f # cur /\ fr[f].at \notin {"unsent", "done"}}

\* Mutant: the read follows at once, and the flag is seen only when it fails.
Arm_NoTest ==
    /\ reader = "arm"
    /\ deadline' = "far"
    /\ goto("read")
    /\ readUnchanged /\ UNCHANGED <<cur, fr, got, parked, sock>>

Arm ==
    /\ reader = "arm"
    /\ deadline' = "far"
    /\ goto("test")
    /\ readUnchanged /\ UNCHANGED <<cur, fr, got, parked, sock>>

TestAborted ==
    /\ reader = "test"
    /\ goto(IF aborted THEN "drain" ELSE "read")
    /\ readUnchanged /\ UNCHANGED <<cur, deadline, fr, got, parked, sock>>

frameNeedsSerialExecution(c) == \E i \in DOMAIN c : c[i].cmd \in {"setup", "garbled"}

\* Mutant: decrypting a frame does not mark its session.
ReadFrame_NotMarked(f, m) ==
    /\ reader = "read"
    /\ fr[f].at = "unsent" /\ \A g \in 1..(f - 1) : fr[g].at # "unsent"
    /\ fr' = [fr EXCEPT ![f].at = "read", ![f].chain = m.chain, ![f].sealed = m.sealed]
    /\ cur' = f
    /\ goto(IF frameNeedsSerialExecution(m.chain) THEN "drainSerial" ELSE "submit")
    /\ readUnchanged /\ UNCHANGED <<deadline, got, parked, sock>>

\* A frame under a transform header of session s, or in the clear.
SetGotEncrypted(s) == got' = got \cup ({s} \ {NoSession})

\* A whole frame is there, under a transform header of session m.sealed or in
\* the clear.  What the bufio.Reader holds is handed out whatever became
\* of the deadline and the socket.
ReadFrame(f, m) ==
    /\ reader = "read"
    /\ fr[f].at = "unsent" /\ \A g \in 1..(f - 1) : fr[g].at # "unsent"
    /\ fr' = [fr EXCEPT ![f].at = "read", ![f].chain = m.chain, ![f].sealed = m.sealed]
    /\ SetGotEncrypted(m.sealed)
    /\ cur' = f
    /\ goto(IF frameNeedsSerialExecution(m.chain) THEN "drainSerial" ELSE "submit")
    /\ readUnchanged /\ UNCHANGED <<deadline, parked, sock>>

\* End of file, a reset, a deadline, a bad length, or a frame that does not
\* decrypt.
ReadFails ==
    /\ reader = "read"
    /\ goto("drain")
    /\ readUnchanged /\ UNCHANGED <<cur, deadline, fr, got, parked, sock>>

\* SESSION_SETUP runs here, with nothing else in flight.
DrainForSerial ==
    /\ reader = "drainSerial" /\ Pooled = {}
    /\ fr' = [fr EXCEPT ![cur].at = "chain"]
    /\ goto("serial")
    /\ readUnchanged /\ UNCHANGED <<cur, deadline, got, parked, sock>>

SerialEnds ==
    /\ reader = "serial" /\ Flushed(cur)
    /\ ended(cur, "done")
    /\ goto(IF fr[cur].failed THEN "drain" ELSE "arm")
    /\ cur' = 0
    /\ readUnchanged /\ UNCHANGED <<deadline, got, parked, sock>>

\* connPool.submit: waits for a slot.
Submit ==
    /\ reader = "submit" /\ Cardinality(Pooled) < ConnWorkers
    /\ fr' = [fr EXCEPT ![cur].at = "chain"]
    /\ cur' = 0
    /\ goto("arm")
    /\ readUnchanged /\ UNCHANGED <<deadline, got, parked, sock>>

-----------------------------------------------------------------------------
(* The teardown.  Sessions and handles are in module Handles.              *)

Drain ==
    /\ reader = "drain" /\ Pooled = {}
    /\ goto("cancel")
    /\ readUnchanged /\ UNCHANGED <<cur, deadline, fr, got, parked, sock>>

CancelAllNotifies ==
    /\ reader = "cancel"
    /\ parked' = [f \in Frames |-> IF parked[f] = "parked" THEN "cancelled" ELSE parked[f]]
    /\ goto("signal")
    /\ readUnchanged /\ UNCHANGED <<cur, deadline, fr, got, sock>>

\* writer.Close: no more sends, then a bounded wait for the backlog.
SignalClose ==
    /\ reader = "signal"
    /\ closed' = TRUE
    /\ goto("wait")
    /\ UNCHANGED <<cur, deadline, aborted, fr, got, parked, snd, q, queued, discard,
                   writerVars, sock, owed>>

WriterDone ==
    /\ reader \in {"wait", "killed"} /\ writer = "exited"
    /\ goto("end")
    /\ readUnchanged /\ UNCHANGED <<cur, deadline, fr, got, parked, sock>>

\* writerDrainTimeout has passed; select may pick it beside a finished writer.
DrainTimeout ==
    /\ reader = "wait"
    /\ discard' = TRUE
    /\ goto("forced")
    /\ UNCHANGED <<cur, deadline, aborted, fr, got, parked, snd, q, queued, closed,
                   writerVars, sock, owed>>

ForceSocket ==
    /\ reader = "forced"
    /\ sock' = "closed"
    /\ goto("killed")
    /\ readUnchanged /\ UNCHANGED <<cur, deadline, fr, got, parked>>

\* The handles are released and the deferred Close takes the socket down.
CloseSocket ==
    /\ reader = "end"
    /\ sock' = "closed"
    /\ goto("gone")
    /\ readUnchanged /\ UNCHANGED <<cur, deadline, fr, got, parked>>

\* The server's context is cancelled: the watcher closes the socket.
ServerStops ==
    /\ reader # "gone" /\ sock = "open"
    /\ sock' = "closed"
    /\ readUnchanged /\ UNCHANGED <<readVars, fr, got, parked>>

\* What the read goroutine does without waiting for the peer.
ReaderStep ==
    \/ Arm \/ TestAborted \/ DrainForSerial \/ SerialEnds \/ Submit
    \/ Drain \/ CancelAllNotifies \/ SignalClose \/ WriterDone \/ DrainTimeout
    \/ ForceSocket \/ CloseSocket

Next ==
    \/ ReaderStep \/ ReadFails \/ ServerStops \/ WriterStep
    \/ \E f \in Frames : \/ FrameStep(f) \/ Complete(f)
                         \/ \E m \in Inbound[f] : ReadFrame(f, m)
    \/ \E s \in Senders : SendStep(s)

Spec == Init /\ [][Next]_vars

\* Goroutines run.  The peer need not send, nor read: a read is bound to end
\* only when its deadline has passed or the socket is closed, a write only when
\* the socket is closed.
Fairness ==
    /\ WF_vars(ReaderStep)
    /\ WF_vars(ReadFails /\ (deadline = "now" \/ sock = "closed"))
    /\ \A f \in Frames : WF_vars(FrameStep(f))
    /\ \A s \in Senders : WF_vars(SendStep(s))
    /\ WF_vars(WriterTakes \/ WriterSeesClosed \/ WriterCounts \/ WriterDiscards
               \/ WriterSignals \/ Flush)
    /\ WF_vars(WriteFails /\ sock = "closed")

FairSpec == Spec /\ Fairness

-----------------------------------------------------------------------------
(* Properties.                                                             *)

\* w[1], w[1] + w[2] and so on, up to n of them.
sums(w, n) == LET upTo[k \in 0..n] == IF k = 0 THEN 0 ELSE upTo[k - 1] + w[k] IN upTo

total(w, n) == sums(w, n)[n]

bytes(bufs) == total([k \in DOMAIN bufs |-> Len(bufs[k])], Len(bufs))

\* What the senders that stand at one of the steps have in their hands.
sending(steps) ==
    LET held(s) == IF snd[s].at \in steps THEN Len(snd[s].buf) ELSE 0 IN
    total([f \in Frames |-> held(<<f, "frame">>) + held(<<f, "async">>)], FrameCount)

\* connWriter.queued is exact: it counts the queue, the frames of the senders
\* between their Add and the end of send, and the one the writer has taken and
\* not yet subtracted.  So the backlog of a peer that does not read never passes
\* the byte budget, and no race of sends, refusals and the shutdown makes the
\* count drift (writer.go 25-30).
BacklogBounded ==
    /\ queued = bytes(q) + sending({"put", "refused"})
                 + (IF writer = "count" THEN Len(inHand) ELSE 0)
    /\ bytes(q) <= WriteQueueBytes

\* When the writer has gone without having to discard anything, every answer of
\* every frame that was served has been written, the one that decided to drop
\* the connection included (writer.go 218-220: "the client is owed it").
OwedAnswersDelivered ==
    writer = "exited" /\ ~discard =>
        \A a \in owed : fr[a.f].at # "done"

\* A related chain that ends in a CLOSE of its own handle leaves no handle
\* behind, whichever of its members failed (dispatch.go 455-462: a handle left
\* over makes the file "unopenable by every client").
\* A related CLOSE of another session in between would use up LastCreatedFileID
\* without closing anything (dispatch.go 471-480): clients keep to one session.
ChainClosesItsHandle ==
    \A f \in Frames : \A i, j \in DOMAIN fr[f].chain :
        /\ fr[f].at = "done" /\ ~fr[f].failed
        /\ i < j
        /\ fr[f].chain[i].cmd = "create"
        /\ fr[f].chain[j].cmd = "close" /\ sentinel(fr[f].chain[j])
        /\ fr[f].chain[j].related
        /\ fr[f].chain[j].sess = fr[f].chain[i].sess
        /\ \A k \in (i + 1)..(j - 1) : fr[f].chain[k].cmd # "create"
        => i \notin fr[f].live

\* Each frame on the wire has one session and one encryption decision, and a
\* request that came encrypted is answered encrypted, also long after its chain
\* (compound.go 31-36; dispatch.go 3805-3809).  SESSION_SETUP frames its own
\* answer.
AnswersStaySealed ==
    \A k \in DOMAIN q : \A n \in DOMAIN q[k] :
        LET a == q[k][n] IN
        /\ a.sess = q[k][1].sess /\ a.enc = q[k][1].enc
        /\ a.kind # "setup" /\ a.sess # NoSession /\ fr[a.f].sealed = a.sess => a.enc

\* Once a frame has asked for the connection to end, or its socket is closed,
\* the read goroutine comes to its end, even if the peer neither sends nor reads
\* again (conn.go 333-338: the order of flag and deadline; writer.go 204-208).
ConnectionIsTornDown ==
    aborted \/ sock = "closed" ~> reader = "gone"
=============================================================================
