--------------------------- MODULE ByteRangeLocks ---------------------------
(***************************************************************************)
(* The byte-range locks of one file (lock.go, lock_ranges.go and the two   *)
(* lockManagers).                                                          *)
(*                                                                         *)
(* On darwin the in-process table decides.  On linux the kernel's OFD      *)
(* locks decide and the table is a shadow that READ and WRITE are checked  *)
(* against.  A LOCK request is a sequence of elements, applied one by one  *)
(* and rolled back when one fails; a blocking one is parked and tried      *)
(* again whenever a range is released anywhere.  The frame of a LOCK holds *)
(* Open.mu exclusively, the retries of a parked one hold it shared.        *)
(*                                                                         *)
(* A job is one LOCK request at a time.  Cancelling and counting parked    *)
(* requests is the business of module AsyncRequests.                       *)
(***************************************************************************)
EXTENDS Integers, FiniteSets, Sequences

CONSTANTS
    Handles,       \* *Open values on the file
    Jobs,          \* LOCK requests in progress
    HandleOf,      \* the handle a job locks
    Requests,      \* the element sequences clients send
    MaxInt,        \* math.MaxInt64: the last byte of a file
    MaxPerFile,    \* maxLockRangesPerFile
    MaxPerOwner,   \* maxLockRangesPerOwner
    TidyClients    \* TRUE if clients unlock only ranges they hold, and lock
                   \* only ranges clear of these or one of them once more

\* The largest uint64.
MaxWord == 2 * MaxInt + 1

Kinds == {"unlock", "shared", "exclusive"}

\* LOCK_ELEMENT; wait is the absence of FAIL_IMMEDIATELY.
Element == [start : 0..MaxWord, length : 0..MaxWord, kind : Kinds, wait : BOOLEAN]

ASSUME LockConstants ==
    /\ HandleOf \in [Jobs -> Handles]
    /\ Requests \subseteq Seq(Element)
    /\ MaxInt \in Nat /\ MaxPerFile \in Nat /\ MaxPerOwner \in Nat
    /\ TidyClients \in BOOLEAN
    /\ IsFiniteSet(Handles)

-----------------------------------------------------------------------------
(* Ranges.                                                                 *)

lockRange == [start : 0..MaxInt, length : 1..MaxWord, exclusive : BOOLEAN]

\* uint64 addition.
plus(a, b) == IF a + b > MaxWord THEN a + b - (MaxWord + 1) ELSE a + b

\* Mutant: the end wraps around.
rangeEnd_Wraps(start, length) == plus(start, length)

\* The exclusive end, saturating instead of wrapping.
rangeEnd(start, length) ==
    IF plus(start, length) < start THEN MaxWord ELSE plus(start, length)

rangesOverlap(a, b) ==
    /\ a.length # 0 /\ b.length # 0
    /\ a.start < rangeEnd(b.start, b.length)
    /\ b.start < rangeEnd(a.start, a.length)

\* flockRange: the bytes fcntl locks for a range.  One that runs past MaxInt,
\* or whose end wraps, is expressed as "to end of file".
flockRange(e) ==
    LET end == plus(e.start, e.length)
    IN  IF end < e.start \/ end > MaxInt
        THEN e.start..MaxInt
        ELSE e.start..(end - 1)

\* The bytes of a file a range names, the definition the two are held to.
Bytes(e) == {b \in 0..MaxInt : e.start <= b /\ b < e.start + e.length}

rangeOf(e) == [start |-> e.start, length |-> e.length,
               exclusive |-> e.kind = "exclusive"]

\* The lock a rolled-back request puts back.
elementOf(r) == [start |-> r.start, length |-> r.length, wait |-> FALSE,
                 kind |-> IF r.exclusive THEN "exclusive" ELSE "shared"]

unlockOf(r) == [elementOf(r) EXCEPT !.kind = "unlock"]

\* decodeLockOps accepts the request.
Decodes(ops) == \A i \in 1..Len(ops) : ops[i].start <= MaxInt

-----------------------------------------------------------------------------
VARIABLES
    os,      \* the platform the server runs on
    tbl,     \* rangeTable.locks: the ranges each handle holds
    ofd,     \* linux: the kernel's lock on each byte, by handle
    file,    \* Open.File: "open", "closing" once releaseAll has run, "closed"
    job,     \* the LOCK requests
    woken    \* the parked jobs whose release channel has been closed

vars == <<os, tbl, ofd, file, job, woken>>

Trying == {"try", "tryMirror", "undo", "undoMirror", "redo", "redoMirror", "failed",
           "granted"}
Parked == {"subscribe", "retry", "select"}

Idle == [at |-> "idle", ops |-> <<>>, i |-> 1, snap |-> {}, undo |-> {},
         redo |-> {}, now |-> {}, parks |-> FALSE, frame |-> FALSE]

Job == [at : {"idle"} \cup Trying \cup Parked, ops : Requests \cup {<<>>},
        i : Nat, snap : SUBSET lockRange, undo : SUBSET lockRange, redo : SUBSET lockRange,
        now : SUBSET lockRange, parks : BOOLEAN, frame : BOOLEAN]

TypeOK ==
    /\ os \in {"linux", "darwin"}
    /\ tbl \in [Handles -> SUBSET lockRange]
    /\ ofd \in [Handles -> [0..MaxInt -> {"none", "shared", "exclusive"}]]
    /\ file \in [Handles -> {"open", "closing", "closed"}]
    /\ job \in [Jobs -> Job]
    /\ woken \subseteq Jobs

Unlocked == [b \in 0..MaxInt |-> "none"]

Init ==
    /\ os \in {"linux", "darwin"}
    /\ tbl = [h \in Handles |-> {}]
    /\ ofd = [h \in Handles |-> Unlocked]
    /\ file = [h \in Handles |-> "open"]
    /\ job = [j \in Jobs |-> Idle]
    /\ woken = {}

-----------------------------------------------------------------------------
(* The table (lock_ranges.go), each operation under lockTable.mu.          *)

All == UNION {{[owner |-> h, range |-> r] : r \in tbl[h]} : h \in Handles}

atCapacity(h) ==
    Cardinality(All) >= MaxPerFile \/ Cardinality(tbl[h]) >= MaxPerOwner

Already(h, e) == rangeOf(e) \in tbl[h]

\* rangeTable.apply's scan over the other owners.
tableConflict(h, e) ==
    \E g \in Handles \ {h} : \E r \in tbl[g] :
        rangesOverlap(e, r) /\ (e.kind = "exclusive" \/ r.exclusive)

Refuses(h, e) ==
    /\ e.kind # "unlock" /\ ~Already(h, e)
    /\ tableConflict(h, e) \/ atCapacity(h)

\* What h holds once the element is applied: an unlock removes the ranges that
\* match exactly, and none is no error.
after(h, e) ==
    IF e.kind = "unlock"
    THEN {r \in tbl[h] : ~(r.start = e.start /\ r.length = e.length)}
    ELSE tbl[h] \cup {rangeOf(e)}

Subscribed == {j \in Jobs : job[j].at \in {"retry", "select"}
                            \/ (job[j].at \in Trying /\ ~job[j].frame)}

\* publish: when ranges disappear, every parked job is woken.
setRanges(h, S) ==
    /\ tbl' = [tbl EXCEPT ![h] = S]
    /\ woken' = IF Cardinality(S) < Cardinality(tbl[h])
                THEN woken \cup Subscribed ELSE woken

tableApply(h, e) ==
    IF e.length = 0 \/ Refuses(h, e)
    THEN UNCHANGED <<tbl, woken>>
    ELSE setRanges(h, after(h, e))

-----------------------------------------------------------------------------
(* The kernel (external): F_OFD_SETLK on the descriptor of h.              *)

kernelConflict(h, e) ==
    \E g \in Handles \ {h} : \E b \in flockRange(e) :
        \/ ofd[g][b] = "exclusive"
        \/ e.kind = "exclusive" /\ ofd[g][b] # "none"

kernelApply(h, e) ==
    ofd' = [ofd EXCEPT ![h] =
              [b \in 0..MaxInt |->
                  IF b \notin flockRange(e) THEN @[b]
                  ELSE IF e.kind = "unlock" THEN "none" ELSE e.kind]]

-----------------------------------------------------------------------------
(* applyLock for the platform: does it fail, and how.                      *)

Broken(h) == file[h] # "open"

Conflicts(h, e) ==
    /\ e.length # 0 /\ e.kind # "unlock" /\ ~Broken(h)
    /\ IF os = "darwin"
       THEN ~Already(h, e) /\ tableConflict(h, e)
       ELSE ~atCapacity(h) /\ kernelConflict(h, e)

Fails(h, e) ==
    \/ Conflicts(h, e)
    \/ Broken(h) /\ (os = "darwin" \/ e.length # 0)
    \/ /\ e.length # 0 /\ e.kind # "unlock" /\ atCapacity(h)
       /\ os = "linux" \/ ~Already(h, e)

\* A step of one applyLock: darwin's is one step; on linux the kernel comes
\* first and the table follows in a step of its own (mirror).
applyStep(h, e) ==
    \/ /\ os = "darwin" /\ tableApply(h, e)
       /\ UNCHANGED ofd
    \/ /\ os = "linux"
       /\ IF e.length = 0 THEN UNCHANGED ofd ELSE kernelApply(h, e)
       /\ UNCHANGED <<tbl, woken>>

\* The phase that follows the step.
mirrored(phase) ==
    IF os = "darwin" THEN phase
    ELSE CASE phase = "try" -> "tryMirror" [] phase = "undo" -> "undoMirror"
           [] phase = "redo" -> "redoMirror"

next(j, changes) == job' = [job EXCEPT ![j] = changes]

-----------------------------------------------------------------------------
(* A LOCK request.                                                         *)

\* Nobody else works on the handle: Open.mu is free.
Free(h) ==
    /\ \A k \in Jobs : HandleOf[k] = h => job[k].at \notin Trying
    /\ file[h] # "closing"

\* For a retry, no frame works on it.
FreeShared(h) ==
    /\ \A k \in Jobs : HandleOf[k] = h /\ job[k].frame => job[k].at \notin Trying
    /\ file[h] # "closing"

Tidy(h, ops) ==
    \A i \in 1..Len(ops) :
        IF ops[i].kind = "unlock"
        THEN \E r \in tbl[h] : r.start = ops[i].start /\ r.length = ops[i].length
        ELSE \A r \in tbl[h] : ~rangesOverlap(ops[i], r) \/ r = rangeOf(ops[i])

\* handleLock begins, under Open.mu, with the snapshot.
Begin(j) ==
    LET h == HandleOf[j] IN
    /\ job[j].at = "idle" /\ file[h] = "open" /\ Free(h)
    /\ \E ops \in Requests :
          /\ Decodes(ops) /\ (TidyClients => Tidy(h, ops))
          /\ next(j, [Idle EXCEPT !.at = "try", !.ops = ops, !.snap = tbl[h],
                                  !.frame = TRUE])
    /\ UNCHANGED <<os, tbl, ofd, file, woken>>

Op(j) == job[j].ops[job[j].i]

\* applyLockOps: one element succeeds.
TryElement(j) ==
    /\ job[j].at = "try" /\ job[j].i <= Len(job[j].ops)
    /\ ~Fails(HandleOf[j], Op(j))
    /\ applyStep(HandleOf[j], Op(j))
    /\ next(j, [job[j] EXCEPT !.at = mirrored("try"),
                              !.i = IF os = "linux" THEN @ ELSE @ + 1])
    /\ UNCHANGED <<os, file>>

\* linux: the kernel's decision is recorded; the table's own answer is ignored.
Mirror(j) ==
    /\ job[j].at = "tryMirror"
    /\ tableApply(HandleOf[j], Op(j))
    /\ next(j, [job[j] EXCEPT !.at = "try", !.i = @ + 1])
    /\ UNCHANGED <<os, ofd, file>>

AllGranted(j) ==
    /\ job[j].at = "try" /\ job[j].i > Len(job[j].ops)
    /\ next(j, [job[j] EXCEPT !.at = "granted"])
    /\ UNCHANGED <<os, tbl, ofd, file, woken>>

\* Mutant: a failed request keeps the elements it got.
ElementFails_NoRollback(j) ==
    LET h == HandleOf[j] IN
    /\ job[j].at = "try" /\ job[j].i <= Len(job[j].ops)
    /\ Fails(h, Op(j))
    /\ next(j, [job[j] EXCEPT !.at = "failed",
                              !.parks = Conflicts(h, Op(j)) /\ Op(j).wait])
    /\ UNCHANGED <<os, tbl, ofd, file, woken>>

\* An element fails: a request of several elements is rolled back, first
\* what it added (rangesDiff), then everything the handle held.
ElementFails(j) ==
    LET h == HandleOf[j]
        several == Len(job[j].ops) > 1
    IN
    /\ job[j].at = "try" /\ job[j].i <= Len(job[j].ops)
    /\ Fails(h, Op(j))
    /\ next(j, [job[j] EXCEPT
                  !.at = IF several THEN "undo" ELSE "failed",
                  !.undo = IF several THEN tbl[h] \ job[j].snap ELSE {},
                  !.redo = IF several THEN job[j].snap ELSE {},
                  !.parks = Conflicts(h, Op(j)) /\ Op(j).wait])
    /\ UNCHANGED <<os, tbl, ofd, file, woken>>

\* restoreLocks, first loop.  A failure is only logged.
Undo(j) ==
    LET h == HandleOf[j] IN
    /\ job[j].at = "undo"
    /\ \E r \in job[j].undo :
         IF Fails(h, unlockOf(r))
         THEN /\ next(j, [job[j] EXCEPT !.undo = @ \ {r}])
              /\ UNCHANGED <<tbl, ofd, woken>>
         ELSE /\ applyStep(h, unlockOf(r))
              /\ next(j, [job[j] EXCEPT !.at = mirrored("undo"), !.undo = @ \ {r},
                                        !.now = {r}])
    /\ UNCHANGED <<os, file>>

UndoMirror(j) ==
    /\ job[j].at = "undoMirror"
    /\ \E r \in job[j].now : tableApply(HandleOf[j], unlockOf(r))
    /\ next(j, [job[j] EXCEPT !.at = "undo"])
    /\ UNCHANGED <<os, ofd, file>>

Undone(j) ==
    /\ job[j].at = "undo" /\ job[j].undo = {}
    /\ next(j, [job[j] EXCEPT !.at = "redo"])
    /\ UNCHANGED <<os, tbl, ofd, file, woken>>

\* Second loop: the whole prior state is applied again.
Redo(j) ==
    LET h == HandleOf[j] IN
    /\ job[j].at = "redo"
    /\ \E r \in job[j].redo :
         IF Fails(h, elementOf(r))
         THEN /\ next(j, [job[j] EXCEPT !.redo = @ \ {r}])
              /\ UNCHANGED <<tbl, ofd, woken>>
         ELSE /\ applyStep(h, elementOf(r))
              /\ next(j, [job[j] EXCEPT !.at = mirrored("redo"), !.redo = @ \ {r},
                                        !.now = {r}])
    /\ UNCHANGED <<os, file>>

RedoMirror(j) ==
    /\ job[j].at = "redoMirror"
    /\ \E r \in job[j].now : tableApply(HandleOf[j], elementOf(r))
    /\ next(j, [job[j] EXCEPT !.at = "redo"])
    /\ UNCHANGED <<os, ofd, file>>

Redone(j) ==
    /\ job[j].at = "redo" /\ job[j].redo = {}
    /\ next(j, [job[j] EXCEPT !.at = "failed", !.now = {}])
    /\ UNCHANGED <<os, tbl, ofd, file, woken>>

\* The answer: success, or an error that does not wait.
AnswerLock(j) ==
    /\ job[j].at = "granted" \/ (job[j].at = "failed" /\ ~job[j].parks)
    /\ next(j, Idle)
    /\ woken' = woken \ {j}
    /\ UNCHANGED <<os, tbl, ofd, file>>

\* startLockWait, or awaitLock coming to its select.
ParkLock(j) ==
    /\ job[j].at = "failed" /\ job[j].parks
    /\ next(j, [job[j] EXCEPT !.at = IF job[j].frame THEN "subscribe" ELSE "select",
                              !.frame = FALSE, !.snap = {}])
    /\ UNCHANGED <<os, tbl, ofd, file, woken>>

\* Mutant: the channel is taken after the attempt has failed.
Subscribe_Late(j) ==
    /\ job[j].at = "subscribe"
    /\ next(j, [job[j] EXCEPT !.at = "select"])
    /\ woken' = woken \ {j}
    /\ UNCHANGED <<os, tbl, ofd, file>>

\* awaitLock takes the release channel before it tries.
Subscribe(j) ==
    /\ job[j].at = "subscribe"
    /\ next(j, [job[j] EXCEPT !.at = "retry"])
    /\ woken' = woken \ {j}
    /\ UNCHANGED <<os, tbl, ofd, file>>

Retry(j) ==
    LET h == HandleOf[j] IN
    /\ job[j].at = "retry" /\ FreeShared(h)
    /\ next(j, [job[j] EXCEPT !.at = "try", !.i = 1, !.snap = tbl[h], !.parks = FALSE])
    /\ UNCHANGED <<os, tbl, ofd, file, woken>>

WaitReleased(j) ==
    /\ job[j].at = "select" /\ j \in woken
    /\ next(j, [job[j] EXCEPT !.at = "subscribe"])
    /\ UNCHANGED <<os, tbl, ofd, file, woken>>

\* Cancelled, or timed out.
WaitEnds(j) ==
    /\ job[j].at = "select"
    /\ next(j, Idle)
    /\ woken' = woken \ {j}
    /\ UNCHANGED <<os, tbl, ofd, file>>

-----------------------------------------------------------------------------
(* The handle goes away.                                                   *)

\* releaseAll, under Open.mu held exclusively.
ReleaseAll(h) ==
    /\ file[h] = "open" /\ Free(h)
    /\ setRanges(h, {})
    /\ file' = [file EXCEPT ![h] = "closing"]
    /\ UNCHANGED <<os, ofd, job>>

\* File.Close: on linux the kernel drops the locks only now.
CloseFile(h) ==
    /\ file[h] = "closing"
    /\ file' = [file EXCEPT ![h] = "closed"]
    /\ ofd' = [ofd EXCEPT ![h] = Unlocked]
    /\ UNCHANGED <<os, tbl, job, woken>>

\* Another CREATE of the file stands for the handle once no request of the old
\* one is left.
Reopen(h) ==
    /\ file[h] = "closed"
    /\ \A j \in Jobs : HandleOf[j] = h => job[j].at = "idle"
    /\ file' = [file EXCEPT ![h] = "open"]
    /\ UNCHANGED <<os, tbl, ofd, job, woken>>

-----------------------------------------------------------------------------
Next ==
    \/ \E j \in Jobs :
         \/ Begin(j) \/ TryElement(j) \/ Mirror(j) \/ AllGranted(j) \/ ElementFails(j)
         \/ Undo(j) \/ UndoMirror(j) \/ Undone(j) \/ Redo(j) \/ RedoMirror(j)
         \/ Redone(j) \/ AnswerLock(j) \/ ParkLock(j) \/ Subscribe(j) \/ Retry(j)
         \/ WaitReleased(j) \/ WaitEnds(j)
    \/ \E h \in Handles : ReleaseAll(h) \/ CloseFile(h) \/ Reopen(h)

Spec == Init /\ [][Next]_vars

-----------------------------------------------------------------------------
(* Properties.                                                             *)

\* No two handles hold ranges of which one is exclusive and that share a byte
\* of the file, whatever their lengths (lock_ranges.go 57-61: otherwise "two
\* conflicting locks would both be granted").
NoConflictingLocks ==
    \A g, h \in Handles : g # h =>
        \A r \in tbl[g], s \in tbl[h] :
            r.exclusive \/ s.exclusive => Bytes(r) \cap Bytes(s) = {}

\* What decides about a lock says that the job's handle has this one.
Held(j, e) ==
    LET h == HandleOf[j] IN
    IF os = "darwin"
    THEN rangeOf(e) \in tbl[h]
    ELSE \A b \in Bytes(e) : ofd[h][b] \in {e.kind, "exclusive"}

\* A LOCK request is all or nothing: when it is granted the handle holds every
\* range it asked for, and on darwin, when it fails, the handle holds what it
\* held before (lock.go 99-101).  It does NOT hold of a request that unlocks
\* one range and locks another: before the rollback puts the first one back,
\* another handle may have taken it.
RequestIsAtomic ==
    \A j \in Jobs :
        /\ job[j].at = "granted" =>
              \A i \in 1..Len(job[j].ops) :
                  LET e == job[j].ops[i] IN
                  e.kind # "unlock" /\ e.length # 0 => Held(j, e)
        /\ job[j].at = "failed" /\ os = "darwin" =>
              tbl[HandleOf[j]] = job[j].snap

\* A job is between the kernel's decision and its entry in the table.
Mirroring(h) ==
    \E j \in Jobs : HandleOf[j] = h /\ job[j].at \in {"tryMirror", "undoMirror", "redoMirror"}

\* Every byte the kernel has locked is covered by a range of the table that is
\* at least as strong, so READ and WRITE are checked against every lock that
\* was granted (lock_linux.go 18-20).  It does NOT hold on linux, where an
\* unlock frees the range in the kernel first: no run lists it.
ShadowCoversKernel ==
    \A h \in Handles : file[h] = "open" /\ ~Mirroring(h) =>
        \A b \in 0..MaxInt : ofd[h][b] # "none" =>
            \E r \in tbl[h] : b \in Bytes(r) /\ (ofd[h][b] = "exclusive" => r.exclusive)

\* A job that is parked and has not been told to try again.
Sleeping(j) == job[j].at = "select" /\ j \notin woken

WouldBeGranted(j) ==
    /\ ~Broken(HandleOf[j]) /\ Len(job[j].ops) = 1
    /\ ~Conflicts(HandleOf[j], job[j].ops[1])

\* On darwin a parked job that nobody has told to try again would still be
\* refused (lock.go 311-313: a release "must not be missed, or this request
\* sleeps until its timeout while the range sits free").  On linux it may be
\* grantable: releaseAll wakes it before File.Close makes the kernel let go.
NoMissedRelease ==
    \A j \in Jobs :
        os = "darwin" /\ Sleeping(j) => ~WouldBeGranted(j)
=============================================================================
