------------------------ MODULE ByteRangeLocksProofs ------------------------
(***************************************************************************)
(* Proofs about ByteRangeLocks, for every file size, every set of handles  *)
(* and of jobs and every choice of requests: the range arithmetic means    *)
(* what it should, the variables keep their types, the table never holds   *)
(* two conflicting locks on either platform, a parked request misses no    *)
(* release, and the requests of orderly clients are all or nothing.        *)
(***************************************************************************)
EXTENDS ByteRangeLocks, FiniteSetTheorems, TLAPS

\* The elements decodeLockOps lets through.
GoodElement == {e \in Element : e.start <= MaxInt}

LEMMA WordFacts == MaxWord \in Nat /\ MaxInt \in Nat /\ MaxWord = 2 * MaxInt + 1
BY LockConstants DEF MaxWord

-----------------------------------------------------------------------------
(* Ranges against the bytes they name.                                     *)

\* rangeEnd saturates where start + length leaves the word.
LEMMA RangeEndIs ==
    ASSUME NEW s \in 0..MaxInt, NEW l \in 0..MaxWord
    PROVE  rangeEnd(s, l) = IF s + l > MaxWord THEN MaxWord ELSE s + l
BY WordFacts DEF rangeEnd, plus

\* rangesOverlap (lock_ranges.go) says exactly whether two ranges share a byte
\* of the file, also where an end wraps around the word.
THEOREM OverlapIsSharedByte ==
    ASSUME NEW a, NEW b,
           a.start \in 0..MaxInt, a.length \in 1..MaxWord,
           b.start \in 0..MaxInt, b.length \in 1..MaxWord
    PROVE  rangesOverlap(a, b) <=> Bytes(a) \cap Bytes(b) # {}
<1>1. /\ rangeEnd(a.start, a.length) =
            IF a.start + a.length > MaxWord THEN MaxWord ELSE a.start + a.length
      /\ rangeEnd(b.start, b.length) =
            IF b.start + b.length > MaxWord THEN MaxWord ELSE b.start + b.length
  BY RangeEndIs, WordFacts
<1>2. ASSUME rangesOverlap(a, b) PROVE Bytes(a) \cap Bytes(b) # {}
  <2>1. CASE a.start <= b.start
    <3>1. b.start \in Bytes(a) /\ b.start \in Bytes(b)
      BY <1>1, <1>2, <2>1, WordFacts DEF rangesOverlap, Bytes
    <3> QED BY <3>1
  <2>2. CASE b.start <= a.start
    <3>1. a.start \in Bytes(a) /\ a.start \in Bytes(b)
      BY <1>1, <1>2, <2>2, WordFacts DEF rangesOverlap, Bytes
    <3> QED BY <3>1
  <2> QED BY <2>1, <2>2, WordFacts
<1>3. ASSUME Bytes(a) \cap Bytes(b) # {} PROVE rangesOverlap(a, b)
  <2>1. PICK x \in 0..MaxInt : /\ a.start <= x /\ x < a.start + a.length
                               /\ b.start <= x /\ x < b.start + b.length
    BY <1>3 DEF Bytes
  <2> QED BY <1>1, <2>1, WordFacts DEF rangesOverlap
<1> QED BY <1>2, <1>3

\* flockRange (lock_linux.go) hands the kernel exactly the bytes of the range:
\* "to end of file" is used where, and only where, the range reaches it.
THEOREM FlockRangeIsBytes ==
    ASSUME NEW e, e.start \in 0..MaxInt, e.length \in 1..MaxWord
    PROVE  flockRange(e) = Bytes(e)
<1>1. CASE e.start + e.length > MaxWord
  <2>1. plus(e.start, e.length) < e.start
    BY <1>1, WordFacts DEF plus
  <2>2. flockRange(e) = e.start..MaxInt
    BY <2>1 DEF flockRange
  <2>3. Bytes(e) = e.start..MaxInt
    BY <1>1, WordFacts DEF Bytes
  <2> QED BY <2>2, <2>3
<1>2. CASE ~(e.start + e.length > MaxWord)
  <2>1. plus(e.start, e.length) = e.start + e.length
    BY <1>2 DEF plus
  <2>2. CASE e.start + e.length > MaxInt
    <3>1. flockRange(e) = e.start..MaxInt
      BY <2>1, <2>2 DEF flockRange
    <3>2. Bytes(e) = e.start..MaxInt
      BY <2>2, WordFacts DEF Bytes
    <3> QED BY <3>1, <3>2
  <2>3. CASE ~(e.start + e.length > MaxInt)
    <3>1. flockRange(e) = e.start..(e.start + e.length - 1)
      BY <2>1, <2>3, WordFacts DEF flockRange
    <3>2. Bytes(e) = e.start..(e.start + e.length - 1)
      BY <2>3, WordFacts DEF Bytes
    <3> QED BY <3>1, <3>2
  <2> QED BY <2>2, <2>3
<1> QED BY <1>1, <1>2

-----------------------------------------------------------------------------
(* The inductive invariant: TypeOK is not inductive alone, since an entry  *)
(* of the table is a lockRange only if the element it comes from was       *)
(* decoded.                                                                *)

GoodJob ==
    {r \in Job : /\ r.ops \in Seq(GoodElement)
                 /\ r.i >= 1
                 /\ r.at = "tryMirror" => r.i <= Len(r.ops)}

JobInv == job \in [Jobs -> GoodJob]

IInv == TypeOK /\ JobInv /\ NoConflictingLocks

LEMMA RangeElements ==
    ASSUME NEW r \in lockRange
    PROVE  elementOf(r) \in GoodElement /\ unlockOf(r) \in GoodElement
<1>1. r.start \in 0..MaxInt /\ r.length \in 1..MaxWord
  BY DEF lockRange
<1>2. r.start \in 0..MaxWord /\ r.length \in 0..MaxWord /\ r.start <= MaxInt
  BY <1>1, WordFacts
<1>3. PICK k \in Kinds : elementOf(r) =
         [start |-> r.start, length |-> r.length, wait |-> FALSE, kind |-> k]
  <2> DEFINE k == IF r.exclusive THEN "exclusive" ELSE "shared"
  <2>1. k \in Kinds
    BY DEF Kinds
  <2>2. elementOf(r) = [start |-> r.start, length |-> r.length, wait |-> FALSE, kind |-> k]
    BY DEF elementOf
  <2> HIDE DEF k
  <2> QED BY <2>1, <2>2
<1>4. elementOf(r) \in GoodElement
  BY <1>2, <1>3 DEF GoodElement, Element
<1>5. unlockOf(r) = [elementOf(r) EXCEPT !.kind = "unlock"] /\ "unlock" \in Kinds
  BY DEF unlockOf, Kinds
<1>6. unlockOf(r) \in GoodElement
  BY <1>4, <1>5 DEF GoodElement, Element
<1> QED BY <1>4, <1>6

LEMMA ElementRange ==
    ASSUME NEW e \in GoodElement, e.length # 0
    PROVE  rangeOf(e) \in lockRange
BY WordFacts DEF GoodElement, Element, rangeOf, lockRange

LEMMA Decoded ==
    ASSUME NEW ops \in Requests, Decodes(ops)
    PROVE  ops \in Seq(GoodElement)
<1>1. ops \in Seq(Element)
  BY LockConstants
<1>2. ops \in [1..Len(ops) -> Element] /\ Len(ops) \in Nat
  BY <1>1
<1>3. \A i \in 1..Len(ops) : ops[i] \in GoodElement
  BY <1>2 DEF Decodes, GoodElement
<1>4. ops \in [1..Len(ops) -> GoodElement]
  BY <1>2, <1>3
<1> QED BY <1>2, <1>4

\* What rangeTable.apply leaves in the table is typed and free of conflicts.
LEMMA TableApplySafe ==
    ASSUME TypeOK, NoConflictingLocks, NEW h \in Handles, NEW e \in GoodElement,
           tableApply(h, e)
    PROVE  /\ tbl' \in [Handles -> SUBSET lockRange]
           /\ woken' \subseteq Jobs
           /\ NoConflictingLocks'
<1>t. tbl \in [Handles -> SUBSET lockRange] /\ woken \subseteq Jobs
  BY DEF TypeOK
<1>1. CASE UNCHANGED <<tbl, woken>>
  BY <1>t, <1>1 DEF NoConflictingLocks
<1>2. CASE e.length # 0 /\ ~Refuses(h, e) /\ setRanges(h, after(h, e))
  <2>1. rangeOf(e) \in lockRange
    BY <1>2, ElementRange
  <2>2. after(h, e) \subseteq lockRange /\ after(h, e) \subseteq tbl[h] \cup {rangeOf(e)}
    BY <1>t, <2>1 DEF after
  <2>3. tbl' = [tbl EXCEPT ![h] = after(h, e)] /\ woken' \subseteq Jobs
    BY <1>t, <1>2 DEF setRanges, Subscribed
  <2>4. tbl' \in [Handles -> SUBSET lockRange]
    BY <1>t, <2>2, <2>3
  <2>5. ASSUME NEW g \in Handles \ {h}, NEW r \in tbl[g], NEW s \in after(h, e),
               r.exclusive \/ s.exclusive
        PROVE  Bytes(r) \cap Bytes(s) = {} /\ Bytes(s) \cap Bytes(r) = {}
    <3>1. CASE s \in tbl[h]
      BY <2>5, <3>1 DEF NoConflictingLocks
    <3>2. CASE s \notin tbl[h]
      <4>1. s = rangeOf(e) /\ e.kind # "unlock" /\ ~Already(h, e)
        BY <2>2, <3>2 DEF after, Already
      <4>2. ~tableConflict(h, e)
        BY <1>2, <4>1 DEF Refuses
      <4>3. ~rangesOverlap(e, r)
        BY <2>5, <4>1, <4>2 DEF tableConflict, rangeOf
      <4>4. r \in lockRange
        BY <1>t
      <4>5. Bytes(e) \cap Bytes(r) = {}
        BY <1>2, <4>3, <4>4, OverlapIsSharedByte, WordFacts DEF GoodElement, Element, lockRange
      <4>6. Bytes(s) = Bytes(e)
        BY <4>1 DEF Bytes, rangeOf
      <4> QED BY <4>5, <4>6
    <3> QED BY <3>1, <3>2
  <2>6. NoConflictingLocks'
    <3> SUFFICES ASSUME NEW g \in Handles, NEW k \in Handles, g # k,
                        NEW r \in tbl'[g], NEW s \in tbl'[k], r.exclusive \/ s.exclusive
                 PROVE  Bytes(r) \cap Bytes(s) = {}
      BY DEF NoConflictingLocks, Bytes
    <3>1. CASE g = h
      <4>1. r \in after(h, e) /\ s \in tbl[k] /\ k \in Handles \ {h}
        BY <1>t, <2>3, <3>1
      <4> QED BY <4>1, <2>5
    <3>2. CASE k = h
      <4>1. s \in after(h, e) /\ r \in tbl[g] /\ g \in Handles \ {h}
        BY <1>t, <2>3, <3>2
      <4> QED BY <4>1, <2>5
    <3>3. CASE g # h /\ k # h
      BY <1>t, <2>3, <3>3 DEF NoConflictingLocks
    <3> QED BY <3>1, <3>2, <3>3
  <2> QED BY <2>3, <2>4, <2>6
<1> QED BY <1>1, <1>2 DEF tableApply

\* One applyLock step on either platform.
LEMMA ApplyStepSafe ==
    ASSUME TypeOK, NoConflictingLocks, NEW h \in Handles, NEW e \in GoodElement,
           applyStep(h, e)
    PROVE  /\ tbl' \in [Handles -> SUBSET lockRange]
           /\ woken' \subseteq Jobs
           /\ NoConflictingLocks'
           /\ ofd' \in [Handles -> [0..MaxInt -> {"none", "shared", "exclusive"}]]
<1>1. CASE tableApply(h, e) /\ UNCHANGED ofd
  BY <1>1, TableApplySafe DEF TypeOK
<1>2. CASE UNCHANGED <<tbl, woken>> /\ (UNCHANGED ofd \/ kernelApply(h, e))
  <2>1. ofd' \in [Handles -> [0..MaxInt -> {"none", "shared", "exclusive"}]]
    <3> DEFINE Modes == {"none", "shared", "exclusive"}
    <3>1. ofd \in [Handles -> [0..MaxInt -> Modes]]
      BY DEF TypeOK
    <3>2. CASE kernelApply(h, e)
      <4> DEFINE f == [b \in 0..MaxInt |-> IF b \notin flockRange(e) THEN ofd[h][b]
                         ELSE IF e.kind = "unlock" THEN "none" ELSE e.kind]
      <4>1. e.kind \in {"unlock", "shared", "exclusive"}
        BY DEF GoodElement, Element, Kinds
      <4>2. f \in [0..MaxInt -> Modes]
        BY <3>1, <4>1
      <4>3. ofd' = [ofd EXCEPT ![h] = f]
        BY <3>2 DEF kernelApply
      <4> HIDE DEF f
      <4> QED BY <3>1, <4>2, <4>3
    <3> QED BY <1>2, <3>1, <3>2
  <2> QED BY <1>2, <2>1 DEF TypeOK, NoConflictingLocks
<1> QED BY <1>1, <1>2 DEF applyStep

LEMMA NextKeepsJobs ==
    ASSUME JobInv, NEW j \in Jobs, NEW r \in GoodJob, next(j, r)
    PROVE  job' \in [Jobs -> Job] /\ JobInv'
BY DEF JobInv, next, GoodJob

\* A job goes on to an element, or starts again from the first.
LEMMA GoesOn ==
    ASSUME NEW r \in GoodJob, NEW n \in Nat, n >= 1
    PROVE  [r EXCEPT !.at = "try", !.i = n] \in GoodJob
<1> DEFINE q == [r EXCEPT !.at = "try", !.i = n]
<1>1. r \in Job /\ r.ops \in Seq(GoodElement)
  BY DEF GoodJob
<1>2. "try" \in {"idle"} \cup Trying \cup Parked
  BY DEF Trying
<1>3. q \in Job
  BY <1>1, <1>2 DEF Job
<1>4. q.ops = r.ops /\ q.i = n /\ q.at = "try"
  BY <1>1 DEF Job
<1> HIDE DEF q
<1>5. q.ops \in Seq(GoodElement) /\ q.i >= 1 /\ q.at # "tryMirror"
  BY <1>1, <1>4
<1>6. q \in GoodJob
  BY <1>3, <1>5 DEF GoodJob
<1> QED BY <1>6 DEF q

LEMMA IdleGood == Idle \in GoodJob
<1>1. Idle \in Job
  BY DEF Idle, Job
<1>2. <<>> \in Seq(GoodElement)
  OBVIOUS
<1>3. Idle.ops = <<>> /\ Idle.i = 1 /\ Idle.at = "idle"
  BY DEF Idle
<1>4. Idle.ops \in Seq(GoodElement) /\ Idle.i >= 1 /\ Idle.at # "tryMirror"
  BY <1>2, <1>3
<1> QED BY <1>1, <1>4 DEF GoodJob

\* A step of one job whose effect on the locks is safe.
LEMMA JobStep ==
    ASSUME IInv, NEW j \in Jobs, NEW r \in GoodJob, next(j, r), UNCHANGED <<os, file>>,
           tbl' \in [Handles -> SUBSET lockRange], woken' \subseteq Jobs, NoConflictingLocks',
           ofd' \in [Handles -> [0..MaxInt -> {"none", "shared", "exclusive"}]]
    PROVE  IInv'
BY NextKeepsJobs DEF IInv, TypeOK

\* A step of one job that leaves the locks alone.
LEMMA QuietStep ==
    ASSUME IInv, NEW j \in Jobs, NEW r \in GoodJob, next(j, r),
           UNCHANGED <<os, tbl, ofd, file>>, woken' \subseteq Jobs
    PROVE  IInv'
<1>1. NoConflictingLocks'
  BY DEF IInv, NoConflictingLocks
<1> QED BY <1>1, JobStep DEF IInv, TypeOK

-----------------------------------------------------------------------------
(* The steps of a job.                                                     *)

LEMMA JobActionsKeepIInv ==
    ASSUME IInv, NEW j \in Jobs,
           \/ Begin(j) \/ TryElement(j) \/ Mirror(j) \/ AllGranted(j) \/ ElementFails(j)
           \/ Undo(j) \/ UndoMirror(j) \/ Undone(j) \/ Redo(j) \/ RedoMirror(j)
           \/ Redone(j) \/ AnswerLock(j) \/ ParkLock(j) \/ Subscribe(j) \/ Retry(j)
           \/ WaitReleased(j) \/ WaitEnds(j)
    PROVE  IInv'
<1> DEFINE h == HandleOf[j]
<1>h. h \in Handles /\ tbl[h] \subseteq lockRange
  BY LockConstants DEF IInv, TypeOK
<1>j. /\ job[j] \in GoodJob /\ job[j] \in Job /\ job[j].ops \in Seq(GoodElement)
      /\ job[j].i \in Nat /\ job[j].i >= 1 /\ Len(job[j].ops) \in Nat
      /\ job[j].snap \subseteq lockRange /\ job[j].undo \subseteq lockRange
      /\ job[j].redo \subseteq lockRange /\ job[j].now \subseteq lockRange
      /\ job[j].at = "tryMirror" => job[j].i <= Len(job[j].ops)
  BY DEF IInv, JobInv, GoodJob, Job
<1>w. woken \subseteq Jobs
  BY DEF IInv, TypeOK
<1>o. ASSUME job[j].i <= Len(job[j].ops) PROVE Op(j) \in GoodElement
  BY <1>j, <1>o DEF Op
<1> HIDE DEF h
<1>1. CASE Begin(j)
  <2>1. PICK ops \in Requests :
           /\ Decodes(ops)
           /\ next(j, [Idle EXCEPT !.at = "try", !.ops = ops, !.snap = tbl[h],
                                   !.frame = TRUE])
    BY <1>1 DEF Begin, h
  <2>2. ops \in Seq(GoodElement)
    BY <2>1, Decoded
  <2>3. [Idle EXCEPT !.at = "try", !.ops = ops, !.snap = tbl[h], !.frame = TRUE] \in GoodJob
    BY <1>h, <2>2, IdleGood DEF GoodJob, Job, Trying, Idle
  <2> QED BY <1>1, <1>w, <2>1, <2>3, QuietStep DEF Begin
<1>2. CASE TryElement(j)
  <2>1. Op(j) \in GoodElement
    BY <1>2, <1>o DEF TryElement
  <2>2. [job[j] EXCEPT !.at = mirrored("try"), !.i = IF os = "linux" THEN @ ELSE @ + 1]
           \in GoodJob
    <3>1. CASE os = "linux"
      BY <1>2, <1>j, <3>1 DEF TryElement, mirrored, GoodJob, Job, Trying
    <3>2. CASE os = "darwin"
      <4>1. job[j].i + 1 \in Nat /\ job[j].i + 1 >= 1
        BY <1>j
      <4>2. [job[j] EXCEPT !.at = "try", !.i = job[j].i + 1] \in GoodJob
        BY <1>j, <4>1, GoesOn
      <4>3. mirrored("try") = "try" /\ os # "linux"
        BY <3>2 DEF mirrored
      <4> QED BY <4>2, <4>3
    <3> QED BY <3>1, <3>2 DEF IInv, TypeOK
  <2> QED BY <1>2, <1>h, <2>1, <2>2, ApplyStepSafe, JobStep DEF TryElement, h, IInv
<1>3. CASE Mirror(j)
  <2>1. Op(j) \in GoodElement
    BY <1>3, <1>j, <1>o DEF Mirror
  <2>2. [job[j] EXCEPT !.at = "try", !.i = @ + 1] \in GoodJob
    <3>1. job[j].i + 1 \in Nat /\ job[j].i + 1 >= 1
      BY <1>j
    <3> QED BY <1>j, <3>1, GoesOn
  <2> QED BY <1>3, <1>h, <2>1, <2>2, TableApplySafe, JobStep DEF Mirror, h, IInv, TypeOK
<1>4. CASE AllGranted(j)
  <2>1. [job[j] EXCEPT !.at = "granted"] \in GoodJob
    BY <1>j DEF GoodJob, Job, Trying
  <2> QED BY <1>4, <1>w, <2>1, QuietStep DEF AllGranted
<1>5. CASE ElementFails(j)
  <2> DEFINE several == Len(job[j].ops) > 1
             parks == Conflicts(h, Op(j)) /\ Op(j).wait
             u == IF several THEN tbl[h] \ job[j].snap ELSE {}
             d == IF several THEN job[j].snap ELSE {}
             a == IF several THEN "undo" ELSE "failed"
  <2>1. Op(j).wait \in BOOLEAN
    BY <1>5, <1>o DEF ElementFails, GoodElement, Element
  <2>2. parks \in BOOLEAN /\ u \subseteq lockRange /\ d \subseteq lockRange /\ a \in {"undo", "failed"}
    BY <1>h, <1>j, <2>1
  <2>3. next(j, [job[j] EXCEPT !.at = a, !.undo = u, !.redo = d, !.parks = parks])
    BY <1>5 DEF ElementFails, h
  <2> HIDE DEF parks, u, d, a, several
  <2>4. [job[j] EXCEPT !.at = a, !.undo = u, !.redo = d, !.parks = parks] \in GoodJob
    BY <1>j, <2>2 DEF GoodJob, Job, Trying
  <2> QED BY <1>5, <1>w, <2>3, <2>4, QuietStep DEF ElementFails
<1>6. CASE Undo(j)
  <2>1. PICK r \in job[j].undo :
         IF Fails(h, unlockOf(r))
         THEN /\ next(j, [job[j] EXCEPT !.undo = @ \ {r}])
              /\ UNCHANGED <<tbl, ofd, woken>>
         ELSE /\ applyStep(h, unlockOf(r))
              /\ next(j, [job[j] EXCEPT !.at = mirrored("undo"), !.undo = @ \ {r},
                                        !.now = {r}])
    BY <1>6 DEF Undo, h
  <2>2. r \in lockRange /\ unlockOf(r) \in GoodElement
    BY <1>j, RangeElements
  <2>3. [job[j] EXCEPT !.undo = @ \ {r}] \in GoodJob
    BY <1>j DEF GoodJob, Job
  <2>4. [job[j] EXCEPT !.at = mirrored("undo"), !.undo = @ \ {r}, !.now = {r}] \in GoodJob
    <3>1. mirrored("undo") \in {"undo", "undoMirror"}
      BY DEF mirrored
    <3> QED BY <1>j, <2>2, <3>1 DEF GoodJob, Job, Trying
  <2>5. CASE Fails(h, unlockOf(r))
    BY <1>6, <1>w, <2>1, <2>3, <2>5, QuietStep DEF Undo
  <2>6. CASE ~Fails(h, unlockOf(r))
    BY <1>6, <1>h, <2>1, <2>2, <2>4, <2>6, ApplyStepSafe, JobStep DEF Undo, IInv
  <2> QED BY <2>5, <2>6
<1>7. CASE UndoMirror(j)
  <2>1. PICK r \in job[j].now : tableApply(h, unlockOf(r))
    BY <1>7 DEF UndoMirror, h
  <2>2. unlockOf(r) \in GoodElement
    BY <1>j, RangeElements
  <2>3. [job[j] EXCEPT !.at = "undo"] \in GoodJob
    BY <1>j DEF GoodJob, Job, Trying
  <2> QED BY <1>7, <1>h, <2>1, <2>2, <2>3, TableApplySafe, JobStep DEF UndoMirror, IInv, TypeOK
<1>8. CASE Undone(j)
  <2>1. [job[j] EXCEPT !.at = "redo"] \in GoodJob
    BY <1>j DEF GoodJob, Job, Trying
  <2> QED BY <1>8, <1>w, <2>1, QuietStep DEF Undone
<1>9. CASE Redo(j)
  <2>1. PICK r \in job[j].redo :
         IF Fails(h, elementOf(r))
         THEN /\ next(j, [job[j] EXCEPT !.redo = @ \ {r}])
              /\ UNCHANGED <<tbl, ofd, woken>>
         ELSE /\ applyStep(h, elementOf(r))
              /\ next(j, [job[j] EXCEPT !.at = mirrored("redo"), !.redo = @ \ {r},
                                        !.now = {r}])
    BY <1>9 DEF Redo, h
  <2>2. r \in lockRange /\ elementOf(r) \in GoodElement
    BY <1>j, RangeElements
  <2>3. [job[j] EXCEPT !.redo = @ \ {r}] \in GoodJob
    BY <1>j DEF GoodJob, Job
  <2>4. [job[j] EXCEPT !.at = mirrored("redo"), !.redo = @ \ {r}, !.now = {r}] \in GoodJob
    <3>1. mirrored("redo") \in {"redo", "redoMirror"}
      BY DEF mirrored
    <3> QED BY <1>j, <2>2, <3>1 DEF GoodJob, Job, Trying
  <2>5. CASE Fails(h, elementOf(r))
    BY <1>9, <1>w, <2>1, <2>3, <2>5, QuietStep DEF Redo
  <2>6. CASE ~Fails(h, elementOf(r))
    BY <1>9, <1>h, <2>1, <2>2, <2>4, <2>6, ApplyStepSafe, JobStep DEF Redo, IInv
  <2> QED BY <2>5, <2>6
<1>10. CASE RedoMirror(j)
  <2>1. PICK r \in job[j].now : tableApply(h, elementOf(r))
    BY <1>10 DEF RedoMirror, h
  <2>2. elementOf(r) \in GoodElement
    BY <1>j, RangeElements
  <2>3. [job[j] EXCEPT !.at = "redo"] \in GoodJob
    BY <1>j DEF GoodJob, Job, Trying
  <2> QED BY <1>10, <1>h, <2>1, <2>2, <2>3, TableApplySafe, JobStep DEF RedoMirror, IInv, TypeOK
<1>11. CASE Redone(j)
  <2>1. [job[j] EXCEPT !.at = "failed", !.now = {}] \in GoodJob
    BY <1>j DEF GoodJob, Job, Trying
  <2> QED BY <1>11, <1>w, <2>1, QuietStep DEF Redone
<1>12. CASE AnswerLock(j)
  BY <1>12, <1>w, IdleGood, QuietStep DEF AnswerLock
<1>13. CASE ParkLock(j)
  <2>1. [job[j] EXCEPT !.at = IF job[j].frame THEN "subscribe" ELSE "select",
                       !.frame = FALSE, !.snap = {}] \in GoodJob
    BY <1>j DEF GoodJob, Job, Parked
  <2> QED BY <1>13, <1>w, <2>1, QuietStep DEF ParkLock
<1>14. CASE Subscribe(j)
  <2>1. [job[j] EXCEPT !.at = "retry"] \in GoodJob
    BY <1>j DEF GoodJob, Job, Parked
  <2> QED BY <1>14, <1>w, <2>1, QuietStep DEF Subscribe
<1>15. CASE Retry(j)
  <2>1. [job[j] EXCEPT !.at = "try", !.i = 1, !.snap = tbl[h], !.parks = FALSE] \in GoodJob
    <3> DEFINE q == [job[j] EXCEPT !.at = "try", !.i = 1]
    <3>0. 1 \in Nat /\ 1 >= 1
      OBVIOUS
    <3>1. q \in GoodJob
      BY <1>j, <3>0, GoesOn
    <3>2. [job[j] EXCEPT !.at = "try", !.i = 1, !.snap = tbl[h], !.parks = FALSE]
            = [q EXCEPT !.snap = tbl[h], !.parks = FALSE]
      BY <1>j DEF Job
    <3> HIDE DEF q
    <3>3. [q EXCEPT !.snap = tbl[h], !.parks = FALSE] \in GoodJob
      BY <1>h, <3>1 DEF GoodJob, Job
    <3> QED BY <3>2, <3>3
  <2> QED BY <1>15, <1>w, <2>1, QuietStep DEF Retry, h
<1>16. CASE WaitReleased(j)
  <2>1. [job[j] EXCEPT !.at = "subscribe"] \in GoodJob
    BY <1>j DEF GoodJob, Job, Parked
  <2> QED BY <1>16, <1>w, <2>1, QuietStep DEF WaitReleased
<1>17. CASE WaitEnds(j)
  BY <1>17, <1>w, IdleGood, QuietStep DEF WaitEnds
<1> QED BY <1>1, <1>2, <1>3, <1>4, <1>5, <1>6, <1>7, <1>8, <1>9, <1>10, <1>11, <1>12,
          <1>13, <1>14, <1>15, <1>16, <1>17

-----------------------------------------------------------------------------
(* The steps of a handle.                                                  *)

LEMMA HandleActionsKeepIInv ==
    ASSUME IInv, NEW h \in Handles, ReleaseAll(h) \/ CloseFile(h) \/ Reopen(h)
    PROVE  IInv'
<1>t. /\ tbl \in [Handles -> SUBSET lockRange] /\ woken \subseteq Jobs
      /\ file \in [Handles -> {"open", "closing", "closed"}]
      /\ ofd \in [Handles -> [0..MaxInt -> {"none", "shared", "exclusive"}]]
  BY DEF IInv, TypeOK
<1>1. CASE ReleaseAll(h)
  <2>1. tbl' = [tbl EXCEPT ![h] = {}] /\ woken' \subseteq Jobs
    BY <1>1, <1>t DEF ReleaseAll, setRanges, Subscribed
  <2>2. NoConflictingLocks'
    BY <1>t, <2>1 DEF IInv, NoConflictingLocks, Bytes
  <2>3. tbl' \in [Handles -> SUBSET lockRange]
    BY <1>t, <2>1
  <2>4. file' \in [Handles -> {"open", "closing", "closed"}] /\ UNCHANGED <<os, ofd, job>>
    BY <1>1, <1>t DEF ReleaseAll
  <2> QED BY <2>1, <2>2, <2>3, <2>4 DEF IInv, TypeOK, JobInv
<1>2. CASE CloseFile(h)
  <2>1. ofd' \in [Handles -> [0..MaxInt -> {"none", "shared", "exclusive"}]]
    BY <1>2, <1>t DEF CloseFile, Unlocked
  <2>2. file' \in [Handles -> {"open", "closing", "closed"}] /\ UNCHANGED <<os, tbl, job, woken>>
    BY <1>2, <1>t DEF CloseFile
  <2> QED BY <2>1, <2>2 DEF IInv, TypeOK, JobInv, NoConflictingLocks
<1>3. CASE Reopen(h)
  <2>1. file' \in [Handles -> {"open", "closing", "closed"}]
        /\ UNCHANGED <<os, tbl, ofd, job, woken>>
    BY <1>3, <1>t DEF Reopen
  <2> QED BY <2>1 DEF IInv, TypeOK, JobInv, NoConflictingLocks
<1> QED BY <1>1, <1>2, <1>3

-----------------------------------------------------------------------------
LEMMA InitIInv == Init => IInv
<1> SUFFICES ASSUME Init PROVE IInv
  OBVIOUS
<1>1. job \in [Jobs -> Job] /\ JobInv
  BY IdleGood DEF Init, JobInv, GoodJob
<1>2. TypeOK
  BY <1>1 DEF Init, TypeOK, Unlocked
<1>3. NoConflictingLocks
  BY DEF Init, NoConflictingLocks
<1> QED BY <1>1, <1>2, <1>3 DEF IInv

LEMMA NextIInv == IInv /\ [Next]_vars => IInv'
<1> SUFFICES ASSUME IInv, [Next]_vars PROVE IInv'
  OBVIOUS
<1>1. CASE UNCHANGED vars
  BY <1>1 DEF IInv, TypeOK, JobInv, NoConflictingLocks, vars
<1>2. CASE Next
  BY <1>2, JobActionsKeepIInv, HandleActionsKeepIInv DEF Next
<1> QED BY <1>1, <1>2

\* The variables of the lock manager keep their types.
THEOREM LockTypes == Spec => []TypeOK
<1>1. IInv => TypeOK
  BY DEF IInv
<1> QED BY <1>1, InitIInv, NextIInv, PTL DEF Spec

\* No two handles ever hold conflicting ranges that share a byte, whatever
\* requests overlap, fail, roll back or are retried (rangeTable.apply).
THEOREM NoConflictEver == Spec => []NoConflictingLocks
<1>1. IInv => NoConflictingLocks
  BY DEF IInv
<1> QED BY <1>1, InitIInv, NextIInv, PTL DEF Spec

-----------------------------------------------------------------------------
(* No release is missed.  The argument is about the in-process table: as   *)
(* long as a sleeping job has not been woken, ranges were only added to    *)
(* the table, so what it conflicts with is still there.                    *)

Finite == \A h \in Handles : IsFiniteSet(tbl[h])

\* The job sleeps, or is about to, after an attempt that took its channel first.
Dozing(j) == job[j].at = "select" \/ (job[j].at = "failed" /\ job[j].parks /\ ~job[j].frame)

\* What a job of one element that dozes with its channel open waits for is
\* there; and only requests of several elements are rolled back.
Waits(j) ==
    /\ job[j].at \in {"undo", "undoMirror", "redo", "redoMirror"} => Len(job[j].ops) > 1
    /\ os = "darwin" /\ Dozing(j) /\ j \notin woken /\ ~Broken(HandleOf[j])
       /\ Len(job[j].ops) = 1
       => LET e == job[j].ops[1] IN
          e.length # 0 /\ e.kind # "unlock" /\ tableConflict(HandleOf[j], e)

WaitInv == Finite /\ \A j \in Jobs : Waits(j)

\* Every job but j that holds a channel is woken, or loses no obstacle.
Alerts(j) ==
    \A k \in Jobs \ {j} : k \in Subscribed /\ k \notin woken' =>
        k \notin woken /\ \A g \in Handles : tbl[g] \subseteq tbl'[g]

\* rangeTable.publish: a set that lost a member is smaller.
LEMMA PublishAlerts ==
    ASSUME TypeOK, Finite, NEW h \in Handles, NEW S, setRanges(h, S),
           S \subseteq tbl[h] \/ (tbl[h] \subseteq S /\ IsFiniteSet(S))
    PROVE  Finite' /\ \A j \in Jobs : Alerts(j)
<1>1. tbl' = [tbl EXCEPT ![h] = S] /\ tbl \in [Handles -> SUBSET lockRange]
  BY DEF setRanges, TypeOK
<1>2. IsFiniteSet(tbl[h])
  BY DEF Finite
<1>3. IsFiniteSet(S)
  BY <1>2, FS_Subset
<1>4. Finite'
  BY <1>1, <1>3 DEF Finite
<1>5. ASSUME NEW j \in Jobs, NEW k \in Jobs \ {j}, k \in Subscribed, k \notin woken'
      PROVE  k \notin woken /\ tbl[h] \subseteq S
  <2>1. k \notin woken /\ ~(Cardinality(S) < Cardinality(tbl[h]))
    BY <1>5 DEF setRanges
  <2>2. CASE S \subseteq tbl[h]
    <3>1. Cardinality(S) \in Nat /\ Cardinality(tbl[h]) \in Nat
      BY <1>2, <1>3, FS_CardinalityType
    <3>2. Cardinality(S) <= Cardinality(tbl[h]) /\ (Cardinality(tbl[h]) = Cardinality(S) => tbl[h] = S)
      BY <1>2, <2>2, FS_Subset
    <3> QED BY <2>1, <3>1, <3>2
  <2>3. CASE tbl[h] \subseteq S
    BY <2>1, <2>3
  <2> QED BY <2>2, <2>3
<1>6. \A j \in Jobs : Alerts(j)
  BY <1>1, <1>5 DEF Alerts
<1> QED BY <1>4, <1>6

LEMMA TableAlerts ==
    ASSUME TypeOK, Finite, NEW h \in Handles, NEW e \in GoodElement, tableApply(h, e)
    PROVE  Finite' /\ \A j \in Jobs : Alerts(j)
<1>1. CASE UNCHANGED <<tbl, woken>>
  BY <1>1 DEF Finite, Alerts
<1>2. CASE setRanges(h, after(h, e))
  <2>1. IsFiniteSet(tbl[h])
    BY DEF Finite
  <2>2. IsFiniteSet(tbl[h] \cup {rangeOf(e)})
    BY <2>1, FS_AddElement
  <2>3. after(h, e) \subseteq tbl[h] \/ (tbl[h] \subseteq after(h, e) /\ IsFiniteSet(after(h, e)))
    BY <2>2 DEF after
  <2> QED BY <1>2, <2>3, PublishAlerts
<1> QED BY <1>1, <1>2 DEF tableApply

LEMMA ApplyAlerts ==
    ASSUME TypeOK, Finite, NEW h \in Handles, NEW e \in GoodElement, applyStep(h, e)
    PROVE  Finite' /\ \A j \in Jobs : Alerts(j)
<1>1. CASE tableApply(h, e)
  BY <1>1, TableAlerts
<1>2. CASE UNCHANGED <<tbl, woken>>
  BY <1>2 DEF Finite, Alerts
<1> QED BY <1>1, <1>2 DEF applyStep

\* Whoever is not part of a step goes on waiting for something.
LEMMA OthersWait ==
    ASSUME TypeOK, WaitInv, NEW k \in Jobs, UNCHANGED os, job'[k] = job[k],
           file'[HandleOf[k]] = file[HandleOf[k]] \/ file'[HandleOf[k]] # "open",
           k \in Subscribed /\ k \notin woken' =>
               k \notin woken /\ \A g \in Handles : tbl[g] \subseteq tbl'[g]
    PROVE  Waits(k)'
<1>1. Waits(k)
  BY DEF WaitInv
<1>2. Dozing(k)' => Dozing(k) /\ k \in Subscribed
  BY DEF Dozing, Subscribed, Trying
<1>3. ~Broken(HandleOf[k])' => ~Broken(HandleOf[k])
  BY DEF Broken
<1>4. ASSUME NEW e, tableConflict(HandleOf[k], e), \A g \in Handles : tbl[g] \subseteq tbl'[g]
      PROVE  \E g \in Handles \ {HandleOf[k]} : \E r \in tbl'[g] :
                 rangesOverlap(e, r) /\ (e.kind = "exclusive" \/ r.exclusive)
  BY <1>4 DEF tableConflict
<1>5. ASSUME os' = "darwin", Dozing(k)', k \notin woken', ~Broken(HandleOf[k])',
             Len(job[k].ops) = 1
      PROVE  /\ job[k].ops[1].length # 0 /\ job[k].ops[1].kind # "unlock"
             /\ \E g \in Handles \ {HandleOf[k]} : \E r \in tbl'[g] :
                    /\ rangesOverlap(job[k].ops[1], r)
                    /\ job[k].ops[1].kind = "exclusive" \/ r.exclusive
  <2>1. k \notin woken /\ \A g \in Handles : tbl[g] \subseteq tbl'[g]
    BY <1>2, <1>5
  <2>2. /\ job[k].ops[1].length # 0 /\ job[k].ops[1].kind # "unlock"
        /\ tableConflict(HandleOf[k], job[k].ops[1])
    BY <1>1, <1>2, <1>3, <1>5, <2>1 DEF Waits
  <2> QED BY <1>4, <2>1, <2>2
<1>6. job[k].at \in {"undo", "undoMirror", "redo", "redoMirror"} => Len(job[k].ops) > 1
  BY <1>1 DEF Waits
<1> HIDE DEF Dozing, Broken
<1> QED BY <1>5, <1>6 DEF Waits, tableConflict

\* A step of job j.
LEMMA JobStepWaits ==
    ASSUME TypeOK, WaitInv, NEW j \in Jobs, NEW r, next(j, r), UNCHANGED <<os, file>>,
           Finite', Alerts(j), Waits(j)'
    PROVE  WaitInv'
<1>1. \A k \in Jobs \ {j} : job'[k] = job[k]
  BY DEF next, TypeOK
<1>2. \A k \in Jobs \ {j} : Waits(k)'
  BY <1>1, OthersWait DEF Alerts
<1> QED BY <1>2 DEF WaitInv





\* A step that leaves the table alone, and wakes nobody.
LEMMA QuietStepWaits ==
    ASSUME TypeOK, WaitInv, NEW j \in Jobs, NEW r, next(j, r), UNCHANGED <<os, tbl, file>>,
           woken' = woken \/ woken' = woken \ {j}, Waits(j)'
    PROVE  WaitInv'
  BY JobStepWaits DEF WaitInv, Finite, Alerts

\* The stages in which Waits says something of a job.
LEMMA AwakeWaits ==
    ASSUME NEW j \in Jobs,
           job'[j].at \notin {"undo", "undoMirror", "redo", "redoMirror", "failed", "select"}
    PROVE  Waits(j)'
  BY DEF Waits, Dozing

LEMMA JobActionsKeepWaits ==
    ASSUME IInv, WaitInv, NEW j \in Jobs,
           \/ Begin(j) \/ TryElement(j) \/ Mirror(j) \/ AllGranted(j) \/ ElementFails(j)
           \/ Undo(j) \/ UndoMirror(j) \/ Undone(j) \/ Redo(j) \/ RedoMirror(j)
           \/ Redone(j) \/ AnswerLock(j) \/ ParkLock(j) \/ Subscribe(j) \/ Retry(j)
           \/ WaitReleased(j) \/ WaitEnds(j)
    PROVE  WaitInv'
<1> DEFINE h == HandleOf[j]
           Rolling == {"undo", "undoMirror", "redo", "redoMirror"}
<1>h. h \in Handles /\ tbl[h] \subseteq lockRange
  BY LockConstants DEF IInv, TypeOK
<1>j. /\ job[j] \in Job /\ job[j].ops \in Seq(GoodElement)
      /\ job[j].i \in Nat /\ job[j].i >= 1 /\ Len(job[j].ops) \in Nat
      /\ job[j].undo \subseteq lockRange
      /\ job[j].redo \subseteq lockRange /\ job[j].now \subseteq lockRange
      /\ job[j].at = "tryMirror" => job[j].i <= Len(job[j].ops)
  BY DEF IInv, JobInv, GoodJob, Job
<1>o. ASSUME job[j].i <= Len(job[j].ops) PROVE Op(j) \in GoodElement
  BY <1>j, <1>o DEF Op
<1>t. TypeOK /\ Finite /\ Waits(j)
  BY DEF IInv, WaitInv
<1>n. ASSUME NEW r, next(j, r) PROVE job'[j] = r
  BY <1>n, <1>t DEF next, TypeOK
<1>r. ASSUME job[j].at \in Rolling, job'[j].at \in Rolling \cup {"failed"},
             job'[j].ops = job[j].ops
      PROVE  Waits(j)'
  <2>1. job[j].at \in Rolling => Len(job[j].ops) > 1
    BY <1>t, Zenon DEF Waits
  <2>2. PICK n \in Nat : n = Len(job[j].ops)
    BY <1>j
  <2>3. n > 1
    BY <1>r, <2>1, <2>2
  <2>4. n # 1
    BY <2>3
  <2>5. n = Len(job'[j].ops)
    BY <1>r, <2>2
  <2> QED BY <2>3, <2>4, <2>5, Zenon DEF Waits
<1> HIDE DEF h, Rolling
<1>1. CASE Begin(j)
  <2>1. PICK ops \in Requests :
           next(j, [Idle EXCEPT !.at = "try", !.ops = ops, !.snap = tbl[h], !.frame = TRUE])
    BY <1>1 DEF Begin, h
  <2>2. job'[j].at = "try"
    BY <1>n, <2>1 DEF Idle
  <2>3. UNCHANGED <<os, tbl, file>> /\ woken' = woken
    BY <1>1 DEF Begin
  <2> QED BY <1>t, <2>1, <2>2, <2>3, AwakeWaits, QuietStepWaits
<1>2. CASE TryElement(j)
  <2> DEFINE r == [job[j] EXCEPT !.at = mirrored("try"),
                                 !.i = IF os = "linux" THEN @ ELSE @ + 1]
  <2>1. Op(j) \in GoodElement /\ applyStep(h, Op(j)) /\ next(j, r) /\ UNCHANGED <<os, file>>
    BY <1>2, <1>o DEF TryElement, h
  <2>2. r.at \in {"try", "tryMirror"}
    BY <1>j DEF Job, mirrored
  <2> HIDE DEF r
  <2>3. Waits(j)'
    BY <1>n, <2>1, <2>2, AwakeWaits
  <2> QED BY <1>h, <1>t, <2>1, <2>3, ApplyAlerts, JobStepWaits
<1>3. CASE Mirror(j)
  <2> DEFINE r == [job[j] EXCEPT !.at = "try", !.i = @ + 1]
  <2>1. Op(j) \in GoodElement /\ tableApply(h, Op(j)) /\ next(j, r) /\ UNCHANGED <<os, file>>
    BY <1>3, <1>o, <1>j DEF Mirror, h
  <2>2. r.at = "try"
    BY <1>j DEF Job
  <2> HIDE DEF r
  <2>3. Waits(j)'
    BY <1>n, <2>1, <2>2, AwakeWaits
  <2> QED BY <1>h, <1>t, <2>1, <2>3, TableAlerts, JobStepWaits
<1>4. CASE AllGranted(j)
  <2> DEFINE r == [job[j] EXCEPT !.at = "granted"]
  <2>1. next(j, r) /\ UNCHANGED <<os, tbl, file>> /\ woken' = woken
    BY <1>4 DEF AllGranted
  <2>2. r.at = "granted"
    BY <1>j DEF Job
  <2> HIDE DEF r
  <2> QED BY <1>t, <1>n, <2>1, <2>2, AwakeWaits, QuietStepWaits
<1>5. CASE ElementFails(j)
  <2> DEFINE several == Len(job[j].ops) > 1
             parks == Conflicts(h, Op(j)) /\ Op(j).wait
             u == IF several THEN tbl[h] \ job[j].snap ELSE {}
             d == IF several THEN job[j].snap ELSE {}
             a == IF several THEN "undo" ELSE "failed"
             r == [job[j] EXCEPT !.at = a, !.undo = u, !.redo = d, !.parks = parks]
  <2>1. /\ next(j, r) /\ UNCHANGED <<os, tbl, file>> /\ woken' = woken
        /\ job[j].i <= Len(job[j].ops)
    BY <1>5 DEF ElementFails, h
  <2>2. r.at = a /\ r.ops = job[j].ops /\ r.parks = parks
    BY <1>j DEF Job
  <2> HIDE DEF r
  <2>3. job'[j].at = a /\ job'[j].ops = job[j].ops /\ job'[j].parks = parks
    BY <1>n, <2>1, <2>2
  <2>4. CASE several
    BY <1>t, <2>1, <2>3, <2>4, QuietStepWaits DEF Waits, Dozing
  <2>5. CASE ~several
    <3>1. Len(job[j].ops) = 1 => Op(j) = job[j].ops[1]
      BY <1>j, <2>1 DEF Op
    <3>2. os = "darwin" /\ parks =>
             Op(j).length # 0 /\ Op(j).kind # "unlock" /\ tableConflict(h, Op(j))
      BY DEF Conflicts
    <3>3. \A e : tableConflict(h, e)' <=> tableConflict(h, e)
      BY <2>1 DEF tableConflict
    <3> HIDE DEF parks, u, d
    <3>4. Waits(j)'
      BY <2>1, <2>3, <2>5, <3>1, <3>2, <3>3 DEF Waits, Dozing, h, tableConflict
    <3> QED BY <1>t, <2>1, <3>4, QuietStepWaits
  <2> QED BY <2>4, <2>5
<1>6. CASE Undo(j)
  <2>1. PICK r \in job[j].undo :
         IF Fails(h, unlockOf(r))
         THEN /\ next(j, [job[j] EXCEPT !.undo = @ \ {r}])
              /\ UNCHANGED <<tbl, ofd, woken>>
         ELSE /\ applyStep(h, unlockOf(r))
              /\ next(j, [job[j] EXCEPT !.at = mirrored("undo"), !.undo = @ \ {r},
                                        !.now = {r}])
    BY <1>6 DEF Undo, h
  <2> DEFINE q == [job[j] EXCEPT !.undo = @ \ {r}]
             p == [job[j] EXCEPT !.at = mirrored("undo"), !.undo = @ \ {r}, !.now = {r}]
  <2>2. UNCHANGED <<os, file>> /\ job[j].at = "undo" /\ unlockOf(r) \in GoodElement
    BY <1>6, <1>j, RangeElements DEF Undo
  <2>3. q.at = "undo" /\ q.ops = job[j].ops /\ p.at \in Rolling /\ p.ops = job[j].ops
    BY <1>j, <2>2 DEF Job, mirrored, Rolling
  <2>4. ASSUME NEW x, next(j, x), x = q \/ x = p PROVE Waits(j)'
    <3> HIDE DEF q, p
    <3>1. job'[j] = x
      BY <1>n, <2>4
    <3> QED BY <1>r, <2>2, <2>3, <2>4, <3>1 DEF Rolling
  <2>5. CASE Fails(h, unlockOf(r))
    <3>1. next(j, q) /\ UNCHANGED <<tbl, woken>>
      BY <2>1, <2>5
    <3> HIDE DEF q, p
    <3> QED BY <1>t, <2>2, <2>4, <3>1, QuietStepWaits
  <2>6. CASE ~Fails(h, unlockOf(r))
    <3>1. next(j, p) /\ applyStep(h, unlockOf(r))
      BY <2>1, <2>6
    <3> HIDE DEF q, p
    <3> QED BY <1>h, <1>t, <2>2, <2>4, <3>1, ApplyAlerts, JobStepWaits
  <2> QED BY <2>5, <2>6
<1>7. CASE UndoMirror(j)
  <2> DEFINE q == [job[j] EXCEPT !.at = "undo"]
  <2>1. PICK r \in job[j].now : tableApply(h, unlockOf(r))
    BY <1>7 DEF UndoMirror, h
  <2>2. unlockOf(r) \in GoodElement /\ next(j, q) /\ UNCHANGED <<os, file>>
        /\ job[j].at = "undoMirror"
    BY <1>7, <1>j, RangeElements DEF UndoMirror
  <2>3. q.at = "undo" /\ q.ops = job[j].ops
    BY <1>j DEF Job
  <2> HIDE DEF q
  <2>4. Waits(j)'
    BY <1>n, <1>r, <2>2, <2>3 DEF Rolling
  <2> QED BY <1>h, <1>t, <2>1, <2>2, <2>4, TableAlerts, JobStepWaits
<1>8. CASE Undone(j)
  <2> DEFINE q == [job[j] EXCEPT !.at = "redo"]
  <2>1. next(j, q) /\ UNCHANGED <<os, tbl, file>> /\ woken' = woken /\ job[j].at = "undo"
    BY <1>8 DEF Undone
  <2>2. q.at = "redo" /\ q.ops = job[j].ops
    BY <1>j DEF Job
  <2> HIDE DEF q
  <2>3. Waits(j)'
    BY <1>n, <1>r, <2>1, <2>2 DEF Rolling
  <2> QED BY <1>t, <2>1, <2>3, QuietStepWaits
<1>9. CASE Redo(j)
  <2>1. PICK r \in job[j].redo :
         IF Fails(h, elementOf(r))
         THEN /\ next(j, [job[j] EXCEPT !.redo = @ \ {r}])
              /\ UNCHANGED <<tbl, ofd, woken>>
         ELSE /\ applyStep(h, elementOf(r))
              /\ next(j, [job[j] EXCEPT !.at = mirrored("redo"), !.redo = @ \ {r},
                                        !.now = {r}])
    BY <1>9 DEF Redo, h
  <2> DEFINE q == [job[j] EXCEPT !.redo = @ \ {r}]
             p == [job[j] EXCEPT !.at = mirrored("redo"), !.redo = @ \ {r}, !.now = {r}]
  <2>2. UNCHANGED <<os, file>> /\ job[j].at = "redo" /\ elementOf(r) \in GoodElement
    BY <1>9, <1>j, RangeElements DEF Redo
  <2>3. q.at = "redo" /\ q.ops = job[j].ops /\ p.at \in Rolling /\ p.ops = job[j].ops
    BY <1>j, <2>2 DEF Job, mirrored, Rolling
  <2>4. ASSUME NEW x, next(j, x), x = q \/ x = p PROVE Waits(j)'
    <3> HIDE DEF q, p
    <3>1. job'[j] = x
      BY <1>n, <2>4
    <3> QED BY <1>r, <2>2, <2>3, <2>4, <3>1 DEF Rolling
  <2>5. CASE Fails(h, elementOf(r))
    <3>1. next(j, q) /\ UNCHANGED <<tbl, woken>>
      BY <2>1, <2>5
    <3> HIDE DEF q, p
    <3> QED BY <1>t, <2>2, <2>4, <3>1, QuietStepWaits
  <2>6. CASE ~Fails(h, elementOf(r))
    <3>1. next(j, p) /\ applyStep(h, elementOf(r))
      BY <2>1, <2>6
    <3> HIDE DEF q, p
    <3> QED BY <1>h, <1>t, <2>2, <2>4, <3>1, ApplyAlerts, JobStepWaits
  <2> QED BY <2>5, <2>6
<1>10. CASE RedoMirror(j)
  <2> DEFINE q == [job[j] EXCEPT !.at = "redo"]
  <2>1. PICK r \in job[j].now : tableApply(h, elementOf(r))
    BY <1>10 DEF RedoMirror, h
  <2>2. elementOf(r) \in GoodElement /\ next(j, q) /\ UNCHANGED <<os, file>>
        /\ job[j].at = "redoMirror"
    BY <1>10, <1>j, RangeElements DEF RedoMirror
  <2>3. q.at = "redo" /\ q.ops = job[j].ops
    BY <1>j DEF Job
  <2> HIDE DEF q
  <2>4. Waits(j)'
    BY <1>n, <1>r, <2>2, <2>3 DEF Rolling
  <2> QED BY <1>h, <1>t, <2>1, <2>2, <2>4, TableAlerts, JobStepWaits
<1>11. CASE Redone(j)
  <2> DEFINE q == [job[j] EXCEPT !.at = "failed", !.now = {}]
  <2>1. next(j, q) /\ UNCHANGED <<os, tbl, file>> /\ woken' = woken /\ job[j].at = "redo"
    BY <1>11 DEF Redone
  <2>2. q.at = "failed" /\ q.ops = job[j].ops
    BY <1>j DEF Job
  <2> HIDE DEF q
  <2>3. Waits(j)'
    BY <1>n, <1>r, <2>1, <2>2 DEF Rolling
  <2> QED BY <1>t, <2>1, <2>3, QuietStepWaits
<1>12. CASE AnswerLock(j) \/ WaitEnds(j)
  <2>1. next(j, Idle) /\ UNCHANGED <<os, tbl, file>> /\ woken' = woken \ {j}
    BY <1>12 DEF AnswerLock, WaitEnds
  <2>2. Idle.at = "idle"
    BY DEF Idle
  <2> QED BY <1>t, <1>n, <2>1, <2>2, AwakeWaits, QuietStepWaits
<1>13. CASE ParkLock(j)
  <2> DEFINE q == [job[j] EXCEPT !.at = IF job[j].frame THEN "subscribe" ELSE "select",
                                 !.frame = FALSE, !.snap = {}]
  <2>1. /\ next(j, q) /\ UNCHANGED <<os, tbl, file>> /\ woken' = woken
        /\ job[j].at = "failed" /\ job[j].parks
    BY <1>13 DEF ParkLock
  <2>2. q.at = (IF job[j].frame THEN "subscribe" ELSE "select") /\ q.ops = job[j].ops
    BY <1>j DEF Job
  <2> HIDE DEF q
  <2>3. job'[j].at = (IF job[j].frame THEN "subscribe" ELSE "select")
        /\ job'[j].ops = job[j].ops
    BY <1>n, <2>1, <2>2
  <2>4. CASE job[j].frame
    BY <1>t, <2>1, <2>3, <2>4, AwakeWaits, QuietStepWaits
  <2>5. CASE ~job[j].frame
    <3>1. Dozing(j)
      BY <2>1, <2>5 DEF Dozing
    <3>2. Waits(j)'
      BY <1>t, <2>1, <2>3, <2>5, <3>1 DEF Waits, tableConflict, Broken
    <3> QED BY <1>t, <2>1, <3>2, QuietStepWaits
  <2> QED BY <2>4, <2>5
<1>14. CASE Subscribe(j) \/ Retry(j) \/ WaitReleased(j)
  <2>1. UNCHANGED <<os, tbl, file>> /\ (woken' = woken \/ woken' = woken \ {j})
    BY <1>14 DEF Subscribe, Retry, WaitReleased
  <2>2. PICK r : next(j, r) /\ r.at \in {"retry", "try", "subscribe"}
    <3>1. \A a \in {"retry", "subscribe"} : [job[j] EXCEPT !.at = a].at = a
      BY <1>j DEF Job
    <3>2. [job[j] EXCEPT !.at = "try", !.i = 1, !.snap = tbl[h], !.parks = FALSE].at = "try"
      BY <1>j DEF Job
    <3> QED BY <1>14, <3>1, <3>2 DEF Subscribe, Retry, WaitReleased, h
  <2> QED BY <1>t, <1>n, <2>1, <2>2, AwakeWaits, QuietStepWaits
<1> QED BY <1>1, <1>2, <1>3, <1>4, <1>5, <1>6, <1>7, <1>8, <1>9, <1>10, <1>11, <1>12,
          <1>13, <1>14

LEMMA HandleActionsKeepWaits ==
    ASSUME IInv, WaitInv, NEW h \in Handles, ReleaseAll(h) \/ CloseFile(h) \/ Reopen(h)
    PROVE  WaitInv'
<1>t. TypeOK /\ Finite /\ file \in [Handles -> {"open", "closing", "closed"}]
  BY DEF IInv, WaitInv, TypeOK
<1>1. CASE ReleaseAll(h)
  <2>1. setRanges(h, {}) /\ UNCHANGED <<os, job>> /\ file' = [file EXCEPT ![h] = "closing"]
    BY <1>1 DEF ReleaseAll
  <2>2. Finite' /\ \A j \in Jobs : Alerts(j)
    BY <1>t, <2>1, PublishAlerts
  <2>3. ASSUME NEW k \in Jobs, k \in Subscribed, k \notin woken'
        PROVE  k \notin woken /\ \A g \in Handles : tbl[g] \subseteq tbl'[g]
    <3>1. k \notin woken /\ ~(Cardinality({}) < Cardinality(tbl[h]))
      BY <2>1, <2>3 DEF setRanges
    <3>2. IsFiniteSet(tbl[h])
      BY <1>t DEF Finite
    <3>3. tbl[h] = {}
      BY <3>1, <3>2, FS_EmptySet, FS_CardinalityType
    <3>4. tbl' = [tbl EXCEPT ![h] = {}] /\ tbl \in [Handles -> SUBSET lockRange]
      BY <1>t, <2>1 DEF setRanges, TypeOK
    <3> QED BY <3>1, <3>3, <3>4
  <2>4. \A k \in Jobs : file'[HandleOf[k]] \in {file[HandleOf[k]], "closing"}
    BY <1>t, <2>1, LockConstants
  <2>5. \A k \in Jobs : Waits(k)'
    BY <1>t, <2>1, <2>3, <2>4, OthersWait
  <2> QED BY <2>2, <2>5 DEF WaitInv
<1>2. CASE CloseFile(h)
  <2>1. UNCHANGED <<os, tbl, job, woken>> /\ file' = [file EXCEPT ![h] = "closed"]
    BY <1>2 DEF CloseFile
  <2>2. \A k \in Jobs : file'[HandleOf[k]] \in {file[HandleOf[k]], "closed"}
    BY <1>t, <2>1, LockConstants
  <2>3. \A k \in Jobs : Waits(k)'
    BY <1>t, <2>1, <2>2, OthersWait
  <2> QED BY <1>t, <2>1, <2>3 DEF WaitInv, Finite
<1>3. CASE Reopen(h)
  <2>1. /\ UNCHANGED <<os, tbl, job, woken>> /\ file' = [file EXCEPT ![h] = "open"]
        /\ \A j \in Jobs : HandleOf[j] = h => job[j].at = "idle"
    BY <1>3 DEF Reopen
  <2>2. ASSUME NEW k \in Jobs, HandleOf[k] # h PROVE Waits(k)'
    <3>1. file'[HandleOf[k]] = file[HandleOf[k]]
      BY <1>t, <2>1, <2>2, LockConstants
    <3> QED BY <1>t, <2>1, <3>1, OthersWait
  <2>3. ASSUME NEW k \in Jobs, HandleOf[k] = h PROVE Waits(k)'
    BY <2>1, <2>3, AwakeWaits
  <2> QED BY <1>t, <2>1, <2>2, <2>3 DEF WaitInv, Finite
<1> QED BY <1>1, <1>2, <1>3

\* On darwin a parked LOCK of one element that nobody has told to try again
\* would still be refused: whatever is released between its failed attempt and
\* its sleep wakes it (awaitLock takes the release channel before it tries;
\* lock.go, rangeTable.publish).
THEOREM ReleaseNeverMissed == Spec => []NoMissedRelease
<1>1. Init => IInv /\ WaitInv
  <2> SUFFICES ASSUME Init PROVE WaitInv
    BY InitIInv
  <2>1. \A h \in Handles : tbl[h] = {}
    BY DEF Init
  <2>2. \A j \in Jobs : job[j].at = "idle"
    BY DEF Init, Idle
  <2> QED BY <2>1, <2>2, FS_EmptySet DEF WaitInv, Finite, Waits, Dozing
<1>2. IInv /\ WaitInv /\ [Next]_vars => IInv' /\ WaitInv'
  <2> SUFFICES ASSUME IInv, WaitInv, [Next]_vars PROVE WaitInv'
    BY NextIInv
  <2>1. CASE UNCHANGED vars
    BY <2>1 DEF vars, WaitInv, Finite, Waits, Dozing, tableConflict, Broken
  <2>2. CASE Next
    BY <2>2, JobActionsKeepWaits, HandleActionsKeepWaits DEF Next
  <2> QED BY <2>1, <2>2
<1>3. IInv /\ WaitInv => NoMissedRelease
  <2> SUFFICES ASSUME IInv, WaitInv, NEW j \in Jobs, os = "darwin", Sleeping(j),
                      WouldBeGranted(j)
               PROVE  FALSE
    BY DEF NoMissedRelease
  <2> DEFINE h == HandleOf[j]
             e == job[j].ops[1]
  <2>1. e.length # 0 /\ e.kind # "unlock" /\ tableConflict(h, e)
    BY DEF WaitInv, Waits, Dozing, Sleeping, WouldBeGranted
  <2>2. e \in GoodElement /\ h \in Handles
    <3>1. job[j].ops \in Seq(GoodElement) /\ Len(job[j].ops) = 1
      BY DEF IInv, JobInv, GoodJob, WouldBeGranted
    <3> QED BY <3>1, LockConstants
  <2>3. PICK g \in Handles \ {h} : \E r \in tbl[g] :
           rangesOverlap(e, r) /\ (e.kind = "exclusive" \/ r.exclusive)
    BY <2>1 DEF tableConflict
  <2>4. PICK r \in tbl[g] : rangesOverlap(e, r) /\ (e.kind = "exclusive" \/ r.exclusive)
    BY <2>3
  <2> HIDE DEF e, h
  <2>5. r \in lockRange
    BY <2>3, <2>4 DEF IInv, TypeOK
  <2>6. Bytes(e) \cap Bytes(r) # {}
    BY <2>1, <2>2, <2>4, <2>5, OverlapIsSharedByte, WordFacts DEF GoodElement, Element, lockRange
  <2>7. Bytes(rangeOf(e)) = Bytes(e) /\ (rangeOf(e).exclusive <=> e.kind = "exclusive")
    BY DEF Bytes, rangeOf
  <2>8. rangeOf(e) \notin tbl[h]
    BY <2>2, <2>3, <2>4, <2>6, <2>7 DEF IInv, NoConflictingLocks
  <2>9. Conflicts(h, e)
    BY <2>1, <2>8 DEF Conflicts, Already, WouldBeGranted, h
  <2> QED BY <2>9 DEF WouldBeGranted, h, e
<1> QED BY <1>1, <1>2, <1>3, PTL DEF Spec

-----------------------------------------------------------------------------
(* A request is all or nothing, of clients that play by the rules.  The    *)
(* code does not check these rules, and the promise fails without them:    *)
(* what a request unlocks can be taken by others before the rollback puts  *)
(* it back, and one element can undo another.                              *)

LocksOnly(ops) == \A n \in 1..Len(ops) : ops[n].kind # "unlock"
UnlocksOnly(ops) == \A n \in 1..Len(ops) : ops[n].kind = "unlock" \/ ops[n].length = 0

\* The elements of a request that locks are clear of each other, or repeated.
Apart(ops) ==
    \A m, n \in 1..Len(ops) :
        ~rangesOverlap(ops[m], ops[n]) \/ rangeOf(ops[m]) = rangeOf(ops[n])

\* Clients ask for ranges clear of what they hold (TidyClients), do not mix
\* locks and unlocks in a request ([MS-SMB2] 3.3.5.14), and have one LOCK request
\* of a handle under way at a time.
Orderly ==
    /\ TidyClients
    /\ \A j, k \in Jobs : HandleOf[j] = HandleOf[k] => j = k
    /\ \A ops \in Requests : (LocksOnly(ops) \/ UnlocksOnly(ops)) /\ Apart(ops)

\* The file does not go away under an attempt, a parked request has no frame,
\* and only requests that lock fail.
Live(J, F) ==
    /\ J.at \in Trying => F # "closing" /\ (J.frame => F = "open")
    /\ J.at \in Parked => ~J.frame
    /\ J.at # "idle" /\ ~LocksOnly(J.ops) => J.at \in {"try", "tryMirror", "granted"} /\ J.frame

\* Held, of a table and of the kernel's locks.
HeldIn(p, e, T, O) ==
    IF p = "darwin" THEN rangeOf(e) \in T ELSE \A b \in Bytes(e) : O[b] \in {e.kind, "exclusive"}

\* The elements an attempt has behind it are held.
Got(p, J, T, O) ==
    J.at \in {"try", "tryMirror", "granted"} /\ LocksOnly(J.ops) =>
        \A n \in 1..Len(J.ops) :
            /\ n < J.i \/ J.at = "granted" \/ (n = J.i /\ J.at = "tryMirror")
            /\ J.ops[n].length # 0
            => HeldIn(p, J.ops[n], T, O)

Fits(J, S) ==
    \A n \in 1..Len(J.ops) : \A s \in S :
        ~rangesOverlap(J.ops[n], s) \/ s = rangeOf(J.ops[n])

\* Ranges the attempt has added.
Added(J, S) ==
    \A r \in S : \E n \in 1..Len(J.ops) :
        n < J.i /\ J.ops[n].length # 0 /\ r = rangeOf(J.ops[n])

\* On darwin: how far the table is from what the handle held before, at each
\* stage of an attempt and of its rollback.
Back(J, T, F) ==
    /\ F # "open" => T = {}
    /\ J.at \notin {"tryMirror", "undoMirror", "redoMirror"}
    /\ J.at # "idle" /\ LocksOnly(J.ops) =>
         /\ J.at \in Parked => Fits(J, T)
         /\ J.at \in {"try", "undo", "redo", "failed"} => Fits(J, J.snap)
         /\ J.at = "try" => J.snap \subseteq T /\ Added(J, T \ J.snap)
         /\ J.at = "undo" => /\ J.snap \subseteq T /\ T \subseteq J.snap \cup J.undo
                             /\ J.undo \cap J.snap = {} /\ Added(J, J.undo)
                             /\ J.redo = J.snap /\ (F # "open" => J.undo = {})
         /\ J.at = "redo" => T = J.snap /\ J.redo \subseteq J.snap
         /\ J.at = "failed" => T = J.snap

Atomic(p, J, T, O, F) == Live(J, F) /\ Got(p, J, T, O) /\ (p = "darwin" => Back(J, T, F))

AtomInv ==
    \A j \in Jobs :
        Atomic(os, job[j], tbl[HandleOf[j]], ofd[HandleOf[j]], file[HandleOf[j]])

-----------------------------------------------------------------------------
\* A step of job j concerns no other handle.
LEMMA AtomStep ==
    ASSUME IInv, Orderly, AtomInv, NEW j \in Jobs, NEW r, next(j, r), UNCHANGED <<os, file>>,
           \A g \in Handles \ {HandleOf[j]} : tbl'[g] = tbl[g] /\ ofd'[g] = ofd[g],
           Atomic(os, r, tbl'[HandleOf[j]], ofd'[HandleOf[j]], file[HandleOf[j]])
    PROVE  AtomInv'
<1>1. job'[j] = r /\ \A k \in Jobs \ {j} : job'[k] = job[k]
  BY DEF next, IInv, TypeOK
<1>2. \A k \in Jobs \ {j} : HandleOf[k] \in Handles \ {HandleOf[j]}
  BY LockConstants DEF Orderly
<1>3. ASSUME NEW k \in Jobs
      PROVE  Atomic(os, job'[k], tbl'[HandleOf[k]], ofd'[HandleOf[k]], file[HandleOf[k]])
  <2>1. CASE k = j
    BY <1>1, <2>1
  <2>2. CASE k # j
    <3>1. job'[k] = job[k] /\ tbl'[HandleOf[k]] = tbl[HandleOf[k]]
          /\ ofd'[HandleOf[k]] = ofd[HandleOf[k]]
      BY <1>1, <1>2, <2>2
    <3> QED BY <3>1 DEF AtomInv
  <2> QED BY <2>1, <2>2
<1> QED BY <1>3 DEF AtomInv

\* The same when the locks stay as they are.
LEMMA QuietAtom ==
    ASSUME IInv, Orderly, AtomInv, NEW j \in Jobs, NEW r, next(j, r),
           UNCHANGED <<os, tbl, ofd, file>>,
           Atomic(os, r, tbl[HandleOf[j]], ofd[HandleOf[j]], file[HandleOf[j]])
    PROVE  AtomInv'
  BY AtomStep

\* rangeTable.apply on the ranges of h.
LEMMA TableEffect ==
    ASSUME TypeOK, NEW h \in Handles, NEW e, tableApply(h, e)
    PROVE  /\ \A g \in Handles \ {h} : tbl'[g] = tbl[g]
           /\ \/ tbl'[h] = tbl[h] /\ (e.length = 0 \/ Refuses(h, e))
              \/ tbl'[h] = after(h, e) /\ e.length # 0 /\ ~Refuses(h, e)
<1>1. tbl \in [Handles -> SUBSET lockRange]
  BY DEF TypeOK
<1>2. \/ tbl' = tbl /\ (e.length = 0 \/ Refuses(h, e))
      \/ tbl' = [tbl EXCEPT ![h] = after(h, e)] /\ e.length # 0 /\ ~Refuses(h, e)
  BY DEF tableApply, setRanges
<1> QED BY <1>1, <1>2

\* The kernel's locks of h.
LEMMA KernelEffect ==
    ASSUME TypeOK, NEW h \in Handles, NEW e, kernelApply(h, e)
    PROVE  /\ \A g \in Handles \ {h} : ofd'[g] = ofd[g]
           /\ \A b \in 0..MaxInt :
                 ofd'[h][b] = IF b \notin flockRange(e) THEN ofd[h][b]
                              ELSE IF e.kind = "unlock" THEN "none" ELSE e.kind
<1> DEFINE f == [b \in 0..MaxInt |-> IF b \notin flockRange(e) THEN ofd[h][b]
                    ELSE IF e.kind = "unlock" THEN "none" ELSE e.kind]
<1>1. ofd' = [ofd EXCEPT ![h] = f]
  BY DEF kernelApply
<1>2. \A b \in 0..MaxInt : f[b] = IF b \notin flockRange(e) THEN ofd[h][b]
                    ELSE IF e.kind = "unlock" THEN "none" ELSE e.kind
  OBVIOUS
<1> HIDE DEF f
<1>3. ofd \in [Handles -> [0..MaxInt -> {"none", "shared", "exclusive"}]]
  BY DEF TypeOK
<1> QED BY <1>1, <1>2, <1>3

\* Ranges with the same bounds overlap.
LEMMA SameBoundsOverlap ==
    ASSUME NEW a, NEW b, a.start \in 0..MaxInt, a.length \in 1..MaxWord,
           b.start = a.start, b.length = a.length
    PROVE  rangesOverlap(a, b)
  BY RangeEndIs, WordFacts DEF rangesOverlap

\* One applyLock step concerns the handle alone.
LEMMA StepEffect ==
    ASSUME TypeOK, NEW h \in Handles, NEW e, applyStep(h, e)
    PROVE  /\ \A g \in Handles \ {h} : tbl'[g] = tbl[g] /\ ofd'[g] = ofd[g]
           /\ os = "darwin" =>
                 \/ tbl'[h] = tbl[h] /\ (e.length = 0 \/ Refuses(h, e))
                 \/ tbl'[h] = after(h, e) /\ e.length # 0 /\ ~Refuses(h, e)
           /\ os = "linux" =>
                 \/ e.length = 0 /\ ofd'[h] = ofd[h]
                 \/ /\ e.length # 0
                    /\ \A b \in 0..MaxInt :
                          ofd'[h][b] = IF b \notin flockRange(e) THEN ofd[h][b]
                                       ELSE IF e.kind = "unlock" THEN "none" ELSE e.kind
<1>1. CASE os = "darwin"
  <2>1. tableApply(h, e) /\ ofd' = ofd
    BY <1>1 DEF applyStep
  <2> QED BY <1>1, <2>1, TableEffect
<1>2. CASE os = "linux"
  <2>1. tbl' = tbl
    BY <1>2 DEF applyStep
  <2>2. CASE e.length = 0
    <3>1. ofd' = ofd
      BY <1>2, <2>2 DEF applyStep
    <3> QED BY <1>2, <2>1, <2>2, <3>1
  <2>3. CASE e.length # 0
    <3>1. kernelApply(h, e)
      BY <1>2, <2>3 DEF applyStep
    <3> QED BY <1>2, <2>1, <2>3, <3>1, KernelEffect
  <2> QED BY <2>2, <2>3
<1> QED BY <1>1, <1>2 DEF TypeOK

\* What an attempt held it still holds once an element clear of it, or equal
\* to it, is locked; and it holds that element.
LEMMA LockKeepsHeld ==
    ASSUME TypeOK, NEW h \in Handles, NEW e \in GoodElement, NEW d \in GoodElement,
           applyStep(h, e), ~Fails(h, e), e.kind # "unlock", d.kind # "unlock",
           d.length # 0, ~rangesOverlap(d, e) \/ rangeOf(d) = rangeOf(e),
           d = e \/ HeldIn(os, d, tbl[h], ofd[h])
    PROVE  HeldIn(os, d, tbl'[h], ofd'[h])
<1>1. CASE os = "darwin"
  <2>1. ~Refuses(h, e) \/ e.length = 0
    BY <1>1 DEF Fails, Conflicts, Refuses
  <2>2. e.length # 0 => tbl'[h] = tbl[h] \cup {rangeOf(e)}
    BY <1>1, <2>1, StepEffect DEF after
  <2>3. e.length = 0 => tbl'[h] = tbl[h]
    BY <1>1, StepEffect
  <2> QED BY <1>1, <2>2, <2>3 DEF HeldIn
<1>2. CASE os = "linux"
  <2>1. CASE e.length = 0
    BY <1>2, <2>1, StepEffect DEF HeldIn
  <2>2. CASE e.length # 0
    <3>1. \A b \in 0..MaxInt : ofd'[h][b] = IF b \notin flockRange(e) THEN ofd[h][b] ELSE e.kind
      BY <1>2, <2>2, StepEffect
    <3>2. flockRange(e) = Bytes(e)
      BY <2>2, FlockRangeIsBytes, WordFacts DEF GoodElement, Element
    <3>3. Bytes(d) \cap Bytes(e) # {} => rangesOverlap(d, e)
      BY <2>2, OverlapIsSharedByte, WordFacts DEF GoodElement, Element
    <3>4. rangeOf(d) = rangeOf(e) => d.kind = e.kind
      <4>1. d.kind \in {"shared", "exclusive"} /\ e.kind \in {"shared", "exclusive"}
        BY DEF GoodElement, Element, Kinds
      <4>2. rangeOf(d).exclusive = (d.kind = "exclusive")
            /\ rangeOf(e).exclusive = (e.kind = "exclusive")
        BY DEF rangeOf
      <4> QED BY <4>1, <4>2
    <3>5. ASSUME NEW b \in Bytes(d) PROVE ofd'[h][b] \in {d.kind, "exclusive"}
      <4>1. b \in 0..MaxInt
        BY DEF Bytes
      <4>2. CASE b \in Bytes(e)
        BY <3>1, <3>2, <3>3, <3>4, <4>1, <4>2
      <4>3. CASE b \notin Bytes(e)
        BY <1>2, <3>1, <3>2, <4>1, <4>3 DEF HeldIn
      <4> QED BY <4>2, <4>3
    <3> QED BY <1>2, <3>5 DEF HeldIn
  <2> QED BY <2>1, <2>2
<1> QED BY <1>1, <1>2 DEF TypeOK

\* A request that unlocks does not fail: its frame keeps the file open.
LEMMA UnlockNeverFails ==
    ASSUME NEW h \in Handles, NEW e, e.kind = "unlock" \/ e.length = 0, file[h] = "open"
    PROVE  ~Fails(h, e)
  BY DEF Fails, Conflicts, Broken

\* A range that goes back into the table is in it already.
LEMMA RangeOfElement ==
    ASSUME NEW r \in lockRange
    PROVE  rangeOf(elementOf(r)) = r
<1>1. r.exclusive \in BOOLEAN
  BY DEF lockRange
<1>2. /\ elementOf(r).start = r.start /\ elementOf(r).length = r.length
      /\ elementOf(r).kind = IF r.exclusive THEN "exclusive" ELSE "shared"
  BY DEF elementOf
<1>3. (elementOf(r).kind = "exclusive") = r.exclusive
  BY <1>1, <1>2
<1>4. rangeOf(elementOf(r)) = [start |-> r.start, length |-> r.length, exclusive |-> r.exclusive]
  BY <1>2, <1>3 DEF rangeOf
<1> QED BY <1>4 DEF lockRange

-----------------------------------------------------------------------------
(* The steps of a job, on all or nothing.                                  *)

LEMMA BeginKeepsAtom ==
    ASSUME IInv, Orderly, AtomInv, NEW j \in Jobs, Begin(j)
    PROVE  AtomInv'
<1> DEFINE h == HandleOf[j]
<1>1. PICK ops \in Requests :
        /\ Decodes(ops) /\ Tidy(h, ops)
        /\ next(j, [Idle EXCEPT !.at = "try", !.ops = ops, !.snap = tbl[h], !.frame = TRUE])
  BY DEF Begin, Orderly
<1>2. file[h] = "open" /\ UNCHANGED <<os, tbl, ofd, file>>
  BY DEF Begin
<1> DEFINE q == [Idle EXCEPT !.at = "try", !.ops = ops, !.snap = tbl[h], !.frame = TRUE]
<1>3. q.at = "try" /\ q.ops = ops /\ q.snap = tbl[h] /\ q.frame = TRUE /\ q.i = 1
  BY DEF Idle
<1>4. ops \in Seq(GoodElement)
  BY <1>1, Decoded
<1> HIDE DEF q
<1>5. Live(q, file[h])
  BY <1>2, <1>3 DEF Live, Parked
<1>6. Got(os, q, tbl[h], ofd[h])
  <2>1. \A n \in 1..Len(ops) : ~(n < 1)
    BY <1>4
  <2> QED BY <1>3, <2>1 DEF Got
<1>7. LocksOnly(ops) => Fits(q, tbl[h])
  BY <1>1, <1>3 DEF Fits, Tidy, LocksOnly
<1>8. Back(q, tbl[h], file[h])
  <2>1. tbl[h] \ q.snap = {}
    BY <1>3
  <2>2. Added(q, tbl[h] \ q.snap)
    BY <2>1 DEF Added
  <2> QED BY <1>2, <1>3, <1>7, <2>2 DEF Back, Parked
<1> QED BY <1>1, <1>2, <1>5, <1>6, <1>8, QuietAtom DEF Atomic, q

LEMMA TryKeepsAtom ==
    ASSUME IInv, Orderly, AtomInv, NEW j \in Jobs, TryElement(j)
    PROVE  AtomInv'
<1> DEFINE h == HandleOf[j]
           J == job[j]
           e == J.ops[J.i]
           q == [J EXCEPT !.at = mirrored("try"), !.i = IF os = "linux" THEN @ ELSE @ + 1]
<1>h. h \in Handles /\ tbl[h] \subseteq lockRange /\ os \in {"linux", "darwin"}
  BY LockConstants DEF IInv, TypeOK
<1>j. J \in Job /\ J.ops \in Seq(GoodElement) /\ J.i \in Nat /\ J.i >= 1 /\ Len(J.ops) \in Nat
      /\ J.ops \in Requests \cup {<<>>}
  BY DEF IInv, JobInv, GoodJob, Job
<1>1. /\ J.at = "try" /\ J.i <= Len(J.ops) /\ ~Fails(h, e) /\ applyStep(h, e) /\ next(j, q)
      /\ UNCHANGED <<os, file>>
  BY DEF TryElement, Op
<1>2. e \in GoodElement /\ J.i \in 1..Len(J.ops)
  BY <1>1, <1>j
<1>3. /\ q.at = (IF os = "darwin" THEN "try" ELSE "tryMirror")
      /\ q.i = (IF os = "linux" THEN J.i ELSE J.i + 1)
      /\ q.ops = J.ops /\ q.snap = J.snap /\ q.frame = J.frame
  BY <1>j, <1>h DEF Job, mirrored
<1>4. Atomic(os, J, tbl[h], ofd[h], file[h])
  BY DEF AtomInv
<1>e. /\ \A g \in Handles \ {h} : tbl'[g] = tbl[g] /\ ofd'[g] = ofd[g]
      /\ os = "darwin" =>
                 \/ tbl'[h] = tbl[h] /\ (e.length = 0 \/ Refuses(h, e))
                 \/ tbl'[h] = after(h, e) /\ e.length # 0 /\ ~Refuses(h, e)
  BY <1>1, <1>h, StepEffect DEF IInv
<1>a. Apart(J.ops)
  BY <1>1, <1>j, <1>2 DEF Orderly, Apart
<1> HIDE DEF q, e, J, h
<1>5. Live(q, file[h])
  BY <1>1, <1>3, <1>4, <1>h DEF Live, Atomic, Trying, Parked
<1>6. Got(os, q, tbl'[h], ofd'[h])
  <2> SUFFICES ASSUME LocksOnly(q.ops), NEW n \in 1..Len(q.ops), q.ops[n].length # 0,
                      n < q.i \/ q.at = "granted" \/ (n = q.i /\ q.at = "tryMirror")
               PROVE  HeldIn(os, q.ops[n], tbl'[h], ofd'[h])
    BY DEF Got
  <2>0. LocksOnly(J.ops) /\ n \in 1..Len(J.ops) /\ J.ops[n].length # 0
    BY <1>3
  <2>1. n < J.i \/ n = J.i
    BY <1>3, <1>h, <1>j
  <2>2. J.ops[n] \in GoodElement /\ J.ops[n].kind # "unlock" /\ e.kind # "unlock"
    BY <1>j, <1>2, <2>0 DEF LocksOnly, e
  <2>3. J.ops[n] = e \/ HeldIn(os, J.ops[n], tbl[h], ofd[h])
    BY <1>1, <1>4, <2>0, <2>1 DEF Atomic, Got, e
  <2>4. ~rangesOverlap(J.ops[n], e) \/ rangeOf(J.ops[n]) = rangeOf(e)
    BY <1>2, <1>a, <2>0 DEF Apart, e
  <2> QED BY <1>1, <1>2, <1>3, <1>h, <2>0, <2>2, <2>3, <2>4, LockKeepsHeld DEF IInv
<1>7. ASSUME os = "darwin" PROVE Back(q, tbl'[h], file[h])
  <2>1. file[h] = "open"
    BY <1>1, <1>7, <1>h DEF Fails, Broken, IInv, TypeOK
  <2>2. q.at = "try" /\ q.i = J.i + 1 /\ Back(J, tbl[h], file[h])
    BY <1>3, <1>4, <1>7 DEF Atomic
  <2>3. ASSUME LocksOnly(J.ops)
        PROVE  Fits(q, q.snap) /\ q.snap \subseteq tbl'[h] /\ Added(q, tbl'[h] \ q.snap)
    <3>1. Fits(J, J.snap) /\ J.snap \subseteq tbl[h] /\ Added(J, tbl[h] \ J.snap)
      BY <1>1, <2>2, <2>3 DEF Back
    <3>2. Fits(q, q.snap)
      BY <1>3, <3>1 DEF Fits
    <3>3. e.kind # "unlock"
      BY <1>2, <2>3 DEF LocksOnly, e
    <3>4. tbl'[h] = tbl[h] \/ (tbl'[h] = tbl[h] \cup {rangeOf(e)} /\ e.length # 0)
      BY <1>7, <1>e, <3>3 DEF after
    <3>5. Added(q, tbl'[h] \ q.snap)
      <4> SUFFICES ASSUME NEW r \in tbl'[h], r \notin J.snap
                   PROVE  \E n \in 1..Len(J.ops) :
                             n < J.i + 1 /\ J.ops[n].length # 0 /\ r = rangeOf(J.ops[n])
        BY <1>3, <2>2 DEF Added
      <4>1. CASE r \in tbl[h]
        <5>1. PICK n \in 1..Len(J.ops) :
                 n < J.i /\ J.ops[n].length # 0 /\ r = rangeOf(J.ops[n])
          BY <3>1, <4>1 DEF Added
        <5> QED BY <5>1, <1>j
      <4>2. CASE r \notin tbl[h]
        <5>1. r = rangeOf(J.ops[J.i]) /\ J.ops[J.i].length # 0
          BY <3>4, <4>2 DEF e
        <5>2. J.i < J.i + 1
          BY <1>j
        <5> QED BY <5>1, <5>2, <1>2
      <4> QED BY <4>1, <4>2
    <3> QED BY <1>3, <3>1, <3>2, <3>4, <3>5
  <2> QED BY <1>3, <2>1, <2>2, <2>3 DEF Back, Parked
<1> QED BY <1>1, <1>5, <1>6, <1>7, <1>e, AtomStep DEF Atomic, q, h

LEMMA FailKeepsAtom ==
    ASSUME IInv, Orderly, AtomInv, NEW j \in Jobs, ElementFails(j)
    PROVE  AtomInv'
<1> DEFINE h == HandleOf[j]
           J == job[j]
           e == J.ops[J.i]
           several == Len(J.ops) > 1
           a == IF several THEN "undo" ELSE "failed"
           u == IF several THEN tbl[h] \ J.snap ELSE {}
           d == IF several THEN J.snap ELSE {}
           parks == Conflicts(h, Op(j)) /\ Op(j).wait
           q == [J EXCEPT !.at = a, !.undo = u, !.redo = d, !.parks = parks]
<1>h. h \in Handles /\ os \in {"linux", "darwin"}
  BY LockConstants DEF IInv, TypeOK
<1>j. J \in Job /\ J.ops \in Seq(GoodElement) /\ J.i \in Nat /\ J.i >= 1 /\ Len(J.ops) \in Nat
      /\ J.ops \in Requests \cup {<<>>}
  BY DEF IInv, JobInv, GoodJob, Job
<1>1. J.at = "try" /\ J.i <= Len(J.ops) /\ Fails(h, e) /\ next(j, q)
      /\ UNCHANGED <<os, tbl, ofd, file>>
  BY DEF ElementFails, Op
<1>2. J.i \in 1..Len(J.ops)
  BY <1>1, <1>j
<1>3. q.at = a /\ q.ops = J.ops /\ q.snap = J.snap /\ q.frame = J.frame /\ q.i = J.i
      /\ q.undo = u /\ q.redo = d
  BY <1>j DEF Job
<1>4. Atomic(os, J, tbl[h], ofd[h], file[h])
  BY DEF AtomInv
<1> HIDE DEF q, e, J, h, parks, several
<1>5. LocksOnly(J.ops)
  <2> SUFFICES ASSUME ~LocksOnly(J.ops) PROVE FALSE
    OBVIOUS
  <2>1. file[h] = "open"
    BY <1>1, <1>4 DEF Atomic, Live, Trying
  <2>2. J.ops # <<>>
    BY DEF LocksOnly
  <2>3. UnlocksOnly(J.ops)
    BY <1>j, <2>2 DEF Orderly
  <2>4. e.kind = "unlock" \/ e.length = 0
    BY <1>2, <2>3 DEF UnlocksOnly, e
  <2> QED BY <1>1, <1>h, <2>1, <2>4, UnlockNeverFails
<1>6. Live(q, file[h])
  BY <1>1, <1>3, <1>4, <1>5 DEF Live, Atomic, Trying, Parked
<1>7. Got(os, q, tbl[h], ofd[h])
  BY <1>3 DEF Got
<1>8. ASSUME os = "darwin" PROVE Back(q, tbl[h], file[h])
  <2>1. /\ Fits(J, J.snap) /\ J.snap \subseteq tbl[h] /\ Added(J, tbl[h] \ J.snap)
        /\ file[h] # "open" => tbl[h] = {}
    BY <1>1, <1>4, <1>5, <1>8 DEF Back, Atomic
  <2>2. Fits(q, q.snap)
    BY <1>3, <2>1 DEF Fits
  <2>3. CASE several
    <3>1. q.at = "undo" /\ q.undo = tbl[h] \ J.snap /\ q.redo = J.snap
      BY <1>3, <2>3
    <3>2. Added(q, q.undo)
      BY <1>3, <2>1, <3>1 DEF Added
    <3> QED BY <1>3, <2>1, <2>2, <3>1, <3>2 DEF Back, Parked
  <2>4. CASE ~several
    <3>1. q.at = "failed"
      BY <1>3, <2>4
    <3>2. J.i = 1
      BY <1>j, <1>2, <2>4 DEF several
    <3>3. tbl[h] \ J.snap = {}
      <4> SUFFICES ASSUME NEW r \in tbl[h] \ J.snap PROVE FALSE
        OBVIOUS
      <4>1. PICK n \in 1..Len(J.ops) : n < 1
        BY <2>1, <3>2 DEF Added
      <4> QED BY <4>1, <1>j
    <3> QED BY <1>3, <2>1, <2>2, <3>1, <3>3 DEF Back, Parked
  <2> QED BY <2>3, <2>4
<1> QED BY <1>1, <1>6, <1>7, <1>8, QuietAtom DEF Atomic, h

LEMMA UndoKeepsAtom ==
    ASSUME IInv, Orderly, AtomInv, NEW j \in Jobs, Undo(j)
    PROVE  AtomInv'
<1> DEFINE h == HandleOf[j]
           J == job[j]
<1>h. h \in Handles /\ os \in {"linux", "darwin"}
  BY LockConstants DEF IInv, TypeOK
<1>j. /\ J \in Job /\ J.ops \in Seq(GoodElement) /\ Len(J.ops) \in Nat
      /\ J.undo \subseteq lockRange /\ J.snap \subseteq lockRange
  BY DEF IInv, JobInv, GoodJob, Job
<1>1. J.at = "undo" /\ UNCHANGED <<os, file>>
  BY DEF Undo
<1>2. PICK r \in J.undo :
         IF Fails(h, unlockOf(r))
         THEN /\ next(j, [J EXCEPT !.undo = @ \ {r}])
              /\ UNCHANGED <<tbl, ofd, woken>>
         ELSE /\ applyStep(h, unlockOf(r))
              /\ next(j, [J EXCEPT !.at = mirrored("undo"), !.undo = @ \ {r}, !.now = {r}])
  BY DEF Undo
<1> DEFINE e == unlockOf(r)
           q == [J EXCEPT !.undo = @ \ {r}]
           p == [J EXCEPT !.at = mirrored("undo"), !.undo = @ \ {r}, !.now = {r}]
<1>3. q.at = "undo" /\ q.ops = J.ops /\ q.snap = J.snap /\ q.frame = J.frame /\ q.i = J.i
      /\ q.undo = J.undo \ {r} /\ q.redo = J.redo
  BY <1>1, <1>j DEF Job
<1>4. /\ p.at = (IF os = "darwin" THEN "undo" ELSE "undoMirror")
      /\ p.ops = J.ops /\ p.snap = J.snap /\ p.frame = J.frame /\ p.i = J.i
      /\ p.undo = J.undo \ {r} /\ p.redo = J.redo
  BY <1>h, <1>j DEF Job, mirrored
<1>5. Atomic(os, J, tbl[h], ofd[h], file[h])
  BY DEF AtomInv
<1>e. e.start = r.start /\ e.length = r.length /\ e.kind = "unlock" /\ r \in lockRange
  BY <1>j DEF unlockOf, elementOf
<1>l. LocksOnly(J.ops)
  BY <1>1, <1>5 DEF Atomic, Live
<1>6. Fails(h, e) \/ (applyStep(h, e) /\ next(j, p))
  BY <1>2
<1>7. Fails(h, e) => next(j, q) /\ UNCHANGED <<tbl, ofd>>
  BY <1>2
<1> HIDE DEF e, q, p, J, h
<1>8. CASE Fails(h, e)
  <2>1. Live(q, file[h])
    BY <1>1, <1>3, <1>5 DEF Live, Atomic, Trying, Parked
  <2>2. Got(os, q, tbl[h], ofd[h])
    BY <1>3 DEF Got
  <2>3. os # "darwin"
    <3> SUFFICES ASSUME os = "darwin" PROVE FALSE
      OBVIOUS
    <3>1. file[h] # "open"
      BY <1>8, <1>e DEF Fails, Conflicts, Broken
    <3> QED BY <1>1, <1>2, <1>5, <1>l, <3>1 DEF Atomic, Back
  <2> QED BY <1>1, <1>7, <1>8, <2>1, <2>2, <2>3, QuietAtom DEF Atomic, h
<1>9. CASE ~Fails(h, e)
  <2>0. applyStep(h, e) /\ next(j, p)
    BY <1>6, <1>9
  <2>1. Live(p, file[h])
    BY <1>1, <1>4, <1>5, <1>l DEF Live, Atomic, Trying, Parked
  <2>2. Got(os, p, tbl'[h], ofd'[h])
    BY <1>4 DEF Got
  <2>e. /\ \A g \in Handles \ {h} : tbl'[g] = tbl[g] /\ ofd'[g] = ofd[g]
        /\ os = "darwin" => \/ tbl'[h] = tbl[h] /\ (e.length = 0 \/ Refuses(h, e))
                            \/ tbl'[h] = after(h, e)
    BY <1>h, <2>0, StepEffect DEF IInv
  <2>3. ASSUME os = "darwin" PROVE Back(p, tbl'[h], file[h])
    <3>1. /\ J.snap \subseteq tbl[h] /\ tbl[h] \subseteq J.snap \cup J.undo
          /\ J.undo \cap J.snap = {} /\ Added(J, J.undo) /\ Fits(J, J.snap)
          /\ J.redo = J.snap /\ (file[h] # "open" => J.undo = {})
          /\ (file[h] # "open" => tbl[h] = {})
      BY <1>1, <1>5, <1>l, <2>3 DEF Atomic, Back
    <3>2. file[h] = "open"
      BY <1>2, <3>1
    <3>3. e.length # 0
      BY <1>e, WordFacts DEF lockRange
    <3>4. tbl'[h] = {s \in tbl[h] : ~(s.start = r.start /\ s.length = r.length)}
      BY <1>e, <2>3, <2>e, <3>3 DEF after, Refuses
    <3>5. ASSUME NEW s \in J.snap, s.start = r.start, s.length = r.length PROVE FALSE
      <4>1. PICK n \in 1..Len(J.ops) : r = rangeOf(J.ops[n])
        BY <1>2, <3>1 DEF Added
      <4>2. J.ops[n].start = r.start /\ J.ops[n].length = r.length
        BY <4>1 DEF rangeOf
      <4>3. rangesOverlap(J.ops[n], s)
        BY <1>e, <3>5, <4>2, SameBoundsOverlap DEF lockRange
      <4>4. s = r
        BY <3>1, <4>1, <4>3 DEF Fits
      <4> QED BY <1>2, <3>1, <4>4
    <3>6. J.snap \subseteq tbl'[h]
      BY <3>1, <3>4, <3>5
    <3>7. tbl'[h] \subseteq J.snap \cup (J.undo \ {r})
      BY <3>1, <3>4
    <3>8. Added(p, p.undo)
      BY <1>4, <3>1 DEF Added
    <3>9. Fits(p, p.snap)
      BY <1>4, <3>1 DEF Fits
    <3> QED BY <1>4, <2>3, <3>1, <3>2, <3>6, <3>7, <3>8, <3>9 DEF Back, Parked
  <2> QED BY <1>1, <2>0, <2>1, <2>2, <2>3, <2>e, AtomStep DEF Atomic, h
<1> QED BY <1>8, <1>9

LEMMA RedoKeepsAtom ==
    ASSUME IInv, Orderly, AtomInv, NEW j \in Jobs, Redo(j)
    PROVE  AtomInv'
<1> DEFINE h == HandleOf[j]
           J == job[j]
<1>h. h \in Handles /\ os \in {"linux", "darwin"}
  BY LockConstants DEF IInv, TypeOK
<1>j. J \in Job /\ J.redo \subseteq lockRange
  BY DEF IInv, JobInv, GoodJob, Job
<1>1. J.at = "redo" /\ UNCHANGED <<os, file>>
  BY DEF Redo
<1>2. PICK r \in J.redo :
         IF Fails(h, elementOf(r))
         THEN /\ next(j, [J EXCEPT !.redo = @ \ {r}])
              /\ UNCHANGED <<tbl, ofd, woken>>
         ELSE /\ applyStep(h, elementOf(r))
              /\ next(j, [J EXCEPT !.at = mirrored("redo"), !.redo = @ \ {r}, !.now = {r}])
  BY DEF Redo
<1> DEFINE e == elementOf(r)
           q == [J EXCEPT !.redo = @ \ {r}]
           p == [J EXCEPT !.at = mirrored("redo"), !.redo = @ \ {r}, !.now = {r}]
<1>3. q.at = "redo" /\ q.ops = J.ops /\ q.snap = J.snap /\ q.frame = J.frame
      /\ q.redo = J.redo \ {r}
  BY <1>1, <1>j DEF Job
<1>4. /\ p.at = (IF os = "darwin" THEN "redo" ELSE "redoMirror")
      /\ p.ops = J.ops /\ p.snap = J.snap /\ p.frame = J.frame
      /\ p.redo = J.redo \ {r}
  BY <1>h, <1>j DEF Job, mirrored
<1>5. Atomic(os, J, tbl[h], ofd[h], file[h])
  BY DEF AtomInv
<1>e. rangeOf(e) = r /\ e.kind # "unlock"
  BY <1>j, RangeOfElement DEF elementOf
<1>l. LocksOnly(J.ops)
  BY <1>1, <1>5 DEF Atomic, Live
<1>6. Fails(h, e) \/ (applyStep(h, e) /\ next(j, p))
  BY <1>2
<1>7. Fails(h, e) => next(j, q) /\ UNCHANGED <<tbl, ofd>>
  BY <1>2
<1>b. os = "darwin" => /\ Fits(J, J.snap) /\ tbl[h] = J.snap /\ J.redo \subseteq J.snap
                       /\ (file[h] # "open" => tbl[h] = {})
  BY <1>1, <1>5, <1>l DEF Atomic, Back
<1> HIDE DEF e, q, p, J, h
<1>8. CASE Fails(h, e)
  <2>1. Live(q, file[h])
    BY <1>1, <1>3, <1>5 DEF Live, Atomic, Trying, Parked
  <2>2. Got(os, q, tbl[h], ofd[h])
    BY <1>3 DEF Got
  <2>3. ASSUME os = "darwin" PROVE Back(q, tbl[h], file[h])
    <3>1. Fits(q, q.snap)
      BY <1>3, <1>b, <2>3 DEF Fits
    <3> QED BY <1>3, <1>b, <2>3, <3>1 DEF Back, Parked
  <2> QED BY <1>1, <1>7, <1>8, <2>1, <2>2, <2>3, QuietAtom DEF Atomic, h
<1>9. CASE ~Fails(h, e)
  <2>0. applyStep(h, e) /\ next(j, p)
    BY <1>6, <1>9
  <2>1. Live(p, file[h])
    BY <1>1, <1>4, <1>5, <1>l DEF Live, Atomic, Trying, Parked
  <2>2. Got(os, p, tbl'[h], ofd'[h])
    BY <1>4 DEF Got
  <2>e. /\ \A g \in Handles \ {h} : tbl'[g] = tbl[g] /\ ofd'[g] = ofd[g]
        /\ os = "darwin" => tbl'[h] = tbl[h] \/ tbl'[h] = after(h, e)
    BY <1>h, <2>0, StepEffect DEF IInv
  <2>3. ASSUME os = "darwin" PROVE Back(p, tbl'[h], file[h])
    <3>1. tbl'[h] = tbl[h]
      BY <1>2, <1>e, <1>b, <2>3, <2>e DEF after
    <3>2. Fits(p, p.snap)
      BY <1>4, <1>b, <2>3 DEF Fits
    <3> QED BY <1>4, <1>b, <2>3, <3>1, <3>2 DEF Back, Parked
  <2> QED BY <1>1, <2>0, <2>1, <2>2, <2>3, <2>e, AtomStep DEF Atomic, h
<1> QED BY <1>8, <1>9

\* The steps of linux that follow the kernel touch the table only.
LEMMA MirrorsKeepAtom ==
    ASSUME IInv, Orderly, AtomInv, NEW j \in Jobs, Mirror(j) \/ UndoMirror(j) \/ RedoMirror(j)
    PROVE  AtomInv'
<1> DEFINE h == HandleOf[j]
           J == job[j]
<1>h. h \in Handles /\ os \in {"linux", "darwin"}
  BY LockConstants DEF IInv, TypeOK
<1>j. J \in Job /\ J.i \in Nat /\ Len(J.ops) \in Nat
  BY DEF IInv, JobInv, GoodJob, Job
<1>1. J.at \in {"tryMirror", "undoMirror", "redoMirror"} /\ UNCHANGED <<os, ofd, file>>
  BY DEF Mirror, UndoMirror, RedoMirror
<1>2. Atomic(os, J, tbl[h], ofd[h], file[h])
  BY DEF AtomInv
<1>3. os = "linux"
  BY <1>h, <1>1, <1>2 DEF Atomic, Back
<1>4. \E e : tableApply(h, e)
  BY DEF Mirror, UndoMirror, RedoMirror
<1>5. \A g \in Handles \ {h} : tbl'[g] = tbl[g] /\ ofd'[g] = ofd[g]
  BY <1>h, <1>1, <1>4, TableEffect DEF IInv
<1>6. CASE Mirror(j)
  <2> DEFINE q == [J EXCEPT !.at = "try", !.i = @ + 1]
  <2>1. next(j, q) /\ J.at = "tryMirror"
    BY <1>6 DEF Mirror
  <2>2. q.at = "try" /\ q.ops = J.ops /\ q.frame = J.frame /\ q.i = J.i + 1
    BY <1>j DEF Job
  <2> HIDE DEF q, J, h
  <2>3. Live(q, file[h])
    BY <1>1, <1>2, <2>1, <2>2 DEF Live, Atomic, Trying, Parked
  <2>4. Got(os, q, tbl'[h], ofd'[h])
    <3> SUFFICES ASSUME LocksOnly(q.ops), NEW n \in 1..Len(q.ops), q.ops[n].length # 0,
                        n < q.i \/ q.at = "granted" \/ (n = q.i /\ q.at = "tryMirror")
                 PROVE  HeldIn(os, q.ops[n], tbl'[h], ofd'[h])
      BY DEF Got
    <3>1. n \in 1..Len(J.ops) /\ J.ops[n].length # 0 /\ LocksOnly(J.ops) /\ (n < J.i \/ n = J.i)
      BY <1>j, <2>2
    <3>2. HeldIn(os, J.ops[n], tbl[h], ofd[h])
      BY <1>2, <2>1, <3>1 DEF Atomic, Got
    <3> QED BY <1>1, <1>3, <2>2, <3>2 DEF HeldIn
  <2> QED BY <1>1, <1>3, <1>5, <2>1, <2>3, <2>4, AtomStep DEF Atomic, h
<1>7. CASE UndoMirror(j) \/ RedoMirror(j)
  <2>1. PICK a \in {"undo", "redo"} : next(j, [J EXCEPT !.at = a])
    BY <1>7 DEF UndoMirror, RedoMirror
  <2> DEFINE q == [J EXCEPT !.at = a]
  <2>2. q.at = a /\ q.ops = J.ops /\ q.frame = J.frame
    BY <1>j DEF Job
  <2>3. J.at \in {"undoMirror", "redoMirror"}
    BY <1>7 DEF UndoMirror, RedoMirror
  <2>0. next(j, q)
    BY <2>1
  <2> HIDE DEF q, J, h
  <2>4. Live(q, file[h])
    BY <1>1, <1>2, <2>2, <2>3 DEF Live, Atomic, Trying, Parked
  <2>5. Got(os, q, tbl'[h], ofd'[h])
    BY <2>2 DEF Got
  <2> QED BY <1>1, <1>3, <1>5, <2>0, <2>4, <2>5, AtomStep DEF Atomic, h
<1> QED BY <1>6, <1>7

\* The steps that leave the locks alone.
LEMMA QuietStepsKeepAtom ==
    ASSUME IInv, Orderly, AtomInv, NEW j \in Jobs,
           \/ AllGranted(j) \/ Undone(j) \/ Redone(j) \/ AnswerLock(j) \/ ParkLock(j)
           \/ Subscribe(j) \/ Retry(j) \/ WaitReleased(j) \/ WaitEnds(j)
    PROVE  AtomInv'
<1> DEFINE h == HandleOf[j]
           J == job[j]
           T == tbl[h]
           O == ofd[h]
           F == file[h]
<1>h. h \in Handles /\ os \in {"linux", "darwin"} /\ T \subseteq lockRange
  BY LockConstants DEF IInv, TypeOK
<1>j. J \in Job /\ J.i \in Nat /\ Len(J.ops) \in Nat
  BY DEF IInv, JobInv, GoodJob, Job
<1>u. UNCHANGED <<os, tbl, ofd, file>>
  BY DEF AllGranted, Undone, Redone, AnswerLock, ParkLock, Subscribe, Retry, WaitReleased, WaitEnds
<1>a. Live(J, F) /\ Got(os, J, T, O) /\ (os = "darwin" => Back(J, T, F))
  BY DEF AtomInv, Atomic
<1>q. ASSUME NEW q, next(j, q), Live(q, F), Got(os, q, T, O), os = "darwin" => Back(q, T, F)
      PROVE  AtomInv'
  BY <1>u, <1>q, QuietAtom DEF Atomic
<1>1. CASE AllGranted(j)
  <2> DEFINE q == [J EXCEPT !.at = "granted"]
  <2>1. next(j, q) /\ J.at = "try" /\ J.i > Len(J.ops)
    BY <1>1 DEF AllGranted
  <2>2. q.at = "granted" /\ q.ops = J.ops /\ q.frame = J.frame
    BY <1>j DEF Job
  <2> HIDE DEF q, J, h, T, O, F
  <2>3. Live(q, F)
    BY <1>a, <2>1, <2>2 DEF Live, Trying, Parked
  <2>4. Got(os, q, T, O)
    <3> SUFFICES ASSUME LocksOnly(q.ops), NEW n \in 1..Len(q.ops), q.ops[n].length # 0
                 PROVE  HeldIn(os, q.ops[n], T, O)
      BY DEF Got
    <3>1. n \in 1..Len(J.ops) /\ n < J.i /\ LocksOnly(J.ops) /\ J.ops[n].length # 0
      BY <1>j, <2>1, <2>2
    <3>2. HeldIn(os, J.ops[n], T, O)
      BY <1>a, <2>1, <3>1 DEF Got
    <3> QED BY <2>2, <3>2
  <2>5. os = "darwin" => Back(q, T, F)
    BY <1>a, <2>2 DEF Back, Parked
  <2> QED BY <1>q, <2>1, <2>3, <2>4, <2>5
<1>2. CASE Undone(j)
  <2> DEFINE q == [J EXCEPT !.at = "redo"]
  <2>1. next(j, q) /\ J.at = "undo" /\ J.undo = {}
    BY <1>2 DEF Undone
  <2>2. q.at = "redo" /\ q.ops = J.ops /\ q.frame = J.frame /\ q.snap = J.snap /\ q.redo = J.redo
    BY <1>j DEF Job
  <2> HIDE DEF q, J, h, T, O, F
  <2>3. Live(q, F) /\ Got(os, q, T, O)
    BY <1>a, <2>1, <2>2 DEF Live, Got, Trying, Parked
  <2>4. Fits(J, J.snap) => Fits(q, q.snap)
    BY <2>2 DEF Fits
  <2>5. os = "darwin" => Back(q, T, F)
    BY <1>a, <2>1, <2>2, <2>4 DEF Back, Parked
  <2> QED BY <1>q, <2>1, <2>3, <2>5
<1>3. CASE Redone(j)
  <2> DEFINE q == [J EXCEPT !.at = "failed", !.now = {}]
  <2>1. next(j, q) /\ J.at = "redo"
    BY <1>3 DEF Redone
  <2>2. q.at = "failed" /\ q.ops = J.ops /\ q.frame = J.frame /\ q.snap = J.snap
    BY <1>j DEF Job
  <2> HIDE DEF q, J, h, T, O, F
  <2>3. Live(q, F) /\ Got(os, q, T, O)
    BY <1>a, <2>1, <2>2 DEF Live, Got, Trying, Parked
  <2>4. Fits(J, J.snap) => Fits(q, q.snap)
    BY <2>2 DEF Fits
  <2>5. os = "darwin" => Back(q, T, F)
    BY <1>a, <2>1, <2>2, <2>4 DEF Back, Parked
  <2> QED BY <1>q, <2>1, <2>3, <2>5
<1>4. CASE AnswerLock(j) \/ WaitEnds(j)
  <2>1. next(j, Idle)
    BY <1>4 DEF AnswerLock, WaitEnds
  <2>2. Idle.at = "idle"
    BY DEF Idle
  <2>3. Live(Idle, F) /\ Got(os, Idle, T, O)
    BY <2>2 DEF Live, Got, Trying, Parked
  <2>4. os = "darwin" => Back(Idle, T, F)
    BY <1>a, <2>2 DEF Back
  <2> QED BY <1>q, <2>1, <2>3, <2>4
<1>5. CASE ParkLock(j)
  <2> DEFINE at == IF J.frame THEN "subscribe" ELSE "select"
             q == [J EXCEPT !.at = at, !.frame = FALSE, !.snap = {}]
  <2>1. next(j, q) /\ J.at = "failed"
    BY <1>5 DEF ParkLock
  <2>2. q.at \in {"subscribe", "select"} /\ q.ops = J.ops /\ q.frame = FALSE
    BY <1>j DEF Job
  <2> HIDE DEF q, J, h, T, O, F
  <2>3. Live(q, F) /\ Got(os, q, T, O)
    BY <1>a, <2>1, <2>2 DEF Live, Got, Trying, Parked
  <2>4. Fits(J, T) => Fits(q, T)
    BY <2>2 DEF Fits
  <2>5. os = "darwin" => Back(q, T, F)
    BY <1>a, <2>1, <2>2, <2>4 DEF Back, Parked
  <2> QED BY <1>q, <2>1, <2>3, <2>5
<1>6. CASE Subscribe(j) \/ WaitReleased(j)
  <2>1. PICK at \in {"retry", "subscribe"} : next(j, [J EXCEPT !.at = at])
    BY <1>6 DEF Subscribe, WaitReleased
  <2> DEFINE q == [J EXCEPT !.at = at]
  <2>2. q.at = at /\ q.ops = J.ops /\ q.frame = J.frame
    BY <1>j DEF Job
  <2>3. J.at \in {"subscribe", "select"}
    BY <1>6 DEF Subscribe, WaitReleased
  <2>0. next(j, q)
    BY <2>1
  <2> HIDE DEF q, J, h, T, O, F
  <2>4. Live(q, F) /\ Got(os, q, T, O)
    BY <1>a, <2>2, <2>3 DEF Live, Got, Trying, Parked
  <2>5. Fits(J, T) => Fits(q, T)
    BY <2>2 DEF Fits
  <2>6. os = "darwin" => Back(q, T, F)
    BY <1>a, <2>2, <2>3, <2>5 DEF Back, Parked
  <2> QED BY <1>q, <2>0, <2>4, <2>6
<1>7. CASE Retry(j)
  <2> DEFINE q == [J EXCEPT !.at = "try", !.i = 1, !.snap = T, !.parks = FALSE]
  <2>1. next(j, q) /\ J.at = "retry" /\ F # "closing"
    BY <1>7 DEF Retry, FreeShared
  <2>2. q.at = "try" /\ q.ops = J.ops /\ q.i = 1 /\ q.snap = T /\ q.frame = J.frame
    BY <1>j DEF Job
  <2>f. ~J.frame
    BY <1>a, <2>1 DEF Live, Parked
  <2> HIDE DEF q, J, h, T, O, F
  <2>3. Live(q, F)
    BY <1>a, <2>1, <2>2, <2>f DEF Live, Parked
  <2>4. Got(os, q, T, O)
    <3>1. \A n \in 1..Len(q.ops) : ~(n < 1)
      BY <1>j, <2>2
    <3> QED BY <2>2, <3>1 DEF Got
  <2>5. Fits(J, T) => Fits(q, T)
    BY <2>2 DEF Fits
  <2>6. Added(q, T \ q.snap)
    BY <2>2 DEF Added
  <2>7. LocksOnly(J.ops)
    BY <1>a, <2>1 DEF Live
  <2>8. os = "darwin" => Back(q, T, F)
    BY <1>a, <2>1, <2>2, <2>5, <2>6, <2>7 DEF Back, Parked
  <2> QED BY <1>q, <2>1, <2>3, <2>4, <2>8
<1> QED BY <1>1, <1>2, <1>3, <1>4, <1>5, <1>6, <1>7

\* A handle goes away or comes back only while no attempt works on it.
LEMMA HandleActionsKeepAtom ==
    ASSUME IInv, Orderly, AtomInv, NEW h \in Handles, ReleaseAll(h) \/ CloseFile(h) \/ Reopen(h)
    PROVE  AtomInv'
<1>t. /\ tbl \in [Handles -> SUBSET lockRange]
      /\ file \in [Handles -> {"open", "closing", "closed"}]
      /\ ofd \in [Handles -> [0..MaxInt -> {"none", "shared", "exclusive"}]]
      /\ job \in [Jobs -> Job]
  BY DEF IInv, TypeOK
<1>u. UNCHANGED <<os, job>>
  BY DEF ReleaseAll, CloseFile, Reopen
<1>1. \A g \in Handles \ {h} : tbl'[g] = tbl[g] /\ ofd'[g] = ofd[g] /\ file'[g] = file[g]
  BY <1>t DEF ReleaseAll, CloseFile, Reopen, setRanges
<1>2. /\ \/ file'[h] = "open"
         \/ tbl'[h] \in {{}, tbl[h]} /\ (file[h] = "open" => tbl'[h] = {})
      /\ file[h] # "open" => tbl'[h] = tbl[h]
      /\ tbl'[h] \subseteq tbl[h]
  BY <1>t DEF ReleaseAll, CloseFile, Reopen, setRanges
<1>3. ASSUME NEW k \in Jobs, HandleOf[k] = h
      PROVE  /\ job[k].at \notin Trying
             /\ file'[h] = "open" => job[k].at = "idle"
  <2>a. Live(job[k], file[h])
    BY <1>3 DEF AtomInv, Atomic
  <2>1. CASE ReleaseAll(h)
    BY <1>3, <1>t, <2>1 DEF ReleaseAll, Free
  <2>2. CASE CloseFile(h)
    BY <1>t, <2>a, <2>2 DEF CloseFile, Live
  <2>3. CASE Reopen(h)
    BY <1>3, <2>3 DEF Reopen, Trying
  <2> QED BY <2>1, <2>2, <2>3
<1>4. ASSUME NEW k \in Jobs
      PROVE  Atomic(os, job[k], tbl'[HandleOf[k]], ofd'[HandleOf[k]], file'[HandleOf[k]])
  <2> DEFINE J == job[k]
  <2>a. Atomic(os, J, tbl[HandleOf[k]], ofd[HandleOf[k]], file[HandleOf[k]])
    BY DEF AtomInv
  <2>h. HandleOf[k] \in Handles
    BY LockConstants
  <2> HIDE DEF J
  <2>1. CASE HandleOf[k] # h
    <3>1. /\ tbl'[HandleOf[k]] = tbl[HandleOf[k]] /\ ofd'[HandleOf[k]] = ofd[HandleOf[k]]
          /\ file'[HandleOf[k]] = file[HandleOf[k]]
      BY <1>1, <2>1, <2>h
    <3> QED BY <2>a, <3>1 DEF J
  <2>2. CASE HandleOf[k] = h
    <3>1. J.at \notin Trying /\ (file'[h] = "open" => J.at = "idle")
      BY <1>3, <2>2 DEF J
    <3>2. Live(J, file'[h])
      BY <2>a, <2>2, <3>1 DEF Atomic, Live
    <3>3. Got(os, J, tbl'[h], ofd'[h])
      BY <3>1 DEF Got, Trying
    <3>4. ASSUME os = "darwin" PROVE Back(J, tbl'[h], file'[h])
      <4>1. Back(J, tbl[h], file[h])
        BY <2>a, <2>2, <3>4 DEF Atomic
      <4>2. file'[h] # "open" => tbl'[h] = {}
        BY <1>2, <4>1 DEF Back
      <4>3. Fits(J, tbl[h]) => Fits(J, tbl'[h])
        BY <1>2 DEF Fits
      <4> QED BY <3>1, <4>1, <4>2, <4>3 DEF Back, Trying
    <3> QED BY <2>2, <3>2, <3>3, <3>4 DEF Atomic, J
  <2> QED BY <2>1, <2>2
<1> QED BY <1>4, <1>u DEF AtomInv

\* Of orderly clients, a LOCK request is all or nothing: when it is granted the
\* handle holds every range it asked for, on either platform, and on darwin,
\* when an element fails, the rollback leaves exactly what the handle held
\* before (applyLockOps and restoreLocks, lock.go).
THEOREM RequestsAtomic == Orderly => (Spec => []RequestIsAtomic)
<1> SUFFICES ASSUME Orderly PROVE Spec => []RequestIsAtomic
  OBVIOUS
<1>1. Init => IInv /\ AtomInv
  <2> SUFFICES ASSUME Init PROVE AtomInv
    BY InitIInv
  <2>1. \A j \in Jobs : job[j] = Idle /\ file[HandleOf[j]] = "open"
    BY LockConstants DEF Init
  <2>2. Idle.at = "idle"
    BY DEF Idle
  <2>3. \A T, O : Live(Idle, "open") /\ Got(os, Idle, T, O) /\ Back(Idle, T, "open")
    BY <2>2 DEF Live, Got, Back, Trying, Parked
  <2> QED BY <2>1, <2>3 DEF AtomInv, Atomic
<1>2. IInv /\ AtomInv /\ [Next]_vars => IInv' /\ AtomInv'
  <2> SUFFICES ASSUME IInv, AtomInv, [Next]_vars PROVE AtomInv'
    BY NextIInv
  <2>1. CASE UNCHANGED vars
    BY <2>1 DEF vars, AtomInv
  <2>2. CASE Next
    BY <2>2, BeginKeepsAtom, TryKeepsAtom, FailKeepsAtom, UndoKeepsAtom, RedoKeepsAtom,
       MirrorsKeepAtom, QuietStepsKeepAtom, HandleActionsKeepAtom DEF Next
  <2> QED BY <2>1, <2>2
<1>3. IInv /\ AtomInv => RequestIsAtomic
  <2> SUFFICES ASSUME IInv, AtomInv, NEW j \in Jobs
               PROVE  /\ job[j].at = "granted" =>
                           \A i \in 1..Len(job[j].ops) :
                               LET e == job[j].ops[i] IN
                               e.kind # "unlock" /\ e.length # 0 => Held(j, e)
                      /\ job[j].at = "failed" /\ os = "darwin" =>
                           tbl[HandleOf[j]] = job[j].snap
    BY DEF RequestIsAtomic
  <2> DEFINE J == job[j]
             h == HandleOf[j]
  <2>1. Atomic(os, J, tbl[h], ofd[h], file[h])
    BY DEF AtomInv
  <2>2. J.ops \in Requests \cup {<<>>}
    BY DEF IInv, JobInv, GoodJob, Job
  <2>3. ASSUME J.at = "granted", NEW i \in 1..Len(J.ops), J.ops[i].kind # "unlock",
               J.ops[i].length # 0
        PROVE  Held(j, J.ops[i])
    <3>1. ~UnlocksOnly(J.ops)
      BY <2>3 DEF UnlocksOnly
    <3>2. LocksOnly(J.ops)
      <4>1. CASE J.ops = <<>>
        BY <4>1 DEF LocksOnly
      <4>2. CASE J.ops \in Requests
        BY <3>1, <4>2 DEF Orderly
      <4> QED BY <2>2, <4>1, <4>2
    <3>3. HeldIn(os, J.ops[i], tbl[h], ofd[h])
      BY <2>1, <2>3, <3>2 DEF Atomic, Got
    <3> QED BY <3>3 DEF HeldIn, Held
  <2>4. ASSUME J.at = "failed", os = "darwin" PROVE tbl[h] = J.snap
    <3>1. LocksOnly(J.ops)
      BY <2>1, <2>4 DEF Atomic, Live
    <3> QED BY <2>1, <2>4, <3>1 DEF Atomic, Back
  <2> QED BY <2>3, <2>4
<1> QED BY <1>1, <1>2, <1>3, PTL DEF Spec
=============================================================================
