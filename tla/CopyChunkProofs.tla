--------------------------- MODULE CopyChunkProofs ---------------------------
(***************************************************************************)
(* Resume keys never outlive the handles they name; a copy that fails half *)
(* way had a cause from outside; and what is answered describes the target *)
(* byte by byte: for every set of handles, sessions, keys, files and       *)
(* requests and every word width.                                          *)
(***************************************************************************)
EXTENDS CopyChunk, SequenceTheorems, NaturalsInduction, WellFoundedInduction, TLAPS

\* The stages of a handle; KeysNameLiveHandles needs life to be a function.
LifeInv ==
    life \in [Opens -> {"none", "open", "claimed", "removed", "unkeyed", "closed"}]

\* What release and mint leave of the table: keys were minted (so that a fresh
\* one collides with none), and each handle's key leads back to it.
TableInv ==
    /\ DOMAIN byKey \subseteq issued
    /\ \A k \in DOMAIN byKey : byKey[k].open \in Opens
    /\ \A o \in DOMAIN byOpen :
          byOpen[o] \in DOMAIN byKey /\ byKey[byOpen[o]].open = o

IInv == LifeInv /\ TableInv /\ KeysNameLiveHandles

\* The variables of the invariant: whatever leaves them alone preserves it.
LEMMA Untouched ==
    ASSUME IInv, UNCHANGED <<life, byKey, byOpen, issued>>
    PROVE  IInv'
  BY DEF IInv, LifeInv, TableInv, KeysNameLiveHandles

\* release takes both entries of a handle out of the table, and only those.
LEMMA ReleaseForgets ==
    ASSUME NEW o \in Opens, TableInv, KeysNameLiveHandles, release(o)
    PROVE  /\ o \notin DOMAIN byOpen'
           /\ DOMAIN byOpen' \subseteq DOMAIN byOpen
           /\ DOMAIN byKey' \subseteq DOMAIN byKey
           /\ \A p \in DOMAIN byOpen' : byOpen'[p] = byOpen[p]
           /\ \A k \in DOMAIN byKey' : byKey'[k] = byKey[k] /\ byKey[k].open # o
           /\ \A p \in DOMAIN byOpen' : byOpen'[p] \in DOMAIN byKey'
           /\ \A k \in DOMAIN byKey' : byKey[k].open \in DOMAIN byOpen'
           /\ issued' = issued
<1>1. CASE o \in DOMAIN byOpen
  <2>1. /\ byKey' = [k \in DOMAIN byKey \ {byOpen[o]} |-> byKey[k]]
        /\ byOpen' = [p \in DOMAIN byOpen \ {o} |-> byOpen[p]]
        /\ issued' = issued
    BY <1>1 DEF release, without
  <2> QED
    BY <2>1, <1>1 DEF TableInv, KeysNameLiveHandles
<1>2. CASE o \notin DOMAIN byOpen
  BY <1>2 DEF release, TableInv, KeysNameLiveHandles
<1> QED BY <1>1, <1>2

\* mint puts one fresh key in for a handle of the session, in place of its old.
LEMMA MintKeeps ==
    ASSUME NEW o \in Opens, IInv, life[o] = "open", mint(o, SessOf[o]), life' = life
    PROVE  IInv'
<1> DEFINE k == CHOOSE x \in Keys \ issued : TRUE
           stale == IF o \in DOMAIN byOpen THEN {byOpen[o]} ELSE {}
<1>1. k \in Keys \ issued
  BY DEF mint
<1>2. /\ byKey' = [x \in (DOMAIN byKey \ stale) \cup {k} |->
                      IF x = k THEN [open |-> o, sess |-> SessOf[o]] ELSE byKey[x]]
      /\ byOpen' = [p \in DOMAIN byOpen \cup {o} |-> IF p = o THEN k ELSE byOpen[p]]
      /\ issued' = issued \cup {k}
  BY DEF mint
<1>3. k \notin DOMAIN byKey
  BY <1>1 DEF IInv, TableInv
<1> HIDE DEF k
<1>4. /\ DOMAIN byKey' = (DOMAIN byKey \ stale) \cup {k}
      /\ DOMAIN byOpen' = DOMAIN byOpen \cup {o}
      /\ byKey'[k] = [open |-> o, sess |-> SessOf[o]]
      /\ byOpen'[o] = k
      /\ \A x \in DOMAIN byKey \ stale : byKey'[x] = byKey[x]
      /\ \A p \in DOMAIN byOpen \ {o} : byOpen'[p] = byOpen[p]
  BY <1>2, <1>3
<1>5. \A x \in DOMAIN byKey \ stale : byKey[x].open \in Opens \ {o}
  BY DEF IInv, TableInv, KeysNameLiveHandles
<1>6. \A p \in DOMAIN byOpen \ {o} : byOpen[p] \in DOMAIN byKey \ stale
  BY DEF IInv, TableInv
<1> HIDE DEF stale
<1>7. LifeInv'
  BY DEF IInv, LifeInv
<1>8. TableInv'
  BY <1>2, <1>4, <1>5, <1>6 DEF IInv, TableInv
<1>9. KeysNameLiveHandles'
  BY <1>4, <1>5, <1>6 DEF IInv, LifeInv, TableInv, KeysNameLiveHandles
<1> QED BY <1>7, <1>8, <1>9 DEF IInv

\* A handle that keeps its key moves on to a stage with its descriptor.
LEMMA StageKeeps ==
    ASSUME NEW o \in Opens, IInv, NEW s \in {"open", "claimed", "removed"},
           life' = [life EXCEPT ![o] = s], UNCHANGED keyVars
    PROVE  IInv'
  BY DEF IInv, LifeInv, TableInv, KeysNameLiveHandles, keyVars

\* Every step of the specification preserves the invariant.
LEMMA StepKeeps == IInv /\ [Next]_vars => IInv'
<1> SUFFICES ASSUME IInv, [Next]_vars PROVE IInv'
  OBVIOUS
<1> USE DEF keyVars, handleVars
<1>1. ASSUME NEW o \in Opens, Create(o) PROVE IInv'
  BY <1>1, StageKeeps DEF Create
<1>2. ASSUME NEW o \in Opens, handleResumeKey(o) PROVE IInv'
  BY <1>2, MintKeeps DEF handleResumeKey
<1>3. ASSUME NEW o \in Opens, Edit(o) PROVE IInv'
  BY <1>3, Untouched DEF Edit
<1>4. ASSUME NEW o \in Closing, CloseRemoves(o) \/ Claim(o) PROVE IInv'
  BY <1>4, StageKeeps, CopyConstants DEF CloseRemoves, Claim
<1>5. ASSUME NEW o \in Closing, RetireKey(o) PROVE IInv'
  <2>1. o \in Opens
    BY CopyConstants
  <2>2. release(o) /\ life' = [life EXCEPT ![o] = "unkeyed"]
    BY <1>5 DEF RetireKey
  <2> QED
    BY <2>1, <2>2, ReleaseForgets DEF IInv, LifeInv, TableInv, KeysNameLiveHandles
<1>6. ASSUME NEW o \in Closing, CloseFile(o) PROVE IInv'
  <2>1. o \in Opens /\ life[o] = "unkeyed"
    BY <1>6, CopyConstants DEF CloseFile
  <2>2. life' = [life EXCEPT ![o] = "closed"] /\ UNCHANGED <<byKey, byOpen, issued>>
    BY <1>6 DEF CloseFile
  <2> QED
    BY <2>1, <2>2 DEF IInv, LifeInv, TableInv, KeysNameLiveHandles
<1>7. CASE Teardown
  <2>1. /\ DOMAIN byKey' = {} /\ DOMAIN byOpen' = {}
        /\ life' = [o \in Opens |-> IF life[o] = "claimed" THEN "claimed" ELSE "closed"]
    BY <1>7 DEF Teardown
  <2> QED
    BY <2>1 DEF IInv, LifeInv, TableInv, KeysNameLiveHandles
<1>8. ASSUME NEW t \in Opens, NEW key \in issued, NEW chunks \in Requests, NEW needed,
             handleCopyChunk(t, key, chunks, needed)
      PROVE  IInv'
  BY <1>8, Untouched DEF handleCopyChunk
<1>9. CASE CopyStep
  BY <1>9, Untouched
  DEF CopyStep, ValidateRequest, CompareFiles, copyRange, Respond, KernelDescriptor,
      copyFileRange, KernelDeclines, KernelFails, FallbackRead, FallbackWrite,
      FallbackWriteFails
<1>10. CASE UNCHANGED vars
  BY <1>10, Untouched DEF vars
<1> QED
  BY <1>1, <1>2, <1>3, <1>4, <1>5, <1>6, <1>7, <1>8, <1>9, <1>10 DEF Next

\* A resume key always names an open handle of the session it was issued to,
\* and the table's two maps stay inverse to each other, whatever is issued,
\* closed, claimed, released or torn down in whatever order (copychunk.go,
\* resumeKeyTable and its callers).
THEOREM KeysSafe == Spec => []KeysNameLiveHandles
<1>1. Init => IInv
  <2> SUFFICES ASSUME Init PROVE IInv
    OBVIOUS
  <2>1. /\ life = [o \in Opens |-> IF o \in Early THEN "open" ELSE "none"]
        /\ DOMAIN byKey = {} /\ DOMAIN byOpen = {}
    BY DEF Init
  <2> QED
    BY <2>1 DEF IInv, LifeInv, TableInv, KeysNameLiveHandles
<1>2. IInv => KeysNameLiveHandles
  BY DEF IInv
<1> QED
  BY <1>1, <1>2, StepKeeps, PTL DEF Spec

-----------------------------------------------------------------------------
(* Files are sequences, and writing makes none of them shorter.            *)

Sequence(s) == s \in Seq(Range(s))

LEMMA OverlayGrows ==
    ASSUME NEW s, Sequence(s), NEW at \in Nat, NEW b, Len(b) \in Nat
    PROVE  Sequence(Overlay(s, at, b)) /\ Len(Overlay(s, at, b)) >= Len(s)
<1> DEFINE size == IF b = <<>> \/ at + Len(b) < Len(s) THEN Len(s) ELSE at + Len(b)
           o == Overlay(s, at, b)
<1>0. Len(s) \in Nat
  BY DEF Sequence
<1>1. size \in Nat /\ size >= Len(s)
  BY <1>0
<1>2. o = [i \in 1..size |-> IF i > at /\ i <= at + Len(b) THEN b[i - at]
                           ELSE IF i <= Len(s) THEN s[i] ELSE "zero"]
  BY DEF Overlay
<1> HIDE DEF size
<1>3. DOMAIN o = 1..size
  BY <1>2
<1>4. o = [i \in 1..size |-> o[i]]
  BY <1>2
<1> HIDE DEF o
<1>5. o \in [1..size -> Range(o)]
  BY <1>3, <1>4 DEF Range
<1>6. o \in Seq(Range(o))
  BY <1>1, <1>5
<1>7. Len(o) = size
  BY <1>1, <1>3, <1>6
<1> QED BY <1>1, <1>6, <1>7 DEF Sequence, o

LEMMA PartLength ==
    ASSUME NEW s, Sequence(s), NEW m \in Nat, m >= 1, NEW n \in Nat, n <= Len(s)
    PROVE  /\ Sequence(SubSeq(s, m, n))
         /\ Len(SubSeq(s, m, n)) = IF m <= n THEN n - m + 1 ELSE 0
<1>1. \A i \in m..n : i \in DOMAIN s
  BY DEF Sequence
<1>2. \A i \in m..n : s[i] \in Range(s)
  BY <1>1 DEF Range
<1>3. /\ SubSeq(s, m, n) \in Seq(Range(s))
      /\ Len(SubSeq(s, m, n)) = IF m <= n THEN n - m + 1 ELSE 0
  BY <1>2, SubSeqProperties
<1>4. ASSUME NEW r \in Seq(Range(s)) PROVE Sequence(r)
  BY DEF Sequence, Range
<1> QED BY <1>3, <1>4

LEMMA ReadLength ==
    ASSUME NEW f, Sequence(content[f]), NEW at \in Nat, NEW n \in Nat
    PROVE  LET r == ReadFrom(f, at, n) IN
         /\ Sequence(r) /\ Len(r) \in Nat /\ Len(r) <= n
         /\ at + n <= Len(content[f]) => Len(r) = n
<1> DEFINE s == content[f]
           end == IF at + n < Len(s) THEN at + n ELSE Len(s)
<1>1. end \in Nat /\ end <= Len(s) /\ end <= at + n /\ (at + n <= Len(s) => end = at + n)
  BY DEF Sequence
<1>2. ReadFrom(f, at, n) = SubSeq(s, at + 1, end)
  BY DEF ReadFrom
<1> HIDE DEF end
<1>3. /\ Sequence(SubSeq(s, at + 1, end))
      /\ Len(SubSeq(s, at + 1, end)) = IF at + 1 <= end THEN end - (at + 1) + 1 ELSE 0
  BY <1>1, PartLength
<1> QED BY <1>1, <1>2, <1>3

-----------------------------------------------------------------------------
(* A copy, from its validation to its answer.                              *)

Shaped(J) ==
    {"at", "target", "src", "chunks", "c", "done", "num", "buf", "eof", "total", "status",
     "whole", "part", "start", "alone", "fault"} \subseteq DOMAIN J

Inside == {"kernel", "syscall", "fallback", "write"}
Copying == {"compare"} \cup Inside

\* What validation leaves of the chunks: sums that do not wrap...
Checked(chunks) ==
    \A i \in 1..Len(chunks) : LET ch == chunks[i] IN
        /\ ch.source \in Nat /\ ch.target \in Nat /\ ch.length \in Nat /\ ch.length >= 1
        /\ ch.source <= MaxInt /\ ch.target <= MaxInt /\ ch.length <= MaxInt

\* ...within the source.
Enough(chunks, size) ==
    \A i \in 1..Len(chunks) : chunks[i].source + chunks[i].length <= size

\* The loop stands within chunk c.
Within(J) ==
    /\ J.c \in 1..Len(J.chunks)
    /\ J.done \in Nat /\ J.done < J.chunks[J.c].length

Whole(J) ==
    /\ Shaped(J) /\ J.fault \in BOOLEAN /\ J.alone \in BOOLEAN
    /\ J.src \in Opens /\ J.target \in Opens /\ J.chunks \in Requests

\* The copy can run into the end of its source, or into a closed one, only if
\* others interfered.
Sound(J, C, L) ==
    /\ J.at \in {"idle", "stat", "answer"} \cup Copying
    /\ J.at \in {"stat"} \cup Copying => Whole(J)
    /\ J.at \in {"stat", "compare"} => J.c = 1
    /\ J.at \in Copying =>
         /\ Checked(J.chunks)
         /\ J.alone => Enough(J.chunks, Len(C[FileOf[J.src]]))
         /\ L[J.src] = "closed" => J.fault
    /\ J.at \in Inside => Within(J)
    /\ J.at = "write" => /\ Sequence(J.buf) /\ Len(J.buf) <= J.chunks[J.c].length - J.done
                         /\ J.eof => ~J.alone
    /\ J.at = "answer" => /\ Shaped(J)
                          /\ J.status = "failed" => ~J.alone \/ J.fault

FilesInv == DOMAIN content = Files /\ \A f \in Files : Sequence(content[f])

CopyInv == FilesInv /\ Sound(job, content, life)

LEMMA Words == MaxInt \in Nat /\ MaxWord \in Nat /\ MaxWord = 2 * MaxInt + 1
  BY CopyConstants DEF MaxWord

\* A sum below the word size does not wrap.
LEMMA PlusIs ==
    ASSUME NEW a \in Nat, NEW b \in Nat, a <= MaxInt, b <= MaxInt
    PROVE  Plus(a, b) = a + b
<1>1. a + b \in 0..MaxWord
  BY Words
<1>2. \A m \in Nat \ {0}, x \in Nat : x < m => x % m = x
  OBVIOUS
<1> QED BY <1>1, <1>2, Words DEF Plus

\* validateCopyChunks lets only chunks through that lie within the source.
LEMMA ValidationChecks ==
    ASSUME NEW chunks \in Requests, NEW size \in Nat, validateCopyChunks(chunks, size)
    PROVE  Checked(chunks) /\ Enough(chunks, size)
<1> SUFFICES ASSUME NEW i \in 1..Len(chunks)
             PROVE  LET ch == chunks[i] IN
                    /\ ch.source \in Nat /\ ch.target \in Nat /\ ch.length \in Nat
                    /\ ch.length >= 1 /\ ch.source <= MaxInt /\ ch.target <= MaxInt
                    /\ ch.length <= MaxInt /\ ch.source + ch.length <= size
  BY DEF Checked, Enough
<1> DEFINE ch == chunks[i]
<1>1. chunks \in Seq(Chunk)
  BY CopyConstants
<1>2. i \in DOMAIN chunks /\ ch \in Chunk
  BY <1>1
<1>3. ch.source \in Nat /\ ch.target \in Nat /\ ch.length \in Nat
  BY <1>2, Words DEF Chunk
<1>4. ch.length \in 1..MaxChunk /\ addressable(ch) /\ Plus(ch.source, ch.length) <= size
  BY <1>2 DEF validateCopyChunks, withinLimits
<1> HIDE DEF ch
<1>5. ch.length >= 1 /\ ch.length <= MaxInt /\ ch.source <= MaxInt /\ ch.target <= MaxInt
  BY <1>3, <1>4, CopyConstants DEF addressable
<1>6. Plus(ch.source, ch.length) = ch.source + ch.length
  BY <1>3, <1>5, PlusIs
<1> QED BY <1>3, <1>4, <1>5, <1>6 DEF ch

\* The offsets of the loop, within a checked chunk.
LEMMA Offsets ==
    ASSUME CopyInv, job.at \in Inside
    PROVE  /\ left \in Nat /\ left >= 1 /\ readAt \in Nat /\ writeAt \in Nat
           /\ left = job.chunks[job.c].length - job.done
           /\ job.alone => readAt + left <= Len(content[FileOf[job.src]])
<1>1. Checked(job.chunks) /\ Within(job)
      /\ (job.alone => Enough(job.chunks, Len(content[FileOf[job.src]])))
  BY DEF CopyInv, Sound, Copying
<1>2. /\ chunk.source \in Nat /\ chunk.target \in Nat /\ chunk.length \in Nat
      /\ chunk.source <= MaxInt /\ chunk.target <= MaxInt
      /\ job.done \in Nat /\ job.done < chunk.length
      /\ job.alone => chunk.source + chunk.length <= Len(content[FileOf[job.src]])
  BY <1>1 DEF Checked, Within, Enough, chunk
<1>3. readAt = chunk.source + job.done /\ writeAt = chunk.target + job.done
  BY <1>2, Words DEF readAt, writeAt, int64
<1>4. left = chunk.length - job.done
  BY DEF left
<1>5. chunk = job.chunks[job.c]
  BY DEF chunk
<1>6. Len(content[FileOf[job.src]]) \in Nat
  <2>1. FileOf[job.src] \in Files
    BY CopyConstants DEF CopyInv, Sound, Copying, Whole
  <2> QED BY <2>1 DEF CopyInv, FilesInv, Sequence
<1>7. PICK cs \in Nat, ct \in Nat, cl \in Nat, d \in Nat, n \in Nat :
         /\ cs = chunk.source /\ ct = chunk.target /\ cl = chunk.length /\ d = job.done
         /\ n = Len(content[FileOf[job.src]])
  BY <1>2, <1>6
<1>8. /\ left \in Nat /\ left >= 1 /\ readAt \in Nat /\ writeAt \in Nat
      /\ readAt + left = cs + cl
  <2>1. left = cl - d /\ readAt = cs + d /\ writeAt = ct + d /\ d < cl
    BY <1>2, <1>3, <1>4, <1>7
  <2> QED BY <2>1
<1> QED BY <1>2, <1>4, <1>5, <1>7, <1>8

\* A step that touches neither the files nor the handles.
LEMMA QuietCopy ==
    ASSUME CopyInv, UNCHANGED <<content, life>>, Sound(job', content, life)
    PROVE  CopyInv'
  BY DEF CopyInv, FilesInv

\* What the copy writes makes no file shorter.
LEMMA PutKeeps ==
    ASSUME CopyInv, job.target \in Opens, writeAt \in Nat, NEW bytes, Len(bytes) \in Nat,
           putBytes(bytes)
    PROVE  FilesInv' /\ \A f \in Files : Len(content'[f]) >= Len(content[f])
<1> DEFINE t == FileOf[job.target]
<1>1. t \in Files /\ content' = [content EXCEPT ![t] = Overlay(content[t], writeAt, bytes)]
  BY CopyConstants DEF putBytes
<1>2. DOMAIN content = Files /\ \A f \in Files : Sequence(content[f]) /\ Len(content[f]) \in Nat
  BY DEF CopyInv, FilesInv, Sequence
<1>3. /\ Sequence(Overlay(content[t], writeAt, bytes))
      /\ Len(Overlay(content[t], writeAt, bytes)) >= Len(content[t])
  BY <1>1, <1>2, OverlayGrows
<1> HIDE DEF t
<1>4. /\ DOMAIN content' = Files /\ content'[t] = Overlay(content[t], writeAt, bytes)
      /\ \A f \in Files \ {t} : content'[f] = content[f]
  BY <1>1, <1>2
<1>5. \A f \in Files : Sequence(content'[f])
  BY <1>2, <1>3, <1>4
<1>6. \A f \in Files : Len(content'[f]) >= Len(content[f])
  BY <1>2, <1>3, <1>4
<1> QED BY <1>4, <1>5, <1>6 DEF FilesInv, Sequence

\* ...so that what was enough still is.
LEMMA EnoughStays ==
    ASSUME NEW chunks, NEW m \in Nat, NEW n \in Nat, n >= m, Checked(chunks), Enough(chunks, m)
    PROVE  Enough(chunks, n)
  BY DEF Enough, Checked

\* The loop goes on after n bytes: in the chunk, with the next one, or with the
\* answer of success.
LEMMA MovedOn ==
    ASSUME NEW J, Whole(J), Checked(J.chunks), Within(J), NEW n \in Nat,
           n <= J.chunks[J.c].length - J.done, NEW at \in {"kernel", "fallback"}
    PROVE  LET K == Moved(J, n, at) IN
           /\ Whole(K) /\ K.alone = J.alone /\ K.fault = J.fault /\ K.src = J.src
           /\ K.chunks = J.chunks
           /\ K.at \in {"kernel", "fallback", "answer"}
           /\ K.at = "answer" => K.status = "success"
           /\ K.at # "answer" => Within(K)
<1> DEFINE k == [J EXCEPT !.done = @ + n, !.total = @ + n, !.at = at]
           m == [k EXCEPT !.c = @ + 1]
           x == [m EXCEPT !.at = "kernel", !.done = 0]
           y == Answer(m, "success", Len(m.chunks), 0, m.total)
<1>s. Shaped(J) /\ Len(J.chunks) \in Nat
  BY CopyConstants DEF Whole
<1>w. /\ J.c \in 1..Len(J.chunks) /\ J.done \in Nat /\ J.chunks[J.c].length \in Nat
      /\ J.done < J.chunks[J.c].length
  BY DEF Within, Checked
<1>1. /\ DOMAIN k = DOMAIN J /\ k.at = at /\ k.done = J.done + n /\ k.c = J.c
      /\ k.chunks = J.chunks /\ k.src = J.src /\ k.target = J.target
      /\ k.alone = J.alone /\ k.fault = J.fault
  BY <1>s DEF Shaped
<1>2. /\ DOMAIN m = DOMAIN J /\ m.at = at /\ m.c = J.c + 1
      /\ m.chunks = J.chunks /\ m.src = J.src /\ m.target = J.target
      /\ m.alone = J.alone /\ m.fault = J.fault
  <2> HIDE DEF k
  <2> QED BY <1>s, <1>1 DEF Shaped
<1>3. /\ DOMAIN x = DOMAIN J /\ x.at = "kernel" /\ x.c = J.c + 1 /\ x.done = 0
      /\ x.chunks = J.chunks /\ x.src = J.src /\ x.target = J.target
      /\ x.alone = J.alone /\ x.fault = J.fault
  <2> HIDE DEF m
  <2> QED BY <1>s, <1>2 DEF Shaped
<1>4. /\ DOMAIN y = DOMAIN J /\ y.at = "answer" /\ y.status = "success"
      /\ y.chunks = J.chunks /\ y.src = J.src /\ y.target = J.target
      /\ y.alone = J.alone /\ y.fault = J.fault
  <2> HIDE DEF m
  <2> QED BY <1>s, <1>2 DEF Shaped, Answer
<1>5. Moved(J, n, at) = IF k.done = J.chunks[J.c].length
                        THEN IF m.c <= Len(m.chunks) THEN x ELSE y
                        ELSE k
  BY DEF Moved, NextChunk
<1> HIDE DEF k, m, x, y
<1>6. CASE k.done # J.chunks[J.c].length
  <2>1. J.done + n < J.chunks[J.c].length /\ J.done + n \in Nat
    BY <1>1, <1>6, <1>w
  <2>2. Whole(k) /\ Within(k)
    BY <1>1, <1>w, <2>1 DEF Whole, Within, Shaped
  <2> QED BY <1>1, <1>5, <1>6, <2>2
<1>7. CASE k.done = J.chunks[J.c].length /\ m.c <= Len(m.chunks)
  <2>1. x.c \in 1..Len(x.chunks)
    BY <1>2, <1>3, <1>7, <1>s, <1>w
  <2>2. x.chunks[x.c].length \in Nat /\ x.chunks[x.c].length >= 1
    BY <1>3, <2>1 DEF Checked
  <2>3. Whole(x) /\ Within(x)
    BY <1>3, <2>1, <2>2 DEF Whole, Within, Shaped
  <2> QED BY <1>3, <1>5, <1>7, <2>3
<1>8. CASE k.done = J.chunks[J.c].length /\ ~(m.c <= Len(m.chunks))
  <2>1. Whole(y)
    BY <1>4 DEF Whole, Shaped
  <2> QED BY <1>4, <1>5, <1>8, <2>1
<1> QED BY <1>6, <1>7, <1>8

\* An answer is sound when it is not a failure, or one that is excused.
LEMMA AnswerSound ==
    ASSUME NEW J, Shaped(J), NEW status, NEW w, NEW p, NEW t, NEW C, NEW L,
           status = "failed" => ~J.alone \/ J.fault
    PROVE  Sound(Answer(J, status, w, p, t), C, L)
<1> DEFINE a == Answer(J, status, w, p, t)
<1>1. a.at = "answer" /\ a.status = status /\ a.alone = J.alone /\ a.fault = J.fault
      /\ DOMAIN a = DOMAIN J
  BY DEF Answer, Shaped
<1> HIDE DEF a
<1>2. Sound(a, C, L)
  BY <1>1 DEF Sound, Shaped, Copying, Inside
<1> QED BY <1>2 DEF a

-----------------------------------------------------------------------------
(* The steps, on the soundness of the copy.                                *)

\* Handles come and go, and others edit the files.
LEMMA OthersKeepCopy ==
    ASSUME IInv, CopyInv,
           \/ \E o \in Opens : Create(o) \/ handleResumeKey(o) \/ Edit(o)
           \/ \E o \in Closing : CloseRemoves(o) \/ Claim(o) \/ RetireKey(o) \/ CloseFile(o)
           \/ Teardown
    PROVE  CopyInv'
<1>l. DOMAIN life = Opens
  BY DEF IInv, LifeInv
<1>s. Sound(job, content, life)
  BY DEF CopyInv
<1>1. ASSUME NEW L, \A o \in Opens : L[o] = "closed" => life[o] = "closed"
      PROVE  Sound(job, content, L)
  BY <1>1, <1>s DEF Sound, Whole, Copying, Inside
<1>2. ASSUME NEW o \in Opens, Create(o) PROVE CopyInv'
  <2>1. /\ UNCHANGED content /\ life' = [life EXCEPT ![o] = "open"]
        /\ job' = job \/ (job.at = "syscall" /\ job' = [job EXCEPT !.alone = FALSE])
    BY <1>2 DEF Create
  <2>2. \A p \in Opens : life'[p] = "closed" => life[p] = "closed"
    BY <1>l, <2>1
  <2>3. Sound(job, content, life')
    BY <1>1, <2>2
  <2>4. ASSUME job.at = "syscall" PROVE Sound([job EXCEPT !.alone = FALSE], content, life')
    <3> DEFINE q == [job EXCEPT !.alone = FALSE]
    <3>1. Shaped(job)
      BY <1>s, <2>4 DEF Sound, Copying, Inside, Whole
    <3>2. /\ DOMAIN q = DOMAIN job /\ q.at = "syscall" /\ q.alone = FALSE /\ q.fault = job.fault
          /\ q.src = job.src /\ q.target = job.target /\ q.chunks = job.chunks
          /\ q.c = job.c /\ q.done = job.done
      BY <2>4, <3>1 DEF Shaped
    <3> HIDE DEF q
    <3>a. ~q.alone /\ q.alone \in BOOLEAN
      BY <3>2
    <3>b. Whole(job) /\ Within(job) /\ Checked(job.chunks)
          /\ (life'[job.src] = "closed" => job.fault)
      BY <2>3, <2>4 DEF Sound, Copying, Inside
    <3>c. Whole(q) /\ Within(q)
      BY <3>a, <3>b, <3>2 DEF Whole, Within, Shaped
    <3>3. Sound(q, content, life')
      BY <3>a, <3>b, <3>c, <3>2 DEF Sound, Copying, Inside
    <3> QED BY <3>3 DEF q
  <2> QED BY <2>1, <2>3, <2>4 DEF CopyInv, FilesInv
<1>3. ASSUME NEW o \in Opens, handleResumeKey(o) PROVE CopyInv'
  BY <1>3, <1>s, QuietCopy DEF handleResumeKey, handleVars
<1>4. ASSUME NEW o \in Opens, Edit(o) PROVE CopyInv'
  <2> DEFINE f == FileOf[o]
             q == [job EXCEPT !.alone = FALSE]
  <2>1. PICK new \in {Overlay(content[f], 0, <<"edit">>), <<>>} :
           content' = [content EXCEPT ![f] = new]
    BY <1>4 DEF Edit
  <2>2. job.at # "idle" /\ job' = q /\ life' = life
    BY <1>4 DEF Edit, handleVars
  <2>3. f \in Files /\ DOMAIN content = Files /\ \A g \in Files : Sequence(content[g])
    BY CopyConstants DEF CopyInv, FilesInv
  <2>4. Sequence(new)
    <3>1. Sequence(Overlay(content[f], 0, <<"edit">>))
      <4>1. Len(<<"edit">>) \in Nat /\ 0 \in Nat
        OBVIOUS
      <4> QED BY <2>3, <4>1, OverlayGrows
    <3>2. Sequence(<<>>)
      BY DEF Sequence
    <3> QED BY <3>1, <3>2
  <2>5. DOMAIN content' = Files /\ \A g \in Files : Sequence(content'[g])
    BY <2>1, <2>3, <2>4
  <2>6. Shaped(job)
    BY <1>s, <2>2 DEF Sound, Whole
  <2>7. /\ DOMAIN q = DOMAIN job /\ q.at = job.at /\ q.alone = FALSE /\ q.fault = job.fault
        /\ q.src = job.src /\ q.target = job.target /\ q.chunks = job.chunks
        /\ q.c = job.c /\ q.done = job.done /\ q.buf = job.buf /\ q.eof = job.eof
    BY <2>6 DEF Shaped
  <2> HIDE DEF q, f
  <2>a. ~q.alone /\ q.alone \in BOOLEAN
    BY <2>7
  <2>b. /\ Shaped(q) /\ (Whole(job) => Whole(q)) /\ (Within(job) => Within(q))
    BY <2>a, <2>6, <2>7 DEF Whole, Within, Shaped
  <2>8. Sound(q, content', life)
    BY <1>s, <2>a, <2>b, <2>7 DEF Sound, Copying, Inside
  <2> QED BY <2>2, <2>5, <2>8 DEF CopyInv, FilesInv, Sequence
<1>5. ASSUME NEW o \in Closing, CloseRemoves(o) \/ Claim(o) \/ RetireKey(o) PROVE CopyInv'
  <2>1. PICK l \in {"removed", "claimed", "unkeyed"} : life' = [life EXCEPT ![o] = l]
    BY <1>5 DEF CloseRemoves, Claim, RetireKey
  <2>2. UNCHANGED <<content, job>>
    BY <1>5 DEF CloseRemoves, Claim, RetireKey
  <2>3. \A p \in Opens : life'[p] = "closed" => life[p] = "closed"
    BY <1>l, <2>1
  <2> QED BY <1>1, <2>2, <2>3 DEF CopyInv, FilesInv
<1>6. ASSUME NEW o \in Closing, CloseFile(o) PROVE CopyInv'
  <2> DEFINE q == [job EXCEPT !.fault = TRUE]
  <2>1. /\ UNCHANGED content /\ life' = [life EXCEPT ![o] = "closed"]
        /\ job' = IF job.at # "idle" /\ job.src = o THEN q ELSE job
    BY <1>6 DEF CloseFile
  <2>2. CASE job.at # "idle" /\ job.src = o
    <3>1. Shaped(job)
      BY <1>s, <2>2 DEF Sound, Whole
    <3>2. /\ DOMAIN q = DOMAIN job /\ q.at = job.at /\ q.alone = job.alone /\ q.fault = TRUE
          /\ q.src = job.src /\ q.target = job.target /\ q.chunks = job.chunks
          /\ q.c = job.c /\ q.done = job.done /\ q.buf = job.buf /\ q.eof = job.eof
      BY <3>1 DEF Shaped
    <3> HIDE DEF q
    <3>3. Sound(q, content, life')
      BY <1>s, <3>1, <3>2 DEF Sound, Whole, Shaped, Copying, Inside, Within
    <3> QED BY <2>1, <2>2, <3>3 DEF CopyInv, FilesInv
  <2>3. CASE ~(job.at # "idle" /\ job.src = o)
    <3>1. job' = job
      BY <2>1, <2>3
    <3>2. \A p \in Opens \ {o} : life'[p] = life[p]
      BY <1>l, <2>1
    <3>3. Sound(job, content, life')
      BY <1>s, <2>3, <3>2 DEF Sound, Whole, Copying, Inside
    <3> QED BY <2>1, <3>1, <3>3 DEF CopyInv, FilesInv
  <2> QED BY <2>2, <2>3
<1>7. CASE Teardown
  <2>1. job.at = "idle" /\ UNCHANGED <<content, job>>
    BY <1>7 DEF Teardown
  <2>2. Sound(job, content, life')
    BY <2>1 DEF Sound, Copying, Inside
  <2> QED BY <2>1, <2>2 DEF CopyInv, FilesInv
<1> QED BY <1>2, <1>3, <1>4, <1>5, <1>6, <1>7

\* The request arrives, and is measured.
LEMMA RequestKeepsCopy ==
    ASSUME IInv, CopyInv, NEW t \in Opens, NEW key, NEW chunks \in Requests, NEW needed,
           handleCopyChunk(t, key, chunks, needed)
    PROVE  CopyInv'
<1> DEFINE s == resolve(key, SessOf[t])
           j == [at |-> "stat", target |-> t, src |-> s, chunks |-> chunks, c |-> 1,
                 done |-> 0, num |-> None, buf |-> <<>>, eof |-> FALSE, total |-> 0,
                 status |-> "none", whole |-> 0, part |-> 0,
                 start |-> content, alone |-> TRUE, fault |-> FALSE]
<1>1. UNCHANGED <<content, life>> /\ (job' = Refuse(j) \/ (job' = j /\ s # None))
  BY DEF handleCopyChunk, handleVars
<1>2. Shaped(j)
  BY DEF Shaped
<1>3. j.at = "stat" /\ j.target = t /\ j.src = s /\ j.chunks = chunks /\ j.alone = TRUE
      /\ j.fault = FALSE /\ j.c = 1
  OBVIOUS
<1>4. s # None => s \in Opens
  BY DEF resolve, IInv, TableInv
<1> HIDE DEF j, s
<1>5. s # None => Sound(j, content, life)
  BY <1>2, <1>3, <1>4 DEF Sound, Whole, Copying, Inside
<1>6. Sound(Refuse(j), content, life)
  <2>1. "refused" # "failed"
    OBVIOUS
  <2> QED BY <1>2, <2>1, AnswerSound DEF Refuse
<1> QED BY <1>1, <1>5, <1>6, QuietCopy

LEMMA MeasureKeepsCopy ==
    ASSUME CopyInv, ValidateRequest \/ CompareFiles
    PROVE  CopyInv'
<1>s. Sound(job, content, life)
  BY DEF CopyInv
<1>1. UNCHANGED <<content, life>>
  BY DEF ValidateRequest, CompareFiles, handleVars
<1>2. job.at \in {"stat", "compare"} /\ Whole(job)
  BY <1>s DEF ValidateRequest, CompareFiles, Sound, Copying
<1>3. Sound(Refuse(job), content, life)
  <2>1. "refused" # "failed"
    OBVIOUS
  <2> QED BY <1>2, <2>1, AnswerSound DEF Refuse, Whole
<1>4. CASE ValidateRequest
  <2> DEFINE q == [job EXCEPT !.at = "compare"]
  <2>1. CASE job' = Refuse(job)
    BY <1>1, <1>3, <2>1, QuietCopy
  <2>2. CASE /\ job' = q /\ life[job.src] # "closed"
             /\ validateCopyChunks(job.chunks, Len(content[FileOf[job.src]]))
    <3>1. /\ DOMAIN q = DOMAIN job /\ q.at = "compare" /\ q.alone = job.alone
          /\ q.fault = job.fault /\ q.src = job.src /\ q.target = job.target
          /\ q.chunks = job.chunks /\ q.c = job.c
      BY <1>2 DEF Whole, Shaped
    <3>2. Len(content[FileOf[job.src]]) \in Nat
      BY <1>2, CopyConstants DEF Whole, CopyInv, FilesInv, Sequence
    <3>3. Checked(job.chunks) /\ Enough(job.chunks, Len(content[FileOf[job.src]]))
      BY <1>2, <2>2, <3>2, ValidationChecks DEF Whole
    <3> HIDE DEF q
    <3>4. Sound(q, content, life)
      BY <1>2, <1>s, <2>2, <3>1, <3>3 DEF Sound, Whole, Shaped, Copying, Inside
    <3> QED BY <1>1, <2>2, <3>4, QuietCopy
  <2> QED BY <1>4, <2>1, <2>2 DEF ValidateRequest
<1>5. CASE CompareFiles
  <2>1. CASE job' = Refuse(job)
    BY <1>1, <1>3, <2>1, QuietCopy
  <2>2. CASE job' = NextChunk(job)
    <3> DEFINE x == [job EXCEPT !.at = "kernel", !.done = 0]
    <3>1. /\ DOMAIN x = DOMAIN job /\ x.at = "kernel" /\ x.alone = job.alone /\ x.done = 0
          /\ x.fault = job.fault /\ x.src = job.src /\ x.target = job.target
          /\ x.chunks = job.chunks /\ x.c = job.c
      BY <1>2 DEF Whole, Shaped
    <3>2. \/ job' = x /\ job.c <= Len(job.chunks)
          \/ job' = Answer(job, "success", Len(job.chunks), 0, job.total)
      BY <2>2 DEF NextChunk
    <3>3. Sound(Answer(job, "success", Len(job.chunks), 0, job.total), content, life)
      <4>1. "success" # "failed"
        OBVIOUS
      <4> QED BY <1>2, <4>1, AnswerSound DEF Whole
    <3> HIDE DEF x
    <3>4. ASSUME job.c <= Len(job.chunks) PROVE Sound(x, content, life)
      <4>1. /\ job.at = "compare" /\ job.c = 1 /\ Checked(job.chunks)
            /\ job.alone => Enough(job.chunks, Len(content[FileOf[job.src]]))
            /\ life[job.src] = "closed" => job.fault
        BY <1>5, <1>s DEF CompareFiles, Sound, Copying
      <4>2. 1 \in 1..Len(job.chunks)
        BY <1>2, <3>4, <4>1, CopyConstants DEF Whole
      <4>3. Within(x)
        BY <3>1, <4>1, <4>2 DEF Within, Checked
      <4> QED BY <1>2, <3>1, <4>1, <4>3 DEF Sound, Whole, Shaped, Copying, Inside
    <3> QED BY <1>1, <3>2, <3>3, <3>4, QuietCopy
  <2> QED BY <1>5, <2>1, <2>2 DEF CompareFiles
<1> QED BY <1>4, <1>5

\* The loop over the bytes of the chunks.
LEMMA LoopKeepsCopy ==
    ASSUME CopyInv, copyRange
    PROVE  CopyInv'
<1> DEFINE J == job
           size == Len(content[FileOf[job.src]])
<1>s. Sound(J, content, life)
  BY DEF CopyInv
<1>i. J.at \in Inside
  BY DEF copyRange, KernelDescriptor, copyFileRange, KernelDeclines, KernelFails, FallbackRead,
         FallbackWrite, FallbackWriteFails, Inside
<1>w. /\ Whole(J) /\ Shaped(J) /\ Checked(J.chunks) /\ Within(J)
      /\ J.alone => Enough(J.chunks, size)
      /\ life[J.src] = "closed" => J.fault
      /\ J.fault \in BOOLEAN /\ J.alone \in BOOLEAN /\ J.src \in Opens /\ J.target \in Opens
  BY <1>i, <1>s DEF Sound, Copying, Whole
<1>o. /\ left \in Nat /\ left >= 1 /\ readAt \in Nat /\ writeAt \in Nat
      /\ left = J.chunks[J.c].length - J.done
      /\ J.alone => readAt + left <= size
  BY <1>i, Offsets
<1>f. FileOf[J.src] \in Files /\ size \in Nat /\ Sequence(content[FileOf[J.src]])
  BY <1>w, CopyConstants DEF CopyInv, FilesInv, Sequence
<1>l. life' = life
  BY DEF copyRange, KernelDescriptor, copyFileRange, KernelDeclines, KernelFails, FallbackRead,
         FallbackWrite, FallbackWriteFails, handleVars
\* A job that the loop goes on with, the files at least as long.
<1>m. ASSUME NEW K, NEW C, Whole(K), K.at \in Inside \ {"write"}, Within(K), K.chunks = J.chunks,
             K.src = J.src, K.alone = J.alone, K.fault = J.fault,
             Len(C[FileOf[J.src]]) \in Nat, Len(C[FileOf[J.src]]) >= size
      PROVE  Sound(K, C, life)
  <2>1. J.alone => Enough(J.chunks, Len(C[FileOf[J.src]]))
    BY <1>m, <1>f, <1>w, EnoughStays
  <2> QED BY <1>m, <1>w, <2>1 DEF Sound, Copying, Inside
<1>p. ASSUME NEW n \in Nat, n <= left, NEW at \in {"kernel", "fallback"}, NEW C,
             Len(C[FileOf[J.src]]) \in Nat, Len(C[FileOf[J.src]]) >= size
      PROVE  LET K == Moved(J, n, at) IN
             Shaped(K) /\ K.alone = J.alone /\ K.fault = J.fault /\ Sound(K, C, life)
  <2> DEFINE K == Moved(J, n, at)
  <2>1. /\ Whole(K) /\ K.alone = J.alone /\ K.fault = J.fault /\ K.src = J.src
        /\ K.chunks = J.chunks
        /\ K.at \in {"kernel", "fallback", "answer"}
        /\ K.at = "answer" => K.status = "success"
        /\ K.at # "answer" => Within(K)
    BY <1>o, <1>p, <1>w, MovedOn
  <2> HIDE DEF K
  <2>2. CASE K.at = "answer"
    <3>1. Shaped(K) /\ K.status # "failed"
      BY <2>1, <2>2 DEF Whole
    <3> QED BY <2>1, <2>2, <3>1 DEF Sound, Copying, Inside, K
  <2>3. CASE K.at # "answer"
    <3>1. Sound(K, C, life)
      BY <1>m, <1>p, <2>1, <2>3 DEF Inside
    <3> QED BY <2>1, <3>1 DEF Whole, K
  <2> QED BY <2>2, <2>3
<1>q. ASSUME UNCHANGED content, Sound(job', content, life) PROVE CopyInv'
  BY <1>l, <1>q, QuietCopy
<1>c. ASSUME NEW bytes, Len(bytes) \in Nat, putBytes(bytes)
      PROVE  FilesInv' /\ Len(content'[FileOf[J.src]]) \in Nat
             /\ Len(content'[FileOf[J.src]]) >= size
  <2>1. FilesInv' /\ \A f \in Files : Len(content'[f]) >= Len(content[f])
    BY <1>c, <1>o, <1>w, PutKeeps
  <2> QED BY <1>f, <2>1 DEF FilesInv, Sequence
<1> HIDE DEF J, size
<1>1. CASE KernelDescriptor
  <2>1. PICK n : job' = [J EXCEPT !.at = "syscall", !.num = n]
    BY <1>1 DEF KernelDescriptor, J
  <2> DEFINE K == [J EXCEPT !.at = "syscall", !.num = n]
  <2>2. /\ DOMAIN K = DOMAIN J /\ K.at = "syscall" /\ K.alone = J.alone /\ K.fault = J.fault
        /\ K.src = J.src /\ K.target = J.target /\ K.chunks = J.chunks /\ K.c = J.c
        /\ K.done = J.done
    BY <1>w DEF Shaped
  <2> HIDE DEF K
  <2>3. Whole(K) /\ Within(K)
    BY <1>w, <2>2 DEF Whole, Within, Shaped
  <2>4. Sound(K, content, life)
    BY <1>f, <1>m, <2>2, <2>3 DEF Inside, size, J
  <2> QED BY <1>1, <1>q, <2>1, <2>4 DEF KernelDescriptor, K
<1>2. CASE copyFileRange
  <2>1. PICK n \in 1..left : /\ Len(ReadFrom(inKernel, readAt, n)) = n
                             /\ putBytes(ReadFrom(inKernel, readAt, n))
                             /\ job' = Moved(J, n, "kernel")
    BY <1>2 DEF copyFileRange, J
  <2>2. n \in Nat /\ n <= left
    BY <1>o
  <2>3. FilesInv' /\ Len(content'[FileOf[J.src]]) \in Nat /\ Len(content'[FileOf[J.src]]) >= size
    BY <1>c, <2>1, <2>2
  <2>4. Sound(job', content', life)
    BY <1>p, <2>1, <2>2, <2>3
  <2> QED BY <1>l, <2>3, <2>4 DEF CopyInv
<1>3. CASE KernelDeclines
  <2> DEFINE K == [J EXCEPT !.at = "fallback"]
  <2>1. job' = K /\ UNCHANGED content
    BY <1>3 DEF KernelDeclines, J
  <2>2. /\ DOMAIN K = DOMAIN J /\ K.at = "fallback" /\ K.alone = J.alone /\ K.fault = J.fault
        /\ K.src = J.src /\ K.target = J.target /\ K.chunks = J.chunks /\ K.c = J.c
        /\ K.done = J.done
    BY <1>w DEF Shaped
  <2> HIDE DEF K
  <2>3. Whole(K) /\ Within(K)
    BY <1>w, <2>2 DEF Whole, Within, Shaped
  <2>4. Sound(K, content, life)
    BY <1>f, <1>m, <2>2, <2>3 DEF Inside, size, J
  <2> QED BY <1>q, <2>1, <2>4
<1>4. CASE KernelFails
  <2> DEFINE K == [J EXCEPT !.fault = TRUE]
  <2>1. job' = Failed(K) /\ UNCHANGED content
    BY <1>4 DEF KernelFails, J
  <2>2. Shaped(K) /\ K.fault = TRUE
    BY <1>w DEF Shaped
  <2> HIDE DEF K
  <2>3. Sound(Failed(K), content, life)
    BY <2>2, AnswerSound DEF Failed
  <2> QED BY <1>q, <2>1, <2>3
<1>5. CASE FallbackRead
  <2> DEFINE want == IF left < CopyBuf THEN left ELSE CopyBuf
             bytes == ReadFrom(FileOf[J.src], readAt, want)
             e == Len(bytes) < want
             K == [J EXCEPT !.at = "write", !.buf = bytes, !.eof = e]
  <2>1. want \in Nat /\ want <= left
    BY <1>o, CopyConstants
  <2>2. /\ Sequence(bytes) /\ Len(bytes) \in Nat /\ Len(bytes) <= want
        /\ readAt + want <= size => Len(bytes) = want
    <3> HIDE DEF want
    <3> QED BY <1>f, <1>o, <2>1, ReadLength DEF size, J
  <2>3. UNCHANGED content /\ job' = IF life[J.src] = "closed" \/ readAt < 0 THEN Failed(J) ELSE K
    BY <1>5 DEF FallbackRead, J
  <2> HIDE DEF want, bytes
  <2>4. J.alone => ~e
    BY <1>f, <1>o, <2>1, <2>2
  <2>5. /\ DOMAIN K = DOMAIN J /\ K.at = "write" /\ K.alone = J.alone /\ K.fault = J.fault
        /\ K.src = J.src /\ K.target = J.target /\ K.chunks = J.chunks /\ K.c = J.c
        /\ K.done = J.done /\ K.buf = bytes /\ K.eof = e
    <3> HIDE DEF e
    <3> QED BY <1>w DEF Shaped
  <2> HIDE DEF K, e
  <2>6. CASE life[J.src] = "closed"
    <3>1. job' = Failed(J)
      BY <2>3, <2>6
    <3>2. Sound(Failed(J), content, life)
      BY <1>w, <2>6, AnswerSound DEF Failed
    <3> QED BY <1>q, <2>3, <3>1, <3>2
  <2>7. CASE life[J.src] # "closed"
    <3>1. job' = K
      BY <1>o, <2>3, <2>7
    <3>2. Whole(K) /\ Within(K)
      BY <1>w, <2>5 DEF Whole, Within, Shaped
    <3>3. Len(bytes) <= J.chunks[J.c].length - J.done
      BY <1>o, <2>1, <2>2
    <3>4. Sound(K, content, life)
      BY <1>w, <2>2, <2>4, <2>5, <3>2, <3>3 DEF Sound, Copying, Inside, size, J
    <3> QED BY <1>q, <2>3, <3>1, <3>4
  <2> QED BY <2>6, <2>7
<1>b. ASSUME J.at = "write"
      PROVE  /\ Sequence(J.buf) /\ Len(J.buf) \in Nat /\ Len(J.buf) <= left
             /\ J.eof => ~J.alone
  BY <1>b, <1>o, <1>s DEF Sound, Sequence
<1>6. CASE FallbackWrite
  <2> DEFINE K == Moved(J, Len(J.buf), "fallback")
  <2>1. J.at = "write" /\ putBytes(J.buf) /\ job' = IF J.eof THEN Failed(K) ELSE K
    BY <1>6 DEF FallbackWrite, J
  <2>2. FilesInv' /\ Len(content'[FileOf[J.src]]) \in Nat /\ Len(content'[FileOf[J.src]]) >= size
    BY <1>b, <1>c, <2>1
  <2>3. Shaped(K) /\ K.alone = J.alone /\ K.fault = J.fault /\ Sound(K, content', life)
    BY <1>b, <1>p, <2>1, <2>2
  <2> HIDE DEF K
  <2>4. J.eof => Sound(Failed(K), content', life)
    BY <1>b, <2>1, <2>3, AnswerSound DEF Failed
  <2> QED BY <1>l, <2>1, <2>2, <2>3, <2>4 DEF CopyInv
<1>7. CASE FallbackWriteFails
  <2>1. PICK w \in 0..(Len(J.buf) - 1) :
           /\ putBytes(SubSeq(J.buf, 1, w))
           /\ job' = Failed([Moved(J, w, "fallback") EXCEPT !.fault = @ \/ writeAt >= 0])
    BY <1>7 DEF FallbackWriteFails, J
  <2>2. J.at = "write"
    BY <1>7 DEF FallbackWriteFails, J
  <2>3. w \in Nat /\ w <= Len(J.buf) /\ w <= left
    BY <1>b, <1>o, <2>2
  <2>4. Len(SubSeq(J.buf, 1, w)) \in Nat
    <3>1. 1 \in Nat /\ 1 >= 1
      OBVIOUS
    <3>2. Len(SubSeq(J.buf, 1, w)) = IF 1 <= w THEN w - 1 + 1 ELSE 0
      BY <1>b, <2>2, <2>3, <3>1, PartLength
    <3> QED BY <2>3, <3>2
  <2>5. FilesInv' /\ Len(content'[FileOf[J.src]]) \in Nat /\ Len(content'[FileOf[J.src]]) >= size
    BY <1>c, <2>1, <2>4
  <2> DEFINE M == Moved(J, w, "fallback")
             K == [M EXCEPT !.fault = @ \/ writeAt >= 0]
  <2>6. Shaped(M)
    BY <1>p, <2>3, <2>5
  <2>7. job' = Failed(K)
    BY <2>1
  <2>a. writeAt >= 0
    BY <1>o
  <2> HIDE DEF M
  <2>8. Shaped(K) /\ K.fault
    <3>1. K = [M EXCEPT !.fault = TRUE]
      BY <2>a
    <3> HIDE DEF K
    <3> QED BY <2>6, <3>1 DEF Shaped
  <2> HIDE DEF K
  <2>9. Sound(Failed(K), content', life)
    BY <2>8, AnswerSound DEF Failed
  <2> QED BY <1>l, <2>5, <2>7, <2>9 DEF CopyInv
<1> QED BY <1>1, <1>2, <1>3, <1>4, <1>5, <1>6, <1>7 DEF copyRange

LEMMA CopyStarts == Init => IInv /\ CopyInv
<1> SUFFICES ASSUME Init PROVE IInv /\ CopyInv
  OBVIOUS
<1>1. /\ life = [o \in Opens |-> IF o \in Early THEN "open" ELSE "none"]
      /\ DOMAIN byKey = {} /\ DOMAIN byOpen = {} /\ content = Contents /\ job = NoJob
  BY DEF Init
<1>2. IInv
  BY <1>1 DEF IInv, LifeInv, TableInv, KeysNameLiveHandles
<1>3. FilesInv
  BY <1>1, CopyConstants DEF FilesInv, Sequence
<1>4. job.at = "idle"
  BY <1>1 DEF NoJob
<1>5. Sound(job, content, life)
  BY <1>4 DEF Sound, Copying, Inside
<1> QED BY <1>2, <1>3, <1>5 DEF CopyInv

LEMMA CopyKept == IInv /\ CopyInv /\ [Next]_vars => CopyInv'
<1> SUFFICES ASSUME IInv, CopyInv, [Next]_vars PROVE CopyInv'
  OBVIOUS
<1>1. CASE UNCHANGED vars
  BY <1>1 DEF vars, CopyInv, FilesInv
<1>2. CASE Respond
  <2>1. job'.at = "idle" /\ UNCHANGED <<content, life>>
    BY <1>2 DEF Respond, NoJob, handleVars
  <2>2. Sound(job', content, life)
    BY <2>1 DEF Sound, Copying, Inside
  <2> QED BY <2>1, <2>2, QuietCopy
<1>3. ASSUME NEW t \in Opens, NEW key \in issued, NEW chunks \in Requests,
             NEW needed \in {{"write"}, {"read", "write"}},
             handleCopyChunk(t, key, chunks, needed)
      PROVE  CopyInv'
  BY <1>3, RequestKeepsCopy
<1> QED BY <1>1, <1>2, <1>3, OthersKeepCopy, MeasureKeepsCopy, LoopKeepsCopy DEF Next, CopyStep

\* A COPYCHUNK that fails half way does so because somebody wrote to the files
\* or closed the source meanwhile, or because the system refused: a chunk that
\* could not be copied is refused before the first byte moves, also where its
\* offsets are close to the word size (validateCopyChunks, copyRange).
THEOREM FailsOnlyForCause == Spec => []AllOrNothing
<1>1. IInv /\ CopyInv /\ [Next]_vars => IInv' /\ CopyInv'
  BY StepKeeps, CopyKept
<1>2. CopyInv => AllOrNothing
  BY DEF CopyInv, Sound, AllOrNothing
<1> QED BY CopyStarts, <1>1, <1>2, PTL DEF Spec

-----------------------------------------------------------------------------
(* Induction.                                                              *)

\* A nonempty set of naturals has a least element.
LEMMA LeastElement ==
    ASSUME NEW S, S \subseteq Nat, S # {}
    PROVE  \E n \in S : \A m \in S : n <= m
<1> DEFINE R == {ss \in Nat \X Nat : ss[1] < ss[2]}
<1>0. IsWellFoundedOn(R, Nat)
  BY NatLessThanWellFounded, Zenon DEF OpToRel
<1>1. \E n \in S : \A m \in S : ~(<<m, n>> \in R)
  <2> HIDE DEF R
  <2> QED  BY <1>0, WFMin, Zenon
<1>2. PICK n \in S : \A m \in S : ~(<<m, n>> \in R)
  BY <1>1
<1>3. \A m \in S : ~(m < n)
  BY <1>2
<1> QED  BY <1>2, <1>3

\* Induction: a set of naturals with zero in it that goes on from each of its
\* elements below n to the next has all of 0..n.
LEMMA Induction ==
    ASSUME NEW n \in Nat, NEW P, 0 \in P, \A i \in 0..n : i \in P /\ i < n => i + 1 \in P
    PROVE  \A i \in 0..n : i \in P
<1> SUFFICES ASSUME NEW k \in 0..n, k \notin P  PROVE FALSE
  OBVIOUS
<1> DEFINE B == {i \in 0..n : i \notin P}
<1>1. PICK m \in B : \A i \in B : m <= i
  <2>1. B \subseteq Nat /\ B # {}
    OBVIOUS
  <2> HIDE DEF B
  <2> QED  BY <2>1, LeastElement
<1>2. m \in 0..n /\ m # 0 /\ m - 1 \in 0..n /\ m - 1 < n /\ (m - 1) + 1 = m
  OBVIOUS
<1>3. m - 1 \in P
  BY <1>1, <1>2
<1> QED  BY <1>1, <1>2, <1>3

-----------------------------------------------------------------------------
(* What the answer says of the target.                                     *)

Live == {"open", "claimed", "removed", "unkeyed"}

\* A descriptor number names the file of the handle that holds it, and no two
\* handles hold the same.
DescriptorInv ==
    /\ fd \in [Opens -> Fds \cup {None}] /\ fdTable \in [Fds -> Files \cup {None}]
    /\ \A o \in Opens : life[o] \in Live => fd[o] \in Fds /\ fdTable[fd[o]] = FileOf[o]
    /\ \A o, p \in Opens : life[o] \in Live /\ life[p] \in Live /\ fd[o] = fd[p] => o = p

\* No chunk's source meets its own target.
Apart(chunks) ==
    \A i \in 1..Len(chunks) : LET ch == chunks[i] IN
        ch.source + ch.length <= ch.target \/ ch.target + ch.length <= ch.source

\* The source was closed before the files were compared: no byte will be read.
Barren(J, L) ==
    /\ L[J.src] = "closed" /\ J.c = 1 /\ J.done = 0 /\ J.at # "write"
    /\ J.at = "syscall" => J.num = None

\* The target is what staging the chunks gives, so far; no other file changed.
AsStaged(J, C) ==
    LET t == FileOf[J.target]
        s == FileOf[J.src]
    IN  /\ \A f \in Files \ {t} : C[f] = J.start[f]
        /\ C[t] = placed(J.start, t, s, staged(J.start, t, s, J.chunks)[J.c - 1],
                         J.chunks[J.c], J.done)
        /\ J.total = bytesOf(J.chunks)[J.c - 1] + J.done

\* The handles of a copy, and the files when it began.
Held(J, L) ==
    /\ L[J.src] # "none" /\ L[J.target] \in {"open", "claimed"}
    /\ DOMAIN J.start = Files /\ \A f \in Files : Sequence(J.start[f])

\* The answer's counts.
Described(J, C) ==
    LET t == FileOf[J.target] IN
    /\ C[t] = IF J.status = "refused" THEN J.start[t]
              ELSE Reference(J.start, t, FileOf[J.src], J.chunks, J.whole, J.part)
    /\ J.status = "success" => J.whole = Len(J.chunks) /\ J.total = TotalLength(J.chunks)

\* How far a copy that nobody interferes with has come.
Along(J, C, L, T) ==
    /\ J.at \in {"stat", "compare"} => C = J.start /\ J.total = 0
    /\ J.at \in Copying => Enough(J.chunks, Len(J.start[FileOf[J.src]]))
    /\ J.at \in Inside =>
          /\ AsStaged(J, C)
          /\ FileOf[J.src] = FileOf[J.target] => Apart(J.chunks) \/ Barren(J, L)
    /\ J.at = "syscall" /\ J.num # None => J.num \in Fds /\ T[J.num] \in {None, FileOf[J.src]}
    /\ J.at = "write" =>
          LET from == J.chunks[J.c].source + J.done IN
          J.buf = SubSeq(C[FileOf[J.src]], from + 1, from + Len(J.buf))
    /\ J.at = "answer" => Described(J, C)

Faithful(J, C, L, T) ==
    /\ J.at \in {"stat"} \cup Copying => Held(J, L)
    /\ J.at # "idle" => (J.alone => Along(J, C, L, T))

TargetInv == DescriptorInv /\ Faithful(job, content, life, fdTable)

-----------------------------------------------------------------------------
(* Sums of chunks, and files staged chunk by chunk.                        *)

\* A run of the loop that staged stands for.
StagedRun(files, t, s, chunks, n, g) ==
    /\ DOMAIN g = 0..n
    /\ g = [i \in 0..n |-> IF i = 0 THEN files[t]
                           ELSE placed(files, t, s, g[i - 1], chunks[i], chunks[i].length)]

LEMMA StagedRuns ==
    ASSUME NEW files, NEW t, NEW s, NEW chunks, NEW n \in Nat
    PROVE  \E g : StagedRun(files, t, s, chunks, n, g)
<1> DEFINE next(f, i) == placed(files, t, s, f, chunks[i], chunks[i].length)
           run(m, g) == /\ DOMAIN g = 0..m
                        /\ g = [i \in 0..m |-> IF i = 0 THEN files[t] ELSE next(g[i - 1], i)]
           P == {m \in Nat : \E g : run(m, g)}
<1> HIDE DEF next
<1>1. 0 \in P
  <2>1. run(0, [i \in 0..0 |-> files[t]])
    OBVIOUS
  <2> QED  BY <2>1
<1>2. ASSUME NEW m \in 0..n, m \in P  PROVE m + 1 \in P
  <2>1. PICK g : run(m, g)
    BY <1>2
  <2> DEFINE h == [i \in 0..(m + 1) |-> IF i = m + 1 THEN next(g[m], m + 1) ELSE g[i]]
  <2>2. DOMAIN h = 0..(m + 1) /\ h = [i \in 0..(m + 1) |-> h[i]]
    OBVIOUS
  <2>3. \A i \in 0..m : h[i] = g[i]
    OBVIOUS
  <2>4. h[m + 1] = next(g[m], m + 1)
    OBVIOUS
  <2> HIDE DEF h
  <2>5. ASSUME NEW i \in 0..(m + 1)
        PROVE  h[i] = IF i = 0 THEN files[t] ELSE next(h[i - 1], i)
    <3>1. CASE i = m + 1
      <4>1. i # 0 /\ i - 1 = m /\ h[m] = g[m]
        BY <3>1, <2>3
      <4> QED  BY <3>1, <4>1, <2>4
    <3>2. CASE i \in 0..m
      <4>1. g[i] = IF i = 0 THEN files[t] ELSE next(g[i - 1], i)
        BY <3>2, <2>1
      <4>2. CASE i = 0
        BY <4>1, <4>2, <3>2, <2>3
      <4>3. CASE i # 0
        <5>1. i - 1 \in 0..m
          BY <3>2, <4>3
        <5> QED  BY <4>1, <4>3, <5>1, <3>2, <2>3
      <4> QED  BY <4>2, <4>3
    <3> QED  BY <3>1, <3>2
  <2>6. run(m + 1, h)
    BY <2>2, <2>5
  <2> QED  BY <2>6
<1> HIDE DEF P
<1>3. \A i \in 0..n : i \in P
  BY <1>1, <1>2, Induction, Zenon
<1>4. n \in P
  BY <1>3
<1> QED  BY <1>4 DEF P, next, StagedRun

LEMMA StagedIs ==
    ASSUME NEW files, NEW t, NEW s, NEW chunks, Len(chunks) \in Nat
    PROVE  \A i \in 0..Len(chunks) :
              staged(files, t, s, chunks)[i] =
                 IF i = 0 THEN files[t]
                 ELSE placed(files, t, s, staged(files, t, s, chunks)[i - 1], chunks[i],
                             chunks[i].length)
<1> DEFINE n == Len(chunks)
           good(g) == g = [i \in 0..n |-> IF i = 0 THEN files[t]
                               ELSE placed(files, t, s, g[i - 1], chunks[i], chunks[i].length)]
           f == CHOOSE g : good(g)
<1>0. \E g : StagedRun(files, t, s, chunks, n, g)
  BY StagedRuns, Zenon
<1>1. \E g : good(g)
  BY <1>0, Zenon DEF StagedRun
<1>2. staged(files, t, s, chunks) = f
  BY DEF staged
<1> HIDE DEF f, good
<1>3. good(f)
  BY <1>1 DEF f
<1>4. f = [i \in 0..n |-> IF i = 0 THEN files[t]
                          ELSE placed(files, t, s, f[i - 1], chunks[i], chunks[i].length)]
  BY <1>3 DEF good
<1> QED  BY <1>2, <1>4

\* The same for bytesOf.
SumRun(chunks, n, g) ==
    /\ DOMAIN g = 0..n
    /\ g = [i \in 0..n |-> IF i = 0 THEN 0 ELSE g[i - 1] + chunks[i].length]

LEMMA SumRuns ==
    ASSUME NEW chunks, NEW n \in Nat
    PROVE  \E g : SumRun(chunks, n, g)
<1> DEFINE next(f, i) == f + chunks[i].length
           run(m, g) == /\ DOMAIN g = 0..m
                        /\ g = [i \in 0..m |-> IF i = 0 THEN 0 ELSE next(g[i - 1], i)]
           P == {m \in Nat : \E g : run(m, g)}
<1> HIDE DEF next
<1>1. 0 \in P
  <2>1. run(0, [i \in 0..0 |-> 0])
    OBVIOUS
  <2> QED  BY <2>1
<1>2. ASSUME NEW m \in 0..n, m \in P  PROVE m + 1 \in P
  <2>1. PICK g : run(m, g)
    BY <1>2
  <2> DEFINE h == [i \in 0..(m + 1) |-> IF i = m + 1 THEN next(g[m], m + 1) ELSE g[i]]
  <2>2. DOMAIN h = 0..(m + 1) /\ h = [i \in 0..(m + 1) |-> h[i]]
    OBVIOUS
  <2>3. \A i \in 0..m : h[i] = g[i]
    OBVIOUS
  <2>4. h[m + 1] = next(g[m], m + 1)
    OBVIOUS
  <2> HIDE DEF h
  <2>5. ASSUME NEW i \in 0..(m + 1)
        PROVE  h[i] = IF i = 0 THEN 0 ELSE next(h[i - 1], i)
    <3>1. CASE i = m + 1
      <4>1. i # 0 /\ i - 1 = m /\ h[m] = g[m]
        BY <3>1, <2>3
      <4> QED  BY <3>1, <4>1, <2>4
    <3>2. CASE i \in 0..m
      <4>1. g[i] = IF i = 0 THEN 0 ELSE next(g[i - 1], i)
        BY <3>2, <2>1
      <4>2. CASE i = 0
        BY <4>1, <4>2, <3>2, <2>3
      <4>3. CASE i # 0
        <5>1. i - 1 \in 0..m
          BY <3>2, <4>3
        <5> QED  BY <4>1, <4>3, <5>1, <3>2, <2>3
      <4> QED  BY <4>2, <4>3
    <3> QED  BY <3>1, <3>2
  <2>6. run(m + 1, h)
    BY <2>2, <2>5
  <2> QED  BY <2>6
<1> HIDE DEF P
<1>3. \A i \in 0..n : i \in P
  BY <1>1, <1>2, Induction, Zenon
<1>4. n \in P
  BY <1>3
<1> QED  BY <1>4 DEF P, next, SumRun

LEMMA SumIs ==
    ASSUME NEW chunks, Len(chunks) \in Nat
    PROVE  \A i \in 0..Len(chunks) :
              bytesOf(chunks)[i] =
                 IF i = 0 THEN 0 ELSE bytesOf(chunks)[i - 1] + chunks[i].length
<1> DEFINE n == Len(chunks)
           good(g) == g = [i \in 0..n |-> IF i = 0 THEN 0
                               ELSE g[i - 1] + chunks[i].length]
           f == CHOOSE g : good(g)
<1>0. \E g : SumRun(chunks, n, g)
  BY SumRuns, Zenon
<1>1. \E g : good(g)
  BY <1>0, Zenon DEF SumRun
<1>2. bytesOf(chunks) = f
  BY DEF bytesOf
<1> HIDE DEF f, good
<1>3. good(f)
  BY <1>1 DEF f
<1>4. f = [i \in 0..n |-> IF i = 0 THEN 0
                          ELSE f[i - 1] + chunks[i].length]
  BY <1>3 DEF good
<1> QED  BY <1>2, <1>4

LEMMA SumNat ==
    ASSUME NEW chunks, Len(chunks) \in Nat, Checked(chunks)
    PROVE  \A i \in 0..Len(chunks) : bytesOf(chunks)[i] \in Nat
<1> DEFINE g == bytesOf(chunks)
           P == {i \in Nat : g[i] \in Nat}
<1>1. \A i \in 0..Len(chunks) : g[i] = IF i = 0 THEN 0 ELSE g[i - 1] + chunks[i].length
  BY SumIs
<1> HIDE DEF g
<1>2. 0 \in P
  BY <1>1
<1>3. ASSUME NEW k \in 0..Len(chunks), k \in P, k < Len(chunks)  PROVE k + 1 \in P
  <2>1. k + 1 \in 1..Len(chunks) /\ k + 1 \in 0..Len(chunks) /\ k + 1 # 0 /\ (k + 1) - 1 = k
    BY <1>3
  <2>2. chunks[k + 1].length \in Nat
    BY <2>1 DEF Checked
  <2>3. g[k + 1] = g[k] + chunks[k + 1].length
    BY <1>1, <2>1
  <2> QED  BY <2>1, <2>2, <2>3, <1>3
<1> HIDE DEF P
<1>4. \A i \in 0..Len(chunks) : i \in P
  BY <1>2, <1>3, Induction, Zenon
<1> QED  BY <1>4 DEF P, g

-----------------------------------------------------------------------------
(* Chunks, byte by byte.                                                   *)

LEMMA PartIs ==
    ASSUME NEW s, Sequence(s), NEW m \in Nat, NEW n \in Nat, m + n <= Len(s)
    PROVE  LET b == SubSeq(s, m + 1, m + n) IN
           /\ Sequence(b) /\ Len(b) = n /\ (b = <<>> <=> n = 0)
           /\ \A i \in 1..n : b[i] = s[m + i]
<1> DEFINE b == SubSeq(s, m + 1, m + n)
<1>0. Len(s) \in Nat /\ s \in Seq(Range(s))
  BY DEF Sequence
<1>1. Sequence(b) /\ Len(b) = n
  <2>1. m + 1 \in Nat /\ m + 1 >= 1 /\ m + n \in Nat
    OBVIOUS
  <2>2. Sequence(b) /\ Len(b) = IF m + 1 <= m + n THEN m + n - (m + 1) + 1 ELSE 0
    BY <2>1, PartLength
  <2> QED  BY <2>2
<1>2. \A i \in 1..n : b[i] = s[m + i]
  <2>1. \A i \in (m + 1)..(m + n) : s[i] \in Range(s)
    BY <1>0 DEF Range
  <2>2. m + 1 \in Int /\ m + n \in Int
    OBVIOUS
  <2>3. \A i \in 1..((m + n) - (m + 1) + 1) : b[i] = s[(m + 1) + i - 1]
    BY <2>1, <2>2, SubSeqProperties
  <2> HIDE DEF b
  <2>4. ASSUME NEW i \in 1..n  PROVE b[i] = s[m + i]
    <3>1. i \in 1..((m + n) - (m + 1) + 1) /\ (m + 1) + i - 1 = m + i
      OBVIOUS
    <3> QED  BY <2>3, <3>1
  <2> QED  BY <2>4
<1>3. b = <<>> <=> n = 0
  <2> HIDE DEF b
  <2>1. b \in Seq(Range(b))
    BY <1>1 DEF Sequence
  <2> QED  BY <1>1, <2>1, EmptySeq
<1> QED  BY <1>1, <1>2, <1>3

LEMMA OverlayIs ==
    ASSUME NEW f, Sequence(f), NEW T \in Nat, NEW b, NEW n \in Nat, Len(b) = n,
           b = <<>> <=> n = 0
    PROVE  LET size == IF n = 0 \/ T + n < Len(f) THEN Len(f) ELSE T + n
               o == Overlay(f, T, b)
           IN  /\ size \in Nat /\ Sequence(o) /\ Len(o) = size /\ DOMAIN o = 1..size
               /\ \A i \in 1..size : o[i] = IF i > T /\ i <= T + n THEN b[i - T]
                                            ELSE IF i <= Len(f) THEN f[i] ELSE "zero"
<1> DEFINE size == IF n = 0 \/ T + n < Len(f) THEN Len(f) ELSE T + n
           o == Overlay(f, T, b)
<1>0. Len(f) \in Nat
  BY DEF Sequence
<1>1. size \in Nat
  BY <1>0
<1>2. o = [i \in 1..size |-> IF i > T /\ i <= T + n THEN b[i - T]
                             ELSE IF i <= Len(f) THEN f[i] ELSE "zero"]
  BY DEF Overlay
<1>3. Sequence(o)
  BY OverlayGrows
<1> HIDE DEF o, size
<1>4. DOMAIN o = 1..size /\ \A i \in 1..size : o[i] = IF i > T /\ i <= T + n THEN b[i - T]
                             ELSE IF i <= Len(f) THEN f[i] ELSE "zero"
  BY <1>2
<1>5. Len(o) = size
  BY <1>1, <1>3, <1>4 DEF Sequence
<1>6. /\ size \in Nat /\ Sequence(o) /\ Len(o) = size /\ DOMAIN o = 1..size
      /\ \A i \in 1..size : o[i] = IF i > T /\ i <= T + n THEN b[i - T]
                                   ELSE IF i <= Len(f) THEN f[i] ELSE "zero"
  BY <1>1, <1>3, <1>4, <1>5
<1> QED  BY <1>6 DEF o, size

\* Two sequences with the same elements.
LEMMA SameSequence ==
    ASSUME NEW a, NEW b, Sequence(a), Sequence(b), Len(a) = Len(b),
           \A i \in 1..Len(a) : a[i] = b[i]
    PROVE  a = b
<1>1. a = [i \in 1..Len(a) |-> a[i]] /\ b = [i \in 1..Len(b) |-> b[i]]
  BY DEF Sequence
<1> QED  BY <1>1

\* The next n bytes after d of a chunk, read when they may be, complete d + n.
Extends(f, from, cur, S, T, d, n) ==
    Overlay(Overlay(f, T, SubSeq(from, S + 1, S + d)), T + d,
            SubSeq(cur, S + d + 1, S + d + n))
      = Overlay(f, T, SubSeq(from, S + 1, S + (d + n)))

LEMMA Extend ==
    ASSUME NEW f, Sequence(f), NEW from, Sequence(from), NEW cur, Sequence(cur),
           NEW S \in Nat, NEW T \in Nat, NEW d \in Nat, NEW n \in Nat,
           S + d + n <= Len(from), S + d + n <= Len(cur),
           \A i \in (S + d + 1)..(S + d + n) : cur[i] = from[i]
    PROVE  Extends(f, from, cur, S, T, d, n)
<1>0. Len(f) \in Nat /\ Len(from) \in Nat /\ Len(cur) \in Nat
  BY DEF Sequence
<1>1. PICK b1 : b1 = SubSeq(from, S + 1, S + d)
  OBVIOUS
<1>2. PICK b2 : b2 = SubSeq(cur, S + d + 1, S + d + n)
  OBVIOUS
<1>3. PICK b3 : b3 = SubSeq(from, S + 1, S + (d + n))
  OBVIOUS
<1>4. Len(b1) = d /\ (b1 = <<>> <=> d = 0) /\ \A i \in 1..d : b1[i] = from[S + i]
  <2>1. S + d <= Len(from)
    BY <1>0
  <2> QED  BY <1>1, <2>1, PartIs
<1>5. Len(b2) = n /\ (b2 = <<>> <=> n = 0) /\ \A i \in 1..n : b2[i] = cur[S + d + i]
  <2>1. S + d \in Nat
    OBVIOUS
  <2> QED  BY <1>2, <2>1, PartIs
<1>6. /\ Len(b3) = d + n /\ (b3 = <<>> <=> d + n = 0)
      /\ \A i \in 1..(d + n) : b3[i] = from[S + i]
  <2>1. d + n \in Nat /\ S + (d + n) <= Len(from)
    OBVIOUS
  <2> QED  BY <1>3, <2>1, PartIs
<1>7. PICK o1 : o1 = Overlay(f, T, b1)
  OBVIOUS
<1>8. PICK o2 : o2 = Overlay(o1, T + d, b2)
  OBVIOUS
<1>9. PICK o3 : o3 = Overlay(f, T, b3)
  OBVIOUS
<1>a. PICK s1 \in Nat : s1 = IF d = 0 \/ T + d < Len(f) THEN Len(f) ELSE T + d
  BY <1>0
<1>b. /\ Sequence(o1) /\ Len(o1) = s1
      /\ \A i \in 1..s1 : o1[i] = IF i > T /\ i <= T + d THEN b1[i - T]
                                  ELSE IF i <= Len(f) THEN f[i] ELSE "zero"
  BY SMTT(30), <1>4, <1>7, <1>a, OverlayIs
<1>c. PICK s2 \in Nat : s2 = IF n = 0 \/ T + d + n < s1 THEN s1 ELSE T + d + n
  OBVIOUS
<1>d. /\ Sequence(o2) /\ Len(o2) = s2
      /\ \A i \in 1..s2 : o2[i] = IF i > T + d /\ i <= T + d + n THEN b2[i - (T + d)]
                                  ELSE IF i <= s1 THEN o1[i] ELSE "zero"
  <2>1. PICK U \in Nat : U = T + d
    OBVIOUS
  <2>2. s2 = IF n = 0 \/ U + n < Len(o1) THEN Len(o1) ELSE U + n
    BY <2>1, <1>b, <1>c
  <2>3. /\ Sequence(o2) /\ Len(o2) = s2
        /\ \A i \in 1..s2 : o2[i] = IF i > U /\ i <= U + n THEN b2[i - U]
                                    ELSE IF i <= Len(o1) THEN o1[i] ELSE "zero"
    <3>1. Sequence(o1) /\ Len(b2) = n /\ (b2 = <<>> <=> n = 0)
      BY <1>5, <1>b
    <3>2. o2 = Overlay(o1, U, b2)
      BY <2>1, <1>8
    <3> QED  BY ONLY <3>1, <3>2, <2>2, U \in Nat, n \in Nat, OverlayIs
  <2> QED  BY <2>1, <2>3, <1>b
<1>e. /\ Sequence(o3) /\ Len(o3) = s2
      /\ \A i \in 1..s2 : o3[i] = IF i > T /\ i <= T + (d + n) THEN b3[i - T]
                                  ELSE IF i <= Len(f) THEN f[i] ELSE "zero"
  <2>1. d + n \in Nat
    OBVIOUS
  <2>2. s2 = IF d + n = 0 \/ T + (d + n) < Len(f) THEN Len(f) ELSE T + (d + n)
    BY <1>0, <1>a, <1>c
  <2>3. Sequence(f) /\ Len(b3) = d + n /\ (b3 = <<>> <=> d + n = 0) /\ o3 = Overlay(f, T, b3)
    BY <1>6, <1>9
  <2> QED  BY ONLY <2>1, <2>2, <2>3, T \in Nat, OverlayIs
<1>f. ASSUME NEW i \in 1..s2  PROVE o2[i] = o3[i]
  <2>1. CASE i > T + d /\ i <= T + d + n
    <3>1. /\ i - (T + d) \in 1..n /\ S + d + (i - (T + d)) = S + (i - T)
          /\ S + (i - T) \in (S + d + 1)..(S + d + n) /\ i - T \in 1..(d + n)
          /\ i > T /\ i <= T + (d + n)
      BY <2>1
    <3>2. o2[i] = cur[S + (i - T)]
      BY <2>1, <3>1, <1>5, <1>d
    <3>3. o3[i] = from[S + (i - T)]
      BY <3>1, <1>6, <1>e
    <3> QED  BY <3>1, <3>2, <3>3
  <2>2. CASE i > T /\ i <= T + d
    <3>1. i - T \in 1..d /\ i - T \in 1..(d + n) /\ i <= T + (d + n)
      BY <2>2
    <3>2. i \in 1..s1
      BY <2>2, <1>0, <1>a
    <3>3. o2[i] = from[S + (i - T)]
      BY <2>2, <3>1, <3>2, <1>4, <1>b, <1>d
    <3>4. o3[i] = from[S + (i - T)]
      BY <2>2, <3>1, <1>6, <1>e
    <3> QED  BY <3>3, <3>4
  <2>3. CASE ~(i > T /\ i <= T + d + n)
    <3>0. ~(i > T /\ i <= T + (d + n)) /\ ~(i > T + d /\ i <= T + d + n) /\ ~(i > T /\ i <= T + d)
      BY <2>3
    <3>1. o3[i] = IF i <= Len(f) THEN f[i] ELSE "zero"
      BY <3>0, <1>e
    <3>2. o2[i] = IF i <= s1 THEN o1[i] ELSE "zero"
      BY <3>0, <1>d
    <3>3. CASE i <= s1
      BY <3>0, <3>1, <3>2, <3>3, <1>b
    <3>4. CASE i > s1
      <4>1. i > Len(f)
        BY <3>4, <1>0, <1>a
      <4> QED  BY <3>1, <3>2, <3>4, <4>1, <1>0
    <3> QED  BY <3>3, <3>4
  <2> QED  BY <2>1, <2>2, <2>3
<1>g. o2 = o3
  BY <1>d, <1>e, <1>f, SameSequence
<1> QED  BY <1>1, <1>2, <1>3, <1>7, <1>8, <1>9, <1>g DEF Extends

\* No bytes, no change.
LEMMA PlacedNothing ==
    ASSUME NEW files, NEW t, NEW s, NEW f, Sequence(f), NEW ch, ch.source \in Nat, ch.target \in Nat
    PROVE  placed(files, t, s, f, ch, 0) = f
<1>1. PICK S \in Nat, T \in Nat : S = ch.source /\ T = ch.target
  OBVIOUS
<1>2. PICK from : from = IF s = t THEN f ELSE files[s]
  OBVIOUS
<1>3. SubSeq(from, S + 1, S + 0) = <<>>
  BY SubSeqEmpty
<1>4. placed(files, t, s, f, ch, 0) = Overlay(f, T, SubSeq(from, S + 1, S + 0))
  BY <1>1, <1>2 DEF placed
<1>5. PICK o : o = Overlay(f, T, <<>>)
  OBVIOUS
<1>6. Len(f) \in Nat
  BY DEF Sequence
<1>7. /\ Sequence(o) /\ Len(o) = Len(f)
      /\ \A i \in 1..Len(f) : o[i] = IF i > T /\ i <= T + 0 THEN <<>>[i - T]
                                     ELSE IF i <= Len(f) THEN f[i] ELSE "zero"
  <2>1. 0 \in Nat /\ Len(<<>>) = 0
    OBVIOUS
  <2> QED  BY <1>5, <1>6, <2>1, OverlayIs
<1>8. \A i \in 1..Len(o) : o[i] = f[i]
  BY <1>6, <1>7
<1>9. o = f
  BY <1>7, <1>8, SameSequence
<1> QED  BY <1>3, <1>4, <1>5, <1>9

\* Staging makes the target no shorter.
LEMMA StagedGrows ==
    ASSUME NEW files, NEW t, NEW s, Sequence(files[t]), Sequence(files[s]), NEW chunks,
           Len(chunks) \in Nat, Checked(chunks), Enough(chunks, Len(files[s]))
    PROVE  \A i \in 0..Len(chunks) :
              /\ Sequence(staged(files, t, s, chunks)[i])
              /\ Len(staged(files, t, s, chunks)[i]) >= Len(files[t])
<1> DEFINE g == staged(files, t, s, chunks)
           P == {i \in Nat : Sequence(g[i]) /\ Len(g[i]) >= Len(files[t])}
<1>0. Len(files[t]) \in Nat /\ Len(files[s]) \in Nat
  BY DEF Sequence
<1>1. \A i \in 0..Len(chunks) :
         g[i] = IF i = 0 THEN files[t]
                ELSE placed(files, t, s, g[i - 1], chunks[i], chunks[i].length)
  BY StagedIs
<1> HIDE DEF g
<1>2. 0 \in P
  <2>1. g[0] = files[t]
    BY <1>1
  <2> QED  BY <2>1, <1>0
<1>3. ASSUME NEW k \in 0..Len(chunks), k \in P, k < Len(chunks)  PROVE k + 1 \in P
  <2>1. k + 1 \in 1..Len(chunks) /\ k + 1 \in 0..Len(chunks) /\ k + 1 # 0 /\ (k + 1) - 1 = k
    BY <1>3
  <2>2. g[k + 1] = placed(files, t, s, g[k], chunks[k + 1], chunks[k + 1].length)
    BY <1>1, <2>1
  <2>3. PICK S \in Nat, T \in Nat, L \in Nat :
           /\ S = chunks[k + 1].source /\ T = chunks[k + 1].target /\ L = chunks[k + 1].length
           /\ S + L <= Len(files[s])
    BY <2>1 DEF Checked, Enough
  <2>4. PICK from : from = IF s = t THEN g[k] ELSE files[s]
    OBVIOUS
  <2>5. Sequence(g[k]) /\ Len(g[k]) >= Len(files[t]) /\ Len(g[k]) \in Nat
    BY <1>3 DEF Sequence
  <2>6. Sequence(from) /\ S + L <= Len(from)
    <3>1. CASE s = t
      <4>1. from = g[k] /\ files[s] = files[t]
        BY <3>1, <2>4
      <4>2. PICK m \in Nat, w \in Nat : m = Len(files[t]) /\ w = Len(g[k])
        BY <1>0, <2>5
      <4>3. S + L <= m /\ m <= w /\ Len(from) = w
        BY <4>1, <4>2, <2>3, <2>5
      <4> QED  BY <4>1, <4>3, <2>5
    <3>2. CASE s # t
      <4>1. from = files[s]
        BY <3>2, <2>4
      <4> QED  BY <4>1, <2>3
    <3> QED  BY <3>1, <3>2
  <2>7. g[k + 1] = Overlay(g[k], T, SubSeq(from, S + 1, S + L))
    BY <2>2, <2>3, <2>4 DEF placed
  <2>8. Len(SubSeq(from, S + 1, S + L)) = L
    BY <2>6, PartIs
  <2>9. PICK b : b = SubSeq(from, S + 1, S + L)
    OBVIOUS
  <2>10. Sequence(g[k + 1]) /\ Len(g[k + 1]) >= Len(g[k])
    BY <2>5, <2>7, <2>8, <2>9, OverlayGrows
  <2>11. Len(g[k + 1]) \in Nat
    BY <2>10 DEF Sequence
  <2> QED  BY <2>1, <2>5, <2>10, <2>11, <1>0
<1> HIDE DEF P
<1>4. \A i \in 0..Len(chunks) : i \in P
  BY <1>2, <1>3, Induction, Zenon
<1> QED  BY <1>4 DEF P, g

\* n bytes of the source as it is now, after d bytes of chunk c: what staging d + n
\* bytes gives, whether the source is another file or a part of the target that
\* the chunk does not meet.
StagedOn(files, t, s, chunks, c, d, n, C) ==
    Overlay(C[t], chunks[c].target + d,
            SubSeq(C[s], chunks[c].source + d + 1, chunks[c].source + d + n))
      = placed(files, t, s, staged(files, t, s, chunks)[c - 1], chunks[c], d + n)

LEMMA CopyIsStaged ==
    ASSUME NEW files, NEW t, NEW s, Sequence(files[t]), Sequence(files[s]), NEW chunks,
           Len(chunks) \in Nat, Checked(chunks), Enough(chunks, Len(files[s])),
           s = t => Apart(chunks),
           NEW c \in 1..Len(chunks), NEW d \in Nat, NEW n \in Nat, d + n <= chunks[c].length,
           NEW C, s # t => C[s] = files[s],
           C[t] = placed(files, t, s, staged(files, t, s, chunks)[c - 1], chunks[c], d)
    PROVE  StagedOn(files, t, s, chunks, c, d, n, C)
<1>0. Len(files[t]) \in Nat /\ Len(files[s]) \in Nat
  BY DEF Sequence
<1>1. PICK S \in Nat, T \in Nat, L \in Nat :
         /\ S = chunks[c].source /\ T = chunks[c].target /\ L = chunks[c].length
         /\ S + L <= Len(files[s]) /\ (s = t => S + L <= T \/ T + L <= S)
  BY DEF Checked, Enough, Apart
<1>2. PICK f : f = staged(files, t, s, chunks)[c - 1]
  OBVIOUS
<1>3. Sequence(f) /\ Len(f) >= Len(files[t])
  <2>1. c - 1 \in 0..Len(chunks)
    OBVIOUS
  <2> QED  BY <1>2, <2>1, StagedGrows
<1>4. Len(f) \in Nat
  BY <1>3 DEF Sequence
<1>5. PICK from : from = IF s = t THEN f ELSE files[s]
  OBVIOUS
<1>6. Sequence(from) /\ S + L <= Len(from)
  <2>1. CASE s = t
    <3>1. from = f /\ files[s] = files[t]
      BY <2>1, <1>5
    <3>2. S + L <= Len(files[t])
      BY ONLY <3>1, <1>1
    <3>3. S + L <= Len(f)
      BY ONLY <3>2, <1>0, <1>3, <1>4, S \in Nat, L \in Nat
    <3> QED  BY ONLY <3>1, <3>3, <1>3
  <2>2. CASE s # t
    <3>1. from = files[s]
      BY <2>2, <1>5
    <3> QED  BY <3>1, <1>1
  <2> QED  BY <2>1, <2>2
<1>7. Len(from) \in Nat
  BY <1>6 DEF Sequence
<1>8. S + d + n <= Len(from) /\ S + d <= Len(from) /\ d <= L /\ d + n <= L
  <2>1. d + n <= L
    BY <1>1
  <2>2. S + L <= Len(from)
    BY <1>6
  <2> QED  BY ONLY <2>1, <2>2, <1>7, S \in Nat, d \in Nat, n \in Nat, L \in Nat
<1>9. PICK b : b = SubSeq(from, S + 1, S + d)
  OBVIOUS
<1>10. Len(b) = d /\ (b = <<>> <=> d = 0)
  <2>1. Sequence(from) /\ S + d <= Len(from)
    BY ONLY <1>6, <1>8
  <2> QED  BY ONLY <2>1, <1>9, S \in Nat, d \in Nat, PartIs
<1>11. C[t] = Overlay(f, T, b)
  <2>1. C[t] = placed(files, t, s, f, chunks[c], d)
    BY ONLY <1>2, C[t] = placed(files, t, s, staged(files, t, s, chunks)[c - 1], chunks[c], d)
  <2> QED  BY ONLY <2>1, <1>1, <1>5, <1>9 DEF placed
<1>12. /\ Sequence(C[s]) /\ S + d + n <= Len(C[s])
       /\ \A i \in (S + d + 1)..(S + d + n) : C[s][i] = from[i]
  <2>1. CASE s # t
    <3>1. C[s] = from
      BY <2>1, <1>5
    <3> QED  BY ONLY <3>1, <1>6, <1>8
  <2>2. CASE s = t
    <3>1. PICK o : o = Overlay(f, T, b)
      OBVIOUS
    <3>2. PICK size \in Nat : size = IF d = 0 \/ T + d < Len(f) THEN Len(f) ELSE T + d
      BY <1>4
    <3>3. /\ Sequence(o) /\ Len(o) = size
          /\ \A i \in 1..size : o[i] = IF i > T /\ i <= T + d THEN b[i - T]
                                       ELSE IF i <= Len(f) THEN f[i] ELSE "zero"
      BY ONLY <1>3, <1>10, <3>1, <3>2, T \in Nat, d \in Nat, OverlayIs
    <3>4. size >= Len(f) /\ from = f
      BY <3>2, <1>4, <1>5, <2>2
    <3>5. S + d + n <= size
      BY <3>4, <1>4, <1>8
    <3>6. ASSUME NEW i \in (S + d + 1)..(S + d + n)  PROVE o[i] = from[i]
      <4>1. i \in 1..size /\ i <= Len(f)
        BY <3>4, <1>4, <1>8
      <4>2. ~(i > T /\ i <= T + d)
        <5>1. S + L <= T \/ T + L <= S
          BY <1>1, <2>2
        <5>2. i >= S + d + 1 /\ i <= S + d + n /\ d + n <= L
          BY <1>8
        <5> QED  BY <5>1, <5>2
      <4> QED  BY <3>3, <3>4, <4>1, <4>2
    <3>7. C[s] = o
      BY <2>2, <3>1, <1>11
    <3> QED  BY <3>3, <3>5, <3>6, <3>7
  <2> QED  BY <2>1, <2>2
<1>13. Overlay(Overlay(f, T, SubSeq(from, S + 1, S + d)), T + d,
               SubSeq(C[s], S + d + 1, S + d + n))
         = Overlay(f, T, SubSeq(from, S + 1, S + (d + n)))
  <2>1. PICK cur : cur = C[s]
    OBVIOUS
  <2>2. /\ Sequence(cur) /\ S + d + n <= Len(cur)
        /\ \A i \in (S + d + 1)..(S + d + n) : cur[i] = from[i]
    BY <2>1, <1>12
  <2>3. Extends(f, from, cur, S, T, d, n)
    BY <1>3, <1>6, <1>8, <2>2, Extend, Zenon
  <2> QED  BY <2>1, <2>3 DEF Extends
<1>14. placed(files, t, s, f, chunks[c], d + n) = Overlay(f, T, SubSeq(from, S + 1, S + (d + n)))
  BY ONLY <1>1, <1>5 DEF placed
<1> QED  BY <1>1, <1>2, <1>9, <1>11, <1>13, <1>14 DEF StagedOn

-----------------------------------------------------------------------------
(* The copy's progress.                                                    *)

LEMMA MovedTo ==
    ASSUME NEW J, Shaped(J), Len(J.chunks) \in Nat, J.c \in 1..Len(J.chunks), J.done \in Nat,
           J.chunks[J.c].length \in Nat, NEW n \in Nat,
           J.done + n <= J.chunks[J.c].length, NEW at
    PROVE  LET K == Moved(J, n, at) IN
           /\ K.start = J.start /\ K.target = J.target /\ K.src = J.src /\ K.chunks = J.chunks
           /\ K.alone = J.alone /\ Shaped(K) /\ K.total = J.total + n
           /\ \/ /\ J.done + n < J.chunks[J.c].length
                 /\ K.at = at /\ K.c = J.c /\ K.done = J.done + n
              \/ /\ J.done + n = J.chunks[J.c].length /\ J.c + 1 <= Len(J.chunks)
                 /\ K.at = "kernel" /\ K.c = J.c + 1 /\ K.done = 0
              \/ /\ J.done + n = J.chunks[J.c].length /\ J.c = Len(J.chunks)
                 /\ K.at = "answer" /\ K.status = "success" /\ K.whole = Len(J.chunks)
                 /\ K.part = 0
<1> DEFINE k == [J EXCEPT !.done = @ + n, !.total = @ + n, !.at = at]
           m == [k EXCEPT !.c = @ + 1]
           x == [m EXCEPT !.at = "kernel", !.done = 0]
           y == Answer(m, "success", Len(m.chunks), 0, m.total)
<1>1. /\ DOMAIN k = DOMAIN J /\ k.at = at /\ k.done = J.done + n /\ k.c = J.c
      /\ k.chunks = J.chunks /\ k.src = J.src /\ k.target = J.target /\ k.start = J.start
      /\ k.alone = J.alone /\ k.total = J.total + n
  BY DEF Shaped
<1>2. /\ DOMAIN m = DOMAIN J /\ m.at = at /\ m.c = J.c + 1
      /\ m.chunks = J.chunks /\ m.src = J.src /\ m.target = J.target /\ m.start = J.start
      /\ m.alone = J.alone /\ m.total = J.total + n
  <2> HIDE DEF k
  <2> QED BY <1>1 DEF Shaped
<1>3. /\ DOMAIN x = DOMAIN J /\ x.at = "kernel" /\ x.c = J.c + 1 /\ x.done = 0
      /\ x.chunks = J.chunks /\ x.src = J.src /\ x.target = J.target /\ x.start = J.start
      /\ x.alone = J.alone /\ x.total = J.total + n
  <2> HIDE DEF m
  <2> QED BY <1>2 DEF Shaped
<1>4. /\ DOMAIN y = DOMAIN J /\ y.at = "answer" /\ y.status = "success"
      /\ y.whole = Len(J.chunks) /\ y.part = 0 /\ y.total = J.total + n
      /\ y.chunks = J.chunks /\ y.src = J.src /\ y.target = J.target /\ y.start = J.start
      /\ y.alone = J.alone
  <2> HIDE DEF m
  <2> QED BY <1>2 DEF Shaped, Answer
<1>5. Moved(J, n, at) = IF k.done = J.chunks[J.c].length
                        THEN IF m.c <= Len(m.chunks) THEN x ELSE y
                        ELSE k
  BY DEF Moved, NextChunk
<1> HIDE DEF k, m, x, y
<1>6. CASE k.done # J.chunks[J.c].length
  <2>1. k.done = J.done + n /\ Moved(J, n, at) = k
    BY ONLY <1>1, <1>5, <1>6
  <2>2. J.done + n < J.chunks[J.c].length
    BY ONLY <2>1, <1>6, J.done \in Nat, n \in Nat, J.chunks[J.c].length \in Nat,
            J.done + n <= J.chunks[J.c].length
  <2> QED BY <1>1, <2>1, <2>2 DEF Shaped
<1>7. CASE k.done = J.chunks[J.c].length /\ m.c <= Len(m.chunks)
  <2>1. J.done + n = J.chunks[J.c].length /\ J.c + 1 <= Len(J.chunks) /\ Moved(J, n, at) = x
    BY <1>1, <1>2, <1>5, <1>7
  <2> QED BY <1>3, <2>1 DEF Shaped
<1>8. CASE k.done = J.chunks[J.c].length /\ ~(m.c <= Len(m.chunks))
  <2>1. J.done + n = J.chunks[J.c].length /\ J.c = Len(J.chunks) /\ Moved(J, n, at) = y
    BY <1>1, <1>2, <1>5, <1>8
  <2> QED BY <1>4, <2>1 DEF Shaped
<1> QED BY <1>6, <1>7, <1>8

\* Everything a copy that is within a chunk knows.
Amid(J, C, L) ==
    /\ Whole(J) /\ Checked(J.chunks) /\ Within(J) /\ Held(J, L)
    /\ Enough(J.chunks, Len(J.start[FileOf[J.src]])) /\ AsStaged(J, C)

\* n more bytes of the source in the target: staged so far, or to the end.
LEMMA CopiesOn ==
    ASSUME NEW J, NEW C, NEW L, Amid(J, C, L),
           FileOf[J.src] = FileOf[J.target] => Apart(J.chunks),
           NEW n \in Nat, J.done + n <= J.chunks[J.c].length, NEW at \in {"kernel", "fallback"},
           NEW D, \A f \in Files \ {FileOf[J.target]} : D[f] = C[f],
           D[FileOf[J.target]] =
              Overlay(C[FileOf[J.target]], J.chunks[J.c].target + J.done,
                      SubSeq(C[FileOf[J.src]], J.chunks[J.c].source + J.done + 1,
                             J.chunks[J.c].source + J.done + n))
    PROVE  LET K == Moved(J, n, at) IN
           /\ K.at # "answer" => Amid(K, D, L)
           /\ K.at = "answer" => Described(K, D)
<1>0. PICK t, s, chs : t = FileOf[J.target] /\ s = FileOf[J.src] /\ chs = J.chunks
  OBVIOUS
<1> DEFINE g == staged(J.start, t, s, chs)
           K == Moved(J, n, at)
<1>1. /\ Whole(J) /\ Shaped(J) /\ Checked(chs) /\ Within(J) /\ Held(J, L)
      /\ Enough(chs, Len(J.start[s])) /\ AsStaged(J, C)
  BY <1>0 DEF Amid, Whole
<1>2. t \in Files /\ s \in Files /\ chs \in Seq(Chunk) /\ Len(chs) \in Nat
  BY <1>0, <1>1, CopyConstants DEF Whole
<1>3. Sequence(J.start[t]) /\ Sequence(J.start[s])
  BY <1>1, <1>2 DEF Held
<1>4. /\ J.c \in 1..Len(chs) /\ J.done \in Nat /\ chs[J.c].length \in Nat
      /\ chs[J.c].source \in Nat /\ chs[J.c].target \in Nat
      /\ J.done < chs[J.c].length
  BY <1>0, <1>1 DEF Within, Checked
<1>5. D[t] = placed(J.start, t, s, g[J.c - 1], chs[J.c], J.done + n)
  <2>1. /\ s # t => C[s] = J.start[s]
        /\ C[t] = placed(J.start, t, s, g[J.c - 1], chs[J.c], J.done)
    BY <1>0, <1>1, <1>2 DEF AsStaged
  <2>2. PICK c \in 1..Len(chs), d \in Nat : c = J.c /\ d = J.done
    BY <1>4
  <2>3. PICK files : files = J.start
    OBVIOUS
  <2>4. StagedOn(files, t, s, chs, c, d, n, C)
    <3>1. /\ Sequence(files[t]) /\ Sequence(files[s]) /\ Len(chs) \in Nat /\ Checked(chs)
          /\ Enough(chs, Len(files[s])) /\ (s = t => Apart(chs))
      BY <1>0, <1>1, <1>2, <1>3, <2>3
    <3>2. /\ d + n <= chs[c].length /\ (s # t => C[s] = files[s])
          /\ C[t] = placed(files, t, s, staged(files, t, s, chs)[c - 1], chs[c], d)
      BY <1>0, <2>1, <2>2, <2>3
    <3> QED  BY <3>1, <3>2, CopyIsStaged, Zenon
  <2> QED  BY <1>0, <2>2, <2>3, <2>4 DEF StagedOn
<1>6. \A f \in Files \ {t} : D[f] = J.start[f]
  BY <1>0, <1>1 DEF AsStaged
<1>7. J.total = bytesOf(chs)[J.c - 1] + J.done
  BY <1>0, <1>1 DEF AsStaged
<1>8. /\ g[J.c] = placed(J.start, t, s, g[J.c - 1], chs[J.c], chs[J.c].length)
      /\ Sequence(g[J.c])
  <2>1. J.c \in 0..Len(chs) /\ J.c # 0
    BY <1>4
  <2>2. PICK files : files = J.start
    OBVIOUS
  <2>3. \A i \in 0..Len(chs) :
           /\ Sequence(staged(files, t, s, chs)[i])
           /\ Len(staged(files, t, s, chs)[i]) >= Len(files[t])
    <3>1. /\ Sequence(files[t]) /\ Sequence(files[s]) /\ Len(chs) \in Nat /\ Checked(chs)
          /\ Enough(chs, Len(files[s]))
      BY <1>0, <1>1, <1>2, <1>3, <2>2
    <3> QED  BY <3>1, StagedGrows, Zenon
  <2>4. \A i \in 0..Len(chs) :
           staged(files, t, s, chs)[i] =
              IF i = 0 THEN files[t]
              ELSE placed(files, t, s, staged(files, t, s, chs)[i - 1], chs[i], chs[i].length)
    BY <1>2, StagedIs
  <2> QED  BY <2>1, <2>2, <2>3, <2>4
<1>9. bytesOf(chs)[J.c] = bytesOf(chs)[J.c - 1] + chs[J.c].length
  <2>1. J.c \in 0..Len(chs) /\ J.c # 0
    BY <1>4
  <2> QED  BY <1>2, <2>1, SumIs
<1>b. bytesOf(chs)[J.c - 1] \in Nat
  BY <1>1, <1>2, <1>4, SumNat
<1>10. /\ K.start = J.start /\ K.target = J.target /\ K.src = J.src /\ K.chunks = chs
       /\ Whole(K) /\ K.total = J.total + n
       /\ K.at # "answer" => Within(K)
       /\ \/ /\ J.done + n < chs[J.c].length
             /\ K.at = at /\ K.c = J.c /\ K.done = J.done + n
          \/ /\ J.done + n = chs[J.c].length /\ J.c + 1 <= Len(chs)
             /\ K.at = "kernel" /\ K.c = J.c + 1 /\ K.done = 0
          \/ /\ J.done + n = chs[J.c].length /\ J.c = Len(chs)
             /\ K.at = "answer" /\ K.status = "success" /\ K.whole = Len(chs)
             /\ K.part = 0
  <2>0. PICK d \in Nat, l \in Nat : d = J.done /\ l = chs[J.c].length /\ d + n <= l
    BY <1>0, <1>4
  <2>1. n <= chs[J.c].length - J.done
    BY <2>0
  <2>2. Whole(K) /\ (K.at # "answer" => Within(K))
    BY <1>0, <1>1, <2>1, MovedOn
  <2> QED  BY <1>0, <1>1, <1>2, <1>4, <2>2, MovedTo
<1> HIDE DEF K
<1>11. Held(K, L) /\ Enough(K.chunks, Len(K.start[FileOf[K.src]])) /\ Checked(K.chunks)
  BY <1>0, <1>1, <1>10 DEF Held
<1>12. CASE J.done + n < chs[J.c].length
  <2>1. K.c = J.c /\ K.done = J.done + n /\ K.at # "answer"
    BY <1>10, <1>12, <1>4
  <2>2. K.total = bytesOf(chs)[J.c - 1] + (J.done + n)
    BY <1>10, <1>7, <1>4, <1>b
  <2>3. AsStaged(K, D)
    BY <2>1, <2>2, <1>5, <1>6, <1>10, <1>0 DEF AsStaged
  <2> QED  BY <2>1, <2>3, <1>10, <1>11 DEF Amid, K
<1>13. CASE J.done + n = chs[J.c].length
  <2>1. D[t] = g[J.c]
    BY <1>5, <1>8, <1>13
  <2>2. K.total = bytesOf(chs)[J.c]
    BY <1>10, <1>7, <1>9, <1>13, <1>4, <1>b
  <2>3. CASE J.c + 1 <= Len(chs)
    <3>1. K.c = J.c + 1 /\ K.done = 0 /\ K.at # "answer" /\ K.c - 1 = J.c
      BY <1>10, <1>13, <1>4, <1>2, <2>3
    <3>2. K.c \in 1..Len(chs)
      BY <3>1, <2>3, <1>4, <1>2
    <3>3. chs[K.c].source \in Nat /\ chs[K.c].target \in Nat
      BY <3>2, <1>1 DEF Checked
    <3>4. placed(J.start, t, s, g[J.c], chs[K.c], 0) = g[J.c]
      BY <3>3, <1>8, PlacedNothing
    <3>5. K.total = bytesOf(chs)[J.c] + 0
      BY <2>2, <1>9, <1>b, <1>4
    <3>6. AsStaged(K, D)
      BY <3>1, <3>4, <3>5, <2>1, <1>6, <1>10, <1>0 DEF AsStaged
    <3> QED  BY <3>1, <3>6, <1>10, <1>11 DEF Amid, K
  <2>4. CASE J.c = Len(chs)
    <3>1. K.at = "answer" /\ K.status = "success" /\ K.whole = Len(chs) /\ K.part = 0
      BY <1>10, <1>13, <1>4, <1>2, <2>4
    <3>2. K.status # "refused"
      BY <3>1
    <3>3. D[t] = Reference(K.start, t, s, chs, K.whole, K.part)
      BY <2>1, <2>4, <3>1, <1>10 DEF Reference
    <3>4. K.total = TotalLength(chs)
      BY <2>2, <2>4 DEF TotalLength
    <3>5. Described(K, D)
      BY <3>1, <3>2, <3>3, <3>4, <1>10, <1>0 DEF Described
    <3> QED  BY <3>1, <3>5 DEF K
  <2> QED  BY <2>3, <2>4, <1>2, <1>4
<1>14. J.done + n < chs[J.c].length \/ J.done + n = chs[J.c].length
  <2>0. PICK d \in Nat, l \in Nat : d = J.done /\ l = chs[J.c].length /\ d + n <= l
    BY <1>0, <1>4
  <2> QED  BY <2>0
<1> QED  BY <1>12, <1>13, <1>14

\* A copy that fails within a chunk says how far it came.
LEMMA FailureDescribed ==
    ASSUME NEW K, NEW D, NEW L, Amid(K, D, L)
    PROVE  LET a == Failed(K) IN
           Described(a, D) /\ a.at = "answer" /\ Shaped(a) /\ a.alone = K.alone
<1>0. PICK t, s, chs : t = FileOf[K.target] /\ s = FileOf[K.src] /\ chs = K.chunks
  OBVIOUS
<1> DEFINE a == Failed(K)
           g == staged(K.start, t, s, chs)
<1>1. /\ Whole(K) /\ Shaped(K) /\ Checked(chs) /\ Within(K) /\ Held(K, L)
      /\ Enough(chs, Len(K.start[s])) /\ AsStaged(K, D)
  BY <1>0 DEF Amid, Whole
<1>2. t \in Files /\ s \in Files /\ chs \in Seq(Chunk) /\ Len(chs) \in Nat
  BY <1>0, <1>1, CopyConstants DEF Whole
<1>3. /\ K.c \in 1..Len(chs) /\ K.done \in Nat
      /\ chs[K.c].source \in Nat /\ chs[K.c].target \in Nat
  BY <1>0, <1>1 DEF Within, Checked
<1>4. Sequence(g[K.c - 1])
  <2>1. PICK files : files = K.start
    OBVIOUS
  <2>2. /\ Sequence(files[t]) /\ Sequence(files[s]) /\ Len(chs) \in Nat /\ Checked(chs)
        /\ Enough(chs, Len(files[s]))
    BY <1>0, <1>1, <1>2, <2>1 DEF Held
  <2>3. \A i \in 0..Len(chs) :
           /\ Sequence(staged(files, t, s, chs)[i])
           /\ Len(staged(files, t, s, chs)[i]) >= Len(files[t])
    BY <2>2, StagedGrows, Zenon
  <2>4. K.c - 1 \in 0..Len(chs)
    BY <1>2, <1>3
  <2> QED  BY <2>1, <2>3, <2>4
<1>5. /\ a.at = "answer" /\ a.status = "failed" /\ a.whole = K.c - 1 /\ a.part = K.done
      /\ a.start = K.start /\ a.target = K.target /\ a.src = K.src /\ a.chunks = chs
      /\ a.alone = K.alone /\ Shaped(a)
  BY <1>0, <1>1 DEF Failed, Answer, Shaped
<1> HIDE DEF a
<1>6. (K.c - 1) + 1 = K.c
  BY <1>3
<1>7. D[t] = placed(K.start, t, s, g[K.c - 1], chs[K.c], K.done)
  BY <1>0, <1>1 DEF AsStaged
<1>8. K.done = 0 => D[t] = g[K.c - 1]
  BY <1>3, <1>4, <1>7, PlacedNothing
<1>9. D[t] = Reference(K.start, t, s, chs, K.c - 1, K.done)
  BY <1>6, <1>7, <1>8 DEF Reference
<1>10. "failed" # "refused" /\ "failed" # "success"
  OBVIOUS
<1>11. Described(a, D)
  BY <1>0, <1>5, <1>9, <1>10 DEF Described
<1> QED  BY <1>5, <1>11 DEF a

\* A refusal moved nothing.
LEMMA RefusalDescribed ==
    ASSUME NEW J, Shaped(J), NEW C, C = J.start
    PROVE  LET a == Refuse(J) IN
           Described(a, C) /\ a.at = "answer" /\ Shaped(a) /\ a.alone = J.alone
<1> DEFINE a == Refuse(J)
<1>1. /\ a.at = "answer" /\ a.status = "refused" /\ a.start = J.start /\ a.alone = J.alone
      /\ Shaped(a)
  BY DEF Refuse, Answer, Shaped
<1> HIDE DEF a
<1>2. "refused" # "success"
  OBVIOUS
<1> QED  BY <1>1, <1>2 DEF Described, a

\* What stays as it was for the copy.
LEMMA FaithfulStays ==
    ASSUME NEW J, NEW C, NEW L, NEW T, Faithful(J, C, L, T), NEW K, NEW M, NEW U,
           K.at = J.at, K.target = J.target, K.src = J.src, K.chunks = J.chunks, K.c = J.c,
           K.done = J.done, K.num = J.num, K.buf = J.buf, K.total = J.total,
           K.status = J.status, K.whole = J.whole, K.part = J.part, K.start = J.start,
           K.alone => J.alone,
           J.at \in {"stat"} \cup Copying =>
              M[J.src] # "none" /\ M[J.target] \in {"open", "claimed"},
           J.at \in Inside /\ L[J.src] = "closed" => M[J.src] = "closed",
           K.alone /\ J.at = "syscall" /\ J.num # None => U[J.num] \in {None, T[J.num]}
    PROVE  Faithful(K, C, M, U)
<1>1. J.at \in {"stat"} \cup Copying => Held(K, M)
  BY DEF Faithful, Held
<1>2. ASSUME K.alone, J.at # "idle"  PROVE Along(K, C, M, U)
  <2>1. Along(J, C, L, T)
    BY <1>2 DEF Faithful
  <2>2. J.at \in Inside => AsStaged(K, C)
    BY <2>1 DEF Along, AsStaged
  <2>3. J.at \in Inside /\ FileOf[J.src] = FileOf[J.target] => Apart(J.chunks) \/ Barren(K, M)
    BY <2>1 DEF Along, Barren
  <2>4. J.at = "answer" => Described(K, C)
    BY <2>1 DEF Along, Described
  <2>5. J.at = "syscall" /\ J.num # None => J.num \in Fds /\ U[J.num] \in {None, FileOf[J.src]}
    BY <1>2, <2>1 DEF Along
  <2>6. /\ J.at \in {"stat", "compare"} => C = J.start /\ J.total = 0
        /\ J.at \in Copying => Enough(J.chunks, Len(J.start[FileOf[J.src]]))
        /\ J.at = "write" =>
             J.buf = SubSeq(C[FileOf[J.src]], J.chunks[J.c].source + J.done + 1,
                            J.chunks[J.c].source + J.done + Len(J.buf))
    BY <2>1 DEF Along
  <2> QED  BY <2>2, <2>3, <2>4, <2>5, <2>6 DEF Along
<1> QED  BY <1>1, <1>2 DEF Faithful

\* Everything that has been asked for is a record with all its fields.
LEMMA JobShaped ==
    ASSUME CopyInv, job.at # "idle"
    PROVE  Shaped(job)
  BY DEF CopyInv, Sound, Whole

-----------------------------------------------------------------------------
(* The steps, on the target of the copy.                                   *)

\* Handles come and go under the copy: its target stays open, and its source's
\* number is not given to another file unnoticed.
LEMMA OthersKeepTarget ==
    ASSUME IInv, CopyInv, TargetInv,
           \/ \E o \in Opens : Create(o) \/ handleResumeKey(o) \/ Edit(o)
           \/ \E o \in Closing : CloseRemoves(o) \/ Claim(o) \/ RetireKey(o) \/ CloseFile(o)
           \/ Teardown
    PROVE  TargetInv'
<1>l. LifeInv /\ DOMAIN life = Opens
  BY DEF IInv, LifeInv
<1>d. /\ fd \in [Opens -> Fds \cup {None}] /\ fdTable \in [Fds -> Files \cup {None}]
      /\ \A o \in Opens : life[o] \in Live => fd[o] \in Fds /\ fdTable[fd[o]] = FileOf[o]
      /\ \A o, p \in Opens : life[o] \in Live /\ life[p] \in Live /\ fd[o] = fd[p] => o = p
  BY DEF TargetInv, DescriptorInv
<1>f. Faithful(job, content, life, fdTable)
  BY DEF TargetInv
<1>c. FileOf \in [Opens -> Files] /\ None \notin Files /\ Closing \subseteq Opens
  BY CopyConstants
<1>w. job.at \in {"stat"} \cup Copying =>
         /\ job.src \in Opens /\ job.target \in Opens
         /\ life[job.src] # "none" /\ life[job.target] \in {"open", "claimed"}
  BY <1>f DEF CopyInv, Sound, Whole, Faithful, Held
<1>i. Inside \subseteq Copying /\ "syscall" \in Inside
  BY DEF Inside, Copying
\* The job itself is left as it is.
<1>s. ASSUME NEW M, NEW U, NEW K,
             K = job \/ K = [job EXCEPT !.alone = FALSE] \/ K = [job EXCEPT !.fault = TRUE],
             job.at \in {"stat"} \cup Copying =>
                M[job.src] # "none" /\ M[job.target] \in {"open", "claimed"},
             job.at \in Inside /\ life[job.src] = "closed" => M[job.src] = "closed",
             K.alone /\ job.at = "syscall" /\ job.num # None =>
                U[job.num] \in {None, fdTable[job.num]}
      PROVE  job.at # "idle" => Faithful(K, content, M, U)
  <2> SUFFICES ASSUME job.at # "idle"  PROVE Faithful(K, content, M, U)
    OBVIOUS
  <2>1. Shaped(job)
    BY JobShaped
  <2>2. /\ K.at = job.at /\ K.target = job.target /\ K.src = job.src /\ K.chunks = job.chunks
        /\ K.c = job.c /\ K.done = job.done /\ K.num = job.num /\ K.buf = job.buf
        /\ K.total = job.total /\ K.status = job.status /\ K.whole = job.whole
        /\ K.part = job.part /\ K.start = job.start
        /\ K.alone => job.alone
    BY <1>s, <2>1 DEF Shaped
  <2> QED  BY <1>f, <1>s, <2>2, FaithfulStays
<1>n. ASSUME NEW K, NEW C, NEW M, NEW U, K.at = "idle"  PROVE Faithful(K, C, M, U)
  BY <1>n DEF Faithful, Copying, Inside
<1>1. ASSUME NEW o \in Opens, Create(o)  PROVE TargetInv'
  <2>1. PICK n \in Fds : /\ fdTable[n] = None
                         /\ fd' = [fd EXCEPT ![o] = n]
                         /\ fdTable' = [fdTable EXCEPT ![n] = FileOf[o]]
                         /\ job' = IF job.at = "syscall" /\ job.num = n
                                   THEN [job EXCEPT !.alone = FALSE] ELSE job
    BY <1>1 DEF Create
  <2>2. life[o] = "none" /\ life' = [life EXCEPT ![o] = "open"] /\ content' = content
    BY <1>1 DEF Create
  <2>3. /\ life'[o] = "open" /\ \A p \in Opens \ {o} : life'[p] = life[p]
        /\ fd'[o] = n /\ \A p \in Opens \ {o} : fd'[p] = fd[p]
        /\ fdTable'[n] = FileOf[o] /\ \A m \in Fds \ {n} : fdTable'[m] = fdTable[m]
        /\ fd' \in [Opens -> Fds \cup {None}] /\ fdTable' \in [Fds -> Files \cup {None}]
    BY <1>c, <1>d, <1>l, <2>1, <2>2
  <2>4. \A p \in Opens \ {o} : life[p] \in Live => fd[p] # n
    BY <1>c, <1>d, <2>1
  <2>5. DescriptorInv'
    BY <1>d, <2>3, <2>4 DEF DescriptorInv, Live
  <2>6. /\ job.at \in {"stat"} \cup Copying =>
             life'[job.src] # "none" /\ life'[job.target] \in {"open", "claimed"}
        /\ job.at \in Inside /\ life[job.src] = "closed" => life'[job.src] = "closed"
    BY <1>w, <1>i, <2>2, <2>3
  <2>7. CASE job.at = "idle"
    <3>1. job' = job
      BY <2>1, <2>7
    <3> QED  BY <1>n, <2>5, <2>7, <3>1 DEF TargetInv
  <2>8. CASE job.at = "syscall" /\ job.num = n
    <3>1. job' = [job EXCEPT !.alone = FALSE]
      BY <2>1, <2>8
    <3>2. ~job'.alone
      BY <2>8, <3>1, JobShaped DEF Shaped
    <3>3. Faithful(job', content, life', fdTable')
      BY <1>s, <2>6, <2>8, <3>1, <3>2
    <3> QED  BY <2>2, <2>5, <3>3 DEF TargetInv
  <2>9. CASE job.at # "idle" /\ ~(job.at = "syscall" /\ job.num = n)
    <3>1. job' = job
      BY <2>1, <2>9
    <3>2. job.alone /\ job.at = "syscall" /\ job.num # None =>
             fdTable'[job.num] \in {None, fdTable[job.num]}
      BY <1>f, <2>3, <2>9 DEF Faithful, Along
    <3>3. Faithful(job, content, life', fdTable')
      BY <1>s, <2>6, <2>9, <3>2
    <3> QED  BY <2>2, <2>5, <3>1, <3>3 DEF TargetInv
  <2> QED  BY <2>7, <2>8, <2>9
<1>2. ASSUME NEW o \in Opens, handleResumeKey(o)  PROVE TargetInv'
  BY <1>2 DEF handleResumeKey, handleVars, TargetInv, DescriptorInv
<1>3. ASSUME NEW o \in Opens, Edit(o)  PROVE TargetInv'
  <2>1. UNCHANGED <<life, fd, fdTable>> /\ job.at # "idle" /\ job' = [job EXCEPT !.alone = FALSE]
    BY <1>3 DEF Edit, handleVars
  <2>2. /\ ~job'.alone /\ job'.at = job.at /\ job'.src = job.src /\ job'.target = job.target
        /\ job'.start = job.start
    BY <2>1, JobShaped DEF Shaped
  <2>3. Faithful(job', content', life, fdTable)
    BY <1>f, <2>1, <2>2 DEF Faithful, Held
  <2> QED  BY <2>1, <2>3 DEF TargetInv, DescriptorInv
<1>4. ASSUME NEW o \in Closing, CloseRemoves(o) \/ Claim(o) \/ RetireKey(o)  PROVE TargetInv'
  <2>1. PICK l \in {"removed", "claimed", "unkeyed"} : life' = [life EXCEPT ![o] = l]
    BY <1>4 DEF CloseRemoves, Claim, RetireKey
  <2>2. UNCHANGED <<content, job, fd, fdTable>> /\ o \in Opens
    BY <1>4, <1>c DEF CloseRemoves, Claim, RetireKey
  <2>3. /\ life[o] \in {"open", "claimed", "removed"}
        /\ job.at \in {"stat"} \cup Copying /\ job.target = o => life'[o] = "claimed"
    <3>1. ASSUME job.at \in {"stat"} \cup Copying, job.target = o  PROVE life'[o] = "claimed"
      <4>1. ~Free(o) /\ life[o] # "removed"
        BY <3>1, <1>w DEF Free, Copying, Inside
      <4>2. Claim(o)
        BY <1>4, <4>1 DEF CloseRemoves, RetireKey
      <4> QED  BY <4>2, <1>l, <2>2 DEF Claim
    <3>2. life[o] \in {"open", "claimed", "removed"}
      BY <1>4 DEF CloseRemoves, Claim, RetireKey
    <3> QED  BY <3>1, <3>2
  <2>4. life'[o] = l /\ \A p \in Opens \ {o} : life'[p] = life[p]
    BY <1>l, <2>1, <2>2
  <2>5. DescriptorInv'
    <3>1. \A p \in Opens : life'[p] \in Live => life[p] \in Live
      BY <2>3, <2>4 DEF Live
    <3> QED  BY <1>d, <2>2, <3>1 DEF DescriptorInv
  <2>6. /\ job.at \in {"stat"} \cup Copying =>
             life'[job.src] # "none" /\ life'[job.target] \in {"open", "claimed"}
        /\ job.at \in Inside /\ life[job.src] = "closed" => life'[job.src] = "closed"
    BY <1>w, <1>i, <2>3, <2>4
  <2>7. CASE job.at = "idle"
    BY <1>n, <2>2, <2>5, <2>7 DEF TargetInv
  <2>8. CASE job.at # "idle"
    <3>1. Faithful(job, content, life', fdTable)
      BY <1>s, <2>6, <2>8
    <3> QED  BY <2>2, <2>5, <3>1 DEF TargetInv
  <2> QED  BY <2>7, <2>8
<1>5. ASSUME NEW o \in Closing, CloseFile(o)  PROVE TargetInv'
  <2>1. /\ o \in Opens /\ life[o] = "unkeyed" /\ life' = [life EXCEPT ![o] = "closed"]
        /\ fdTable' = [fdTable EXCEPT ![fd[o]] = None] /\ fd' = [fd EXCEPT ![o] = None]
        /\ job' = (IF job.at # "idle" /\ job.src = o THEN [job EXCEPT !.fault = TRUE] ELSE job)
        /\ content' = content
    BY <1>5, <1>c DEF CloseFile
  <2>2. fd[o] \in Fds
    BY <1>d, <2>1 DEF Live
  <2>3. /\ life'[o] = "closed" /\ \A p \in Opens \ {o} : life'[p] = life[p]
        /\ fd'[o] = None /\ \A p \in Opens \ {o} : fd'[p] = fd[p]
        /\ fdTable'[fd[o]] = None /\ \A m \in Fds \ {fd[o]} : fdTable'[m] = fdTable[m]
        /\ fd' \in [Opens -> Fds \cup {None}] /\ fdTable' \in [Fds -> Files \cup {None}]
    BY <1>d, <1>l, <2>1, <2>2
  <2>4. \A p \in Opens \ {o} : life[p] \in Live => fd[p] # fd[o]
    BY <1>d, <2>1 DEF Live
  <2>5. DescriptorInv'
    BY <1>d, <2>3, <2>4 DEF DescriptorInv, Live
  <2>6. /\ job.at \in {"stat"} \cup Copying =>
             life'[job.src] # "none" /\ life'[job.target] \in {"open", "claimed"}
        /\ job.at \in Inside /\ life[job.src] = "closed" => life'[job.src] = "closed"
    BY <1>w, <1>i, <2>1, <2>3
  <2>7. CASE job.at = "idle"
    <3>1. job' = job
      BY <2>1, <2>7
    <3> QED  BY <1>n, <2>5, <2>7, <3>1 DEF TargetInv
  <2>8. CASE job.at # "idle"
    <3>1. job' = job \/ job' = [job EXCEPT !.fault = TRUE]
      BY <2>1
    <3>2. job'.alone => job.alone
      BY <2>8, <3>1, JobShaped DEF Shaped
    <3>3. job'.alone /\ job.at = "syscall" /\ job.num # None =>
             fdTable'[job.num] \in {None, fdTable[job.num]}
      BY <1>f, <2>3, <2>8, <3>2 DEF Faithful, Along
    <3>4. Faithful(job', content, life', fdTable')
      BY <1>s, <2>6, <2>8, <3>1, <3>3
    <3> QED  BY <2>1, <2>5, <3>4 DEF TargetInv
  <2> QED  BY <2>7, <2>8
<1>6. CASE Teardown
  <2>1. job.at = "idle" /\ UNCHANGED <<content, job>>
    BY <1>6 DEF Teardown
  <2>2. /\ life' = [o \in Opens |-> IF life[o] = "claimed" THEN "claimed" ELSE "closed"]
        /\ fd' = [o \in Opens |-> IF life[o] = "claimed" THEN fd[o] ELSE None]
        /\ fdTable' = [n \in Fds |-> IF \E o \in Opens : life[o] = "claimed" /\ fd[o] = n
                                     THEN fdTable[n] ELSE None]
    BY <1>6 DEF Teardown
  <2>3. fd' \in [Opens -> Fds \cup {None}] /\ fdTable' \in [Fds -> Files \cup {None}]
    BY <1>d, <2>2
  <2>4. \A o \in Opens : life'[o] \in Live => life[o] = "claimed" /\ life[o] \in Live /\ fd'[o] = fd[o]
    BY <2>2 DEF Live
  <2>5. \A o \in Opens : life'[o] \in Live => fd'[o] \in Fds /\ fdTable'[fd'[o]] = FileOf[o]
    BY <1>d, <2>2, <2>4
  <2>6. DescriptorInv'
    BY <1>d, <2>3, <2>4, <2>5 DEF DescriptorInv
  <2> QED  BY <1>n, <2>1, <2>6 DEF TargetInv
<1> QED  BY <1>1, <1>2, <1>3, <1>4, <1>5, <1>6

\* A new job, with the handles and the files as they are.
LEMMA Hence ==
    ASSUME TargetInv, UNCHANGED handleVars, Faithful(job', content', life, fdTable)
    PROVE  TargetInv'
  BY DEF TargetInv, DescriptorInv, handleVars

\* An answer is faithful when it is described.
LEMMA AnswerFaithful ==
    ASSUME NEW K, K.at = "answer", NEW C, NEW L, NEW T, K.alone => Described(K, C)
    PROVE  Faithful(K, C, L, T)
  BY DEF Faithful, Along, Copying, Inside

LEMMA RequestKeepsTarget ==
    ASSUME IInv, CopyInv, TargetInv, NEW t \in Opens, NEW key, NEW chunks \in Requests, NEW needed,
           handleCopyChunk(t, key, chunks, needed)
    PROVE  TargetInv'
<1> DEFINE s == resolve(key, SessOf[t])
           j == [at |-> "stat", target |-> t, src |-> s, chunks |-> chunks, c |-> 1,
                 done |-> 0, num |-> None, buf |-> <<>>, eof |-> FALSE, total |-> 0,
                 status |-> "none", whole |-> 0, part |-> 0,
                 start |-> content, alone |-> TRUE, fault |-> FALSE]
<1>1. /\ UNCHANGED handleVars /\ content' = content /\ life[t] = "open"
      /\ job' = Refuse(j) \/ (job' = j /\ s # None)
  BY DEF handleCopyChunk
<1>2. Shaped(j)
  BY DEF Shaped
<1>3. j.at = "stat" /\ j.target = t /\ j.src = s /\ j.start = content /\ j.total = 0
  OBVIOUS
<1>4. s # None => s \in Opens /\ life[s] \in {"open", "claimed", "removed"}
  BY DEF resolve, IInv, TableInv, KeysNameLiveHandles
<1> HIDE DEF j, s
<1>5. ASSUME s # None  PROVE Faithful(j, content, life, fdTable)
  <2>1. Held(j, life)
    BY <1>1, <1>3, <1>4, <1>5 DEF Held, CopyInv, FilesInv
  <2>2. Along(j, content, life, fdTable)
    BY <1>3 DEF Along, Copying, Inside
  <2> QED  BY <2>1, <2>2 DEF Faithful
<1>6. Faithful(Refuse(j), content, life, fdTable)
  <2>1. PICK C : C = content
    OBVIOUS
  <2>2. Described(Refuse(j), C) /\ Refuse(j).at = "answer"
    BY <1>2, <1>3, <2>1, RefusalDescribed
  <2> QED  BY <2>1, <2>2, AnswerFaithful
<1>7. Faithful(job', content', life, fdTable)
  BY <1>1, <1>5, <1>6
<1> QED  BY <1>1, <1>7, Hence

LEMMA MeasureKeepsTarget ==
    ASSUME CopyInv, TargetInv, ValidateRequest \/ CompareFiles
    PROVE  TargetInv'
<1>s. Sound(job, content, life) /\ Faithful(job, content, life, fdTable)
  BY DEF CopyInv, TargetInv
<1>1. UNCHANGED handleVars /\ content' = content
  BY DEF ValidateRequest, CompareFiles
<1>2. /\ job.at \in {"stat", "compare"} /\ Whole(job) /\ Shaped(job) /\ job.c = 1
      /\ Held(job, life) /\ (job.alone => content = job.start /\ job.total = 0)
  BY <1>s DEF ValidateRequest, CompareFiles, Sound, Copying, Whole, Faithful, Along
<1>3. Faithful(Refuse(job), content, life, fdTable)
  <2>1. PICK J, C : J = job /\ C = content
    OBVIOUS
  <2>2. Refuse(J).at = "answer" /\ Refuse(J).alone = J.alone
    BY <1>2, <2>1 DEF Refuse, Answer, Shaped
  <2>3. J.alone => Described(Refuse(J), C)
    BY <1>2, <2>1, RefusalDescribed
  <2>4. Faithful(Refuse(J), C, life, fdTable)
    BY <2>2, <2>3, AnswerFaithful
  <2> QED  BY <2>1, <2>4
<1>f. /\ FileOf[job.src] \in Files /\ FileOf[job.target] \in Files
      /\ job.chunks \in Seq(Chunk) /\ Len(job.chunks) \in Nat
  BY <1>2, CopyConstants DEF Whole
<1>4. CASE ValidateRequest
  <2> DEFINE q == [job EXCEPT !.at = "compare"]
  <2>1. CASE job' = Refuse(job)
    BY <1>1, <1>3, <2>1, Hence
  <2>2. CASE /\ job' = q /\ life[job.src] # "closed"
             /\ validateCopyChunks(job.chunks, Len(content[FileOf[job.src]]))
    <3>1. /\ q.at = "compare" /\ q.alone = job.alone /\ q.src = job.src
          /\ q.target = job.target /\ q.chunks = job.chunks /\ q.start = job.start
          /\ q.total = job.total
      BY <1>2 DEF Shaped
    <3>2. Len(content[FileOf[job.src]]) \in Nat
      BY <1>f DEF CopyInv, FilesInv, Sequence
    <3>3. Enough(job.chunks, Len(content[FileOf[job.src]]))
      BY <1>2, <2>2, <3>2, ValidationChecks DEF Whole
    <3> HIDE DEF q
    <3>4. Held(q, life)
      BY <1>2, <3>1 DEF Held
    <3>5. q.alone => Along(q, content, life, fdTable)
      BY <1>2, <3>1, <3>3 DEF Along, Copying, Inside
    <3>6. Faithful(q, content, life, fdTable)
      BY <3>4, <3>5 DEF Faithful
    <3> QED  BY <1>1, <2>2, <3>6, Hence
  <2> QED  BY <1>4, <2>1, <2>2 DEF ValidateRequest
<1>5. CASE CompareFiles
  <2>0. /\ Checked(job.chunks)
        /\ job.alone => Enough(job.chunks, Len(job.start[FileOf[job.src]]))
    BY <1>5, <1>s DEF CompareFiles, Sound, Copying, Faithful, Along
  <2>1. CASE job' = Refuse(job)
    BY <1>1, <1>3, <2>1, Hence
  <2>2. CASE job' = NextChunk(job) /\ ~(sameUnderlyingFile(job.src, job.target)
                                        /\ chunksOverlap(job.chunks))
    <3> DEFINE x == [job EXCEPT !.at = "kernel", !.done = 0]
               y == Answer(job, "success", Len(job.chunks), 0, job.total)
               t == FileOf[job.target]
               s == FileOf[job.src]
               g == staged(job.start, t, s, job.chunks)
    <3>1. /\ x.at = "kernel" /\ x.alone = job.alone /\ x.done = 0 /\ x.start = job.start
          /\ x.src = job.src /\ x.target = job.target /\ x.chunks = job.chunks /\ x.c = 1
          /\ x.total = job.total
      BY <1>2 DEF Shaped
    <3>2. /\ y.at = "answer" /\ y.alone = job.alone /\ y.start = job.start /\ y.src = job.src
          /\ y.target = job.target /\ y.chunks = job.chunks /\ y.total = job.total
          /\ y.status = "success" /\ y.whole = Len(job.chunks) /\ y.part = 0
      BY <1>2 DEF Shaped, Answer
    <3>3. \/ job' = x /\ 1 <= Len(job.chunks)
          \/ job' = y /\ Len(job.chunks) = 0
      BY <2>2, <1>2, <1>f DEF NextChunk
    <3> HIDE DEF x, y
    <3>4. g[0] = job.start[t] /\ bytesOf(job.chunks)[0] = 0
      <4>1. 0 \in 0..Len(job.chunks)
        BY <1>f
      <4>2. PICK files, chs, a, b : files = job.start /\ chs = job.chunks /\ a = t /\ b = s
        OBVIOUS
      <4>3. staged(files, a, b, chs)[0] = files[a]
        BY <1>f, <4>1, <4>2, StagedIs
      <4>4. bytesOf(chs)[0] = 0
        BY <1>f, <4>1, <4>2, SumIs
      <4> QED  BY <4>2, <4>3, <4>4
    <3>5. Faithful(y, content, life, fdTable) \/ Len(job.chunks) # 0
      <4> SUFFICES ASSUME Len(job.chunks) = 0, job.alone  PROVE Described(y, content)
        BY <3>2, AnswerFaithful
      <4>1. content[t] = Reference(y.start, t, s, job.chunks, y.whole, y.part)
        BY <1>2, <3>2, <3>4 DEF Reference
      <4>2. y.total = TotalLength(job.chunks)
        BY <1>2, <3>2, <3>4 DEF TotalLength
      <4>3. "success" # "refused"
        OBVIOUS
      <4> QED  BY <3>2, <4>1, <4>2, <4>3 DEF Described
    <3>6. ASSUME 1 <= Len(job.chunks)  PROVE Faithful(x, content, life, fdTable)
      <4>1. Held(x, life)
        BY <1>2, <3>1 DEF Held
      <4>2. ASSUME job.alone  PROVE Along(x, content, life, fdTable)
        <5>1. 1 \in 1..Len(job.chunks) /\ 1 - 1 = 0
          BY <3>6, <1>f
        <5>2. job.chunks[1].source \in Nat /\ job.chunks[1].target \in Nat
          BY <5>1, <2>0 DEF Checked
        <5>3. Sequence(g[0])
          BY <1>2, <1>f, <3>4 DEF Held
        <5>4. placed(job.start, t, s, g[0], job.chunks[1], 0) = g[0]
          BY <5>2, <5>3, PlacedNothing
        <5>5. x.total = bytesOf(x.chunks)[x.c - 1] + x.done
          BY <1>2, <3>1, <3>4, <4>2, <5>1
        <5>6. AsStaged(x, content)
          BY <1>2, <3>1, <3>4, <4>2, <5>1, <5>4, <5>5 DEF AsStaged
        <5>7. s = t => Apart(job.chunks) \/ Barren(x, life)
          <6> SUFFICES ASSUME s = t, life[job.src] # "closed"  PROVE Apart(job.chunks)
            BY <3>1 DEF Barren
          <6>1. ~chunksOverlap(job.chunks)
            BY <1>2, <2>2 DEF sameUnderlyingFile, Held
          <6> SUFFICES ASSUME NEW i \in 1..Len(job.chunks)
                       PROVE  LET ch == job.chunks[i] IN
                              ch.source + ch.length <= ch.target \/ ch.target + ch.length <= ch.source
            BY DEF Apart
          <6>2. PICK S \in Nat, T \in Nat, L \in Nat :
                   /\ S = job.chunks[i].source /\ T = job.chunks[i].target /\ L = job.chunks[i].length
                   /\ S <= MaxInt /\ T <= MaxInt /\ L <= MaxInt
            BY <2>0 DEF Checked
          <6>3. Plus(T, L) = T + L /\ Plus(S, L) = S + L
            BY <6>2, PlusIs
          <6>4. i \in DOMAIN job.chunks
            BY <1>f
          <6>5. ~(S < Plus(T, L) /\ T < Plus(S, L))
            BY <6>1, <6>2, <6>4 DEF chunksOverlap
          <6>6. S + L <= T \/ T + L <= S
            BY ONLY <6>3, <6>5, S \in Nat, T \in Nat, L \in Nat
          <6> QED  BY ONLY <6>2, <6>6
        <5> QED  BY <2>0, <3>1, <4>2, <5>6, <5>7 DEF Along, Copying, Inside
      <4> QED  BY <3>1, <4>1, <4>2 DEF Faithful
    <3> QED  BY <1>1, <3>3, <3>5, <3>6, Hence
  <2> QED  BY <1>5, <2>1, <2>2 DEF CompareFiles
<1> QED  BY <1>4, <1>5

\* A job within a chunk is faithful when it is as staged, and reads what it may.
LEMMA AmidFaithful ==
    ASSUME NEW K, NEW C, NEW L, NEW T, K.at \in Inside \ {"write"}, Held(K, L),
           K.alone => Amid(K, C, L),
           K.alone /\ FileOf[K.src] = FileOf[K.target] => Apart(K.chunks) \/ Barren(K, L),
           K.alone /\ K.at = "syscall" /\ K.num # None =>
              K.num \in Fds /\ T[K.num] \in {None, FileOf[K.src]}
    PROVE  Faithful(K, C, L, T)
<1>1. K.alone => Along(K, C, L, T)
  BY DEF Along, Amid, Copying, Inside
<1> QED  BY <1>1 DEF Faithful

LEMMA AmidSame ==
    ASSUME NEW J, NEW C, NEW L, Amid(J, C, L), NEW K, Shaped(K), K.fault \in BOOLEAN,
           K.alone = J.alone, K.src = J.src, K.target = J.target, K.chunks = J.chunks,
           K.c = J.c, K.done = J.done, K.start = J.start, K.total = J.total
    PROVE  Amid(K, C, L)
<1>1. Whole(K) /\ Within(K) /\ Held(K, L)
  BY DEF Amid, Whole, Within, Held
<1>2. AsStaged(K, C)
  BY DEF Amid, AsStaged
<1> QED  BY <1>1, <1>2 DEF Amid

\* What the loop knows of the copy and its offsets.
LEMMA LoopFacts ==
    ASSUME CopyInv, TargetInv, job.at \in Inside
    PROVE  /\ Whole(job) /\ Shaped(job) /\ Checked(job.chunks) /\ Within(job) /\ Held(job, life)
           /\ FileOf[job.src] \in Files /\ FileOf[job.target] \in Files
           /\ \A f \in Files : Sequence(content[f]) /\ Len(content[f]) \in Nat
           /\ job.alone => Along(job, content, life, fdTable) /\ Amid(job, content, life)
           /\ readAt = job.chunks[job.c].source + job.done
           /\ writeAt = job.chunks[job.c].target + job.done
<1>1. /\ Whole(job) /\ Shaped(job) /\ Checked(job.chunks) /\ Within(job)
      /\ job.src \in Opens /\ job.target \in Opens
  BY DEF CopyInv, Sound, Copying, Whole
<1>2. Held(job, life) /\ (job.alone => Along(job, content, life, fdTable))
  BY DEF TargetInv, Faithful, Copying, Inside
<1>3. job.alone => Amid(job, content, life)
  BY <1>1, <1>2 DEF Along, Amid, Copying
<1>4. /\ FileOf[job.src] \in Files /\ FileOf[job.target] \in Files
      /\ \A f \in Files : Sequence(content[f]) /\ Len(content[f]) \in Nat
  BY <1>1, CopyConstants DEF CopyInv, FilesInv, Sequence
<1>5. /\ chunk = job.chunks[job.c]
      /\ chunk.source \in Nat /\ chunk.target \in Nat
      /\ chunk.source <= MaxInt /\ chunk.target <= MaxInt
  BY <1>1 DEF Checked, Within, chunk
<1>6. readAt = chunk.source + job.done /\ writeAt = chunk.target + job.done
  BY <1>5, Words DEF readAt, writeAt, int64
<1> QED  BY <1>1, <1>2, <1>3, <1>4, <1>5, <1>6

LEMMA ReadIs ==
    ASSUME NEW f, Sequence(content[f]), NEW at \in Nat, NEW n \in Nat, at + n <= Len(content[f])
    PROVE  ReadFrom(f, at, n) = SubSeq(content[f], at + 1, at + n)
<1>1. Len(content[f]) \in Nat
  BY DEF Sequence
<1>2. at + n = IF at + n < Len(content[f]) THEN at + n ELSE Len(content[f])
  BY <1>1
<1> QED  BY <1>2 DEF ReadFrom

\* The start of a part.
LEMMA PartOfPart ==
    ASSUME NEW s, Sequence(s), NEW m \in Nat, NEW n \in Nat, m + n <= Len(s), NEW w \in Nat, w <= n
    PROVE  SubSeq(SubSeq(s, m + 1, m + n), 1, w) = SubSeq(s, m + 1, m + w)
<1>1. PICK b : b = SubSeq(s, m + 1, m + n)
  OBVIOUS
<1>2. Sequence(b) /\ Len(b) = n /\ \A i \in 1..n : b[i] = s[m + i]
  BY <1>1, PartIs
<1>3. PICK a : a = SubSeq(b, 1, w)
  OBVIOUS
<1>4. Sequence(a) /\ Len(a) = w /\ \A i \in 1..w : a[i] = b[i]
  <2>1. 0 + w <= Len(b) /\ 0 \in Nat /\ 0 + 1 = 1 /\ 0 + w = w
    BY <1>2
  <2>2. PICK z \in Nat : z = 0
    OBVIOUS
  <2>3. /\ Sequence(SubSeq(b, z + 1, z + w)) /\ Len(SubSeq(b, z + 1, z + w)) = w
        /\ \A i \in 1..w : SubSeq(b, z + 1, z + w)[i] = b[z + i]
    <3>1. Sequence(b) /\ z + w <= Len(b)
      BY <1>2, <2>2
    <3> QED  BY <3>1, PartIs
  <2>4. SubSeq(b, z + 1, z + w) = a /\ \A i \in 1..w : z + i = i
    BY <1>3, <2>1, <2>2
  <2> QED  BY <2>3, <2>4
<1>5. PICK e : e = SubSeq(s, m + 1, m + w)
  OBVIOUS
<1>6. Sequence(e) /\ Len(e) = w /\ \A i \in 1..w : e[i] = s[m + i]
  <2>1. m + w <= Len(s)
    BY DEF Sequence
  <2> QED  BY <1>5, <2>1, PartIs
<1>7. \A i \in 1..w : i \in 1..n
  OBVIOUS
<1>8. a = e
  BY <1>2, <1>4, <1>6, <1>7, SameSequence
<1> QED  BY <1>1, <1>3, <1>5, <1>8

\* n more bytes go from the source to the target.
LEMMA MoveKeepsTarget ==
    ASSUME CopyInv, TargetInv, job.at \in Inside, NEW n \in Nat, n <= left,
           NEW at \in {"kernel", "fallback"}, NEW bytes, putBytes(bytes),
           job.alone => /\ FileOf[job.src] = FileOf[job.target] => Apart(job.chunks)
                        /\ bytes = SubSeq(content[FileOf[job.src]], readAt + 1, readAt + n)
    PROVE  LET K == Moved(job, n, at) IN
           /\ Faithful(K, content', life, fdTable)
           /\ Shaped(K) /\ K.alone = job.alone
           /\ job.alone /\ n < left => Amid(K, content', life)
<1> DEFINE K == Moved(job, n, at)
<1>1. /\ Whole(job) /\ Shaped(job) /\ Checked(job.chunks) /\ Within(job) /\ Held(job, life)
      /\ FileOf[job.src] \in Files /\ FileOf[job.target] \in Files
      /\ job.alone => Along(job, content, life, fdTable) /\ Amid(job, content, life)
      /\ readAt = job.chunks[job.c].source + job.done
      /\ writeAt = job.chunks[job.c].target + job.done
  BY LoopFacts
<1>2. /\ left \in Nat /\ left = job.chunks[job.c].length - job.done
  BY Offsets
<1>3. /\ Len(job.chunks) \in Nat /\ job.c \in 1..Len(job.chunks) /\ job.done \in Nat
      /\ job.chunks[job.c].length \in Nat
  BY <1>1, CopyConstants DEF Whole, Within, Checked
<1>4. /\ job.done + n <= job.chunks[job.c].length /\ n <= job.chunks[job.c].length - job.done
      /\ n < left => job.done + n < job.chunks[job.c].length
  <2>1. PICK d \in Nat, l \in Nat : d = job.done /\ l = job.chunks[job.c].length
    BY <1>3
  <2>2. left = l - d
    BY <1>2, <2>1
  <2>3. d + n <= l /\ n <= l - d /\ (n < left => d + n < l)
    BY <1>2, <2>2
  <2> QED  BY <2>1, <2>3
<1>5. /\ K.start = job.start /\ K.target = job.target /\ K.src = job.src
      /\ K.chunks = job.chunks /\ K.alone = job.alone /\ Shaped(K)
      /\ K.at \in {at, "kernel", "answer"}
      /\ job.done + n < job.chunks[job.c].length => K.at = at
  BY <1>1, <1>3, <1>4, MovedTo
<1>6. Held(K, life)
  BY <1>1, <1>5 DEF Held
<1>7. ASSUME job.alone
      PROVE  /\ K.at # "answer" => Amid(K, content', life)
             /\ K.at = "answer" => Described(K, content')
  <2>1. PICK J, C, D : J = job /\ C = content /\ D = content'
    OBVIOUS
  <2>2. DOMAIN content = Files
    BY DEF CopyInv, FilesInv
  <2>3. /\ \A f \in Files \ {FileOf[J.target]} : D[f] = C[f]
        /\ D[FileOf[J.target]] =
              Overlay(C[FileOf[J.target]], J.chunks[J.c].target + J.done,
                      SubSeq(C[FileOf[J.src]], J.chunks[J.c].source + J.done + 1,
                             J.chunks[J.c].source + J.done + n))
    BY <1>1, <1>7, <2>1, <2>2 DEF putBytes
  <2>4. Amid(J, C, life) /\ (FileOf[J.src] = FileOf[J.target] => Apart(J.chunks))
        /\ J.done + n <= J.chunks[J.c].length
    BY <1>1, <1>4, <1>7, <2>1
  <2>5. LET M == Moved(J, n, at) IN
        /\ M.at # "answer" => Amid(M, D, life)
        /\ M.at = "answer" => Described(M, D)
    BY <2>3, <2>4, CopiesOn
  <2> QED  BY <2>1, <2>5
<1> HIDE DEF K
<1>8. Faithful(K, content', life, fdTable)
  <2>1. PICK D : D = content'
    OBVIOUS
  <2>2. CASE K.at = "answer"
    <3>1. K.alone => Described(K, D)
      BY <1>5, <1>7, <2>1, <2>2
    <3> QED  BY <2>1, <2>2, <3>1, AnswerFaithful
  <2>3. CASE K.at # "answer"
    <3>1. K.at \in Inside \ {"write"} /\ K.at # "syscall"
      BY <1>5, <2>3 DEF Inside
    <3>2. /\ K.alone => Amid(K, D, life)
          /\ K.alone /\ FileOf[K.src] = FileOf[K.target] => Apart(K.chunks) \/ Barren(K, life)
      BY <1>5, <1>7, <2>1, <2>3
    <3>3. Faithful(K, D, life, fdTable)
      BY <1>6, <3>1, <3>2, AmidFaithful
    <3> QED  BY <2>1, <3>3
  <2> QED  BY <2>2, <2>3
<1>9. job.alone /\ n < left => Amid(K, content', life)
  <2>1. at # "answer"
    OBVIOUS
  <2> QED  BY <1>4, <1>5, <1>7, <2>1
<1> QED  BY <1>5, <1>8, <1>9 DEF K

\* The loop over the bytes of the chunks.
LEMMA LoopKeepsTarget ==
    ASSUME IInv, CopyInv, TargetInv, copyRange
    PROVE  TargetInv'
<1>i. job.at \in Inside
  BY DEF copyRange, KernelDescriptor, copyFileRange, KernelDeclines, KernelFails, FallbackRead,
         FallbackWrite, FallbackWriteFails, Inside
<1>u. UNCHANGED handleVars
  BY DEF copyRange, KernelDescriptor, copyFileRange, KernelDeclines, KernelFails, FallbackRead,
         FallbackWrite, FallbackWriteFails
<1>w. /\ Whole(job) /\ Shaped(job) /\ Checked(job.chunks) /\ Within(job) /\ Held(job, life)
      /\ FileOf[job.src] \in Files /\ FileOf[job.target] \in Files
      /\ \A f \in Files : Sequence(content[f]) /\ Len(content[f]) \in Nat
      /\ job.alone => Along(job, content, life, fdTable) /\ Amid(job, content, life)
      /\ readAt = job.chunks[job.c].source + job.done
      /\ writeAt = job.chunks[job.c].target + job.done
  BY <1>i, LoopFacts
<1>o. /\ left \in Nat /\ left >= 1 /\ readAt \in Nat /\ writeAt \in Nat
      /\ job.alone => readAt + left <= Len(content[FileOf[job.src]])
  BY <1>i, Offsets
<1>a. job.alone /\ FileOf[job.src] = FileOf[job.target] => Apart(job.chunks) \/ Barren(job, life)
  BY <1>i, <1>w DEF Along
<1>b. job.fault \in BOOLEAN /\ job.src \in Opens
  BY <1>w DEF Whole
<1>r. ASSUME NEW n \in Nat, n <= left, job.alone
      PROVE  ReadFrom(FileOf[job.src], readAt, n) = SubSeq(content[FileOf[job.src]], readAt + 1, readAt + n)
  <2>0. PICK f : f = FileOf[job.src]
    OBVIOUS
  <2>1. PICK m \in Nat, a \in Nat, l \in Nat : m = Len(content[f]) /\ a = readAt /\ l = left
    BY <1>o, <1>w, <2>0
  <2>2. a + n <= Len(content[f]) /\ Sequence(content[f])
    BY <1>o, <1>r, <1>w, <2>0, <2>1
  <2> QED  BY <2>0, <2>1, <2>2, ReadIs
\* A job that stays within its chunk.
<1>k. ASSUME NEW K, K.at \in Inside \ {"write"}, Shaped(K), K.fault \in BOOLEAN,
             K.alone = job.alone, K.src = job.src, K.target = job.target,
             K.chunks = job.chunks, K.c = job.c, K.done = job.done, K.start = job.start,
             K.total = job.total, Barren(job, life) => Barren(K, life),
             job.alone /\ K.at = "syscall" /\ K.num # None =>
                K.num \in Fds /\ fdTable[K.num] \in {None, FileOf[job.src]}
      PROVE  Faithful(K, content, life, fdTable)
  <2>1. Held(K, life)
    BY <1>k, <1>w DEF Held
  <2>2. PICK J, C : J = job /\ C = content
    OBVIOUS
  <2>3. K.alone => Amid(K, C, life)
    BY <1>k, <1>w, <2>2, AmidSame
  <2>4. Faithful(K, C, life, fdTable)
    BY <1>a, <1>k, <2>1, <2>3, AmidFaithful
  <2> QED  BY <2>2, <2>4
\* A job that fails within its chunk.
<1>f. ASSUME NEW K, NEW D, Shaped(K), K.alone => Amid(K, D, life)
      PROVE  Faithful(Failed(K), D, life, fdTable)
  <2>1. Failed(K).at = "answer" /\ Failed(K).alone = K.alone
    BY <1>f DEF Failed, Answer, Shaped
  <2>2. K.alone => Described(Failed(K), D)
    BY <1>f, FailureDescribed
  <2> QED  BY <2>1, <2>2, AnswerFaithful
<1>1. CASE KernelDescriptor
  <2>1. PICK num : /\ num = IF life[job.src] = "closed" THEN None ELSE fd[job.src]
                   /\ job' = [job EXCEPT !.at = "syscall", !.num = num]
    BY <1>1 DEF KernelDescriptor
  <2> DEFINE K == [job EXCEPT !.at = "syscall", !.num = num]
  <2>2. /\ DOMAIN K = DOMAIN job /\ K.at = "syscall" /\ K.alone = job.alone
        /\ K.fault = job.fault /\ K.src = job.src /\ K.target = job.target
        /\ K.chunks = job.chunks /\ K.c = job.c /\ K.done = job.done /\ K.start = job.start
        /\ K.total = job.total /\ K.num = num
    BY <1>w DEF Shaped
  <2> HIDE DEF K
  <2>3. Barren(job, life) => Barren(K, life)
    BY <2>1, <2>2 DEF Barren
  <2>4. num # None => num \in Fds /\ fdTable[num] = FileOf[job.src]
    <3> SUFFICES ASSUME num # None  PROVE num \in Fds /\ fdTable[num] = FileOf[job.src]
      OBVIOUS
    <3>1. life[job.src] # "closed" /\ num = fd[job.src]
      BY <2>1
    <3>2. life[job.src] \in Live
      BY <1>b, <1>w, <3>1 DEF IInv, LifeInv, Live, Held
    <3> QED  BY <1>b, <3>1, <3>2 DEF TargetInv, DescriptorInv
  <2>5. Shaped(K) /\ K.at \in Inside \ {"write"}
    BY <1>w, <2>2 DEF Shaped, Inside
  <2>6. Faithful(K, content, life, fdTable)
    BY <1>b, <1>k, <2>2, <2>3, <2>4, <2>5
  <2>7. content' = content /\ job' = K
    BY <1>1, <2>1 DEF KernelDescriptor, K
  <2> QED  BY <1>u, <2>6, <2>7, Hence
<1>2. CASE copyFileRange
  <2>1. PICK n \in 1..left : /\ putBytes(ReadFrom(inKernel, readAt, n))
                             /\ job' = Moved(job, n, "kernel")
    BY <1>2 DEF copyFileRange
  <2>2. n \in Nat /\ n <= left
    BY <1>o
  <2>3. ASSUME job.alone  PROVE inKernel = FileOf[job.src]
    BY <1>2, <1>w, <2>3 DEF copyFileRange, inKernel, Along
  <2>4. job.alone /\ FileOf[job.src] = FileOf[job.target] => Apart(job.chunks)
    BY <1>2, <1>a DEF copyFileRange, inKernel, Barren
  <2>5. job.alone => ReadFrom(inKernel, readAt, n)
                       = SubSeq(content[FileOf[job.src]], readAt + 1, readAt + n)
    BY <1>r, <2>2, <2>3
  <2>6. PICK bytes : bytes = ReadFrom(inKernel, readAt, n)
    OBVIOUS
  <2>7. Faithful(Moved(job, n, "kernel"), content', life, fdTable)
    BY <1>i, <2>1, <2>2, <2>4, <2>5, <2>6, MoveKeepsTarget
  <2> QED  BY <1>u, <2>1, <2>7, Hence
<1>3. CASE KernelDeclines
  <2> DEFINE K == [job EXCEPT !.at = "fallback"]
  <2>1. job' = K /\ content' = content
    BY <1>3 DEF KernelDeclines
  <2>2. /\ DOMAIN K = DOMAIN job /\ K.at = "fallback" /\ K.alone = job.alone
        /\ K.fault = job.fault /\ K.src = job.src /\ K.target = job.target
        /\ K.chunks = job.chunks /\ K.c = job.c /\ K.done = job.done /\ K.start = job.start
        /\ K.total = job.total
    BY <1>w DEF Shaped
  <2> HIDE DEF K
  <2>3. Barren(job, life) => Barren(K, life)
    BY <2>2 DEF Barren
  <2>4. Shaped(K) /\ K.at \in Inside \ {"write"} /\ K.at # "syscall"
    BY <1>w, <2>2 DEF Shaped, Inside
  <2>5. Faithful(K, content, life, fdTable)
    BY <1>b, <1>k, <2>2, <2>3, <2>4
  <2> QED  BY <1>u, <2>1, <2>5, Hence
<1>4. CASE KernelFails
  <2> DEFINE K == [job EXCEPT !.fault = TRUE]
  <2>1. job' = Failed(K) /\ content' = content
    BY <1>4 DEF KernelFails
  <2>2. /\ DOMAIN K = DOMAIN job /\ K.alone = job.alone
        /\ K.fault = TRUE /\ K.src = job.src /\ K.target = job.target
        /\ K.chunks = job.chunks /\ K.c = job.c /\ K.done = job.done /\ K.start = job.start
        /\ K.total = job.total
    BY <1>w DEF Shaped
  <2> HIDE DEF K
  <2>3. PICK J, C : J = job /\ C = content
    OBVIOUS
  <2>4. Shaped(K) /\ K.fault \in BOOLEAN
    BY <1>w, <2>2 DEF Shaped
  <2>5. K.alone => Amid(K, C, life)
    BY <1>w, <2>2, <2>3, <2>4, AmidSame
  <2>6. Faithful(Failed(K), C, life, fdTable)
    BY <1>f, <2>4, <2>5
  <2> QED  BY <1>u, <2>1, <2>3, <2>6, Hence
<1>5. CASE FallbackRead
  <2> DEFINE want == IF left < CopyBuf THEN left ELSE CopyBuf
             bytes == ReadFrom(FileOf[job.src], readAt, want)
             e == Len(bytes) < want
             K == [job EXCEPT !.at = "write", !.buf = bytes, !.eof = e]
  <2>1. want \in Nat /\ want <= left
    BY <1>o, CopyConstants
  <2>2. /\ content' = content
        /\ job' = IF life[job.src] = "closed" \/ readAt < 0 THEN Failed(job) ELSE K
    BY <1>5 DEF FallbackRead
  <2> HIDE DEF want
  <2>3. job.alone => bytes = SubSeq(content[FileOf[job.src]], readAt + 1, readAt + want)
                     /\ Len(bytes) = want
    <3> SUFFICES ASSUME job.alone
                 PROVE  bytes = SubSeq(content[FileOf[job.src]], readAt + 1, readAt + want)
                        /\ Len(bytes) = want
      OBVIOUS
    <3>1. bytes = SubSeq(content[FileOf[job.src]], readAt + 1, readAt + want)
      BY <1>r, <2>1
    <3>0. PICK f : f = content[FileOf[job.src]]
      OBVIOUS
    <3>2. PICK m \in Nat, a \in Nat, l \in Nat : m = Len(f) /\ a = readAt /\ l = left
      BY <1>o, <1>w, <3>0
    <3>3. a + want <= Len(f) /\ Sequence(f)
      BY <1>o, <1>w, <2>1, <3>0, <3>2
    <3>4. Len(SubSeq(f, a + 1, a + want)) = want
      BY <2>1, <3>3, PartIs
    <3> QED  BY <3>0, <3>1, <3>2, <3>4
  <2> HIDE DEF bytes, e
  <2>4. /\ DOMAIN K = DOMAIN job /\ K.at = "write" /\ K.alone = job.alone
        /\ K.fault = job.fault /\ K.src = job.src /\ K.target = job.target
        /\ K.chunks = job.chunks /\ K.c = job.c /\ K.done = job.done /\ K.start = job.start
        /\ K.total = job.total /\ K.buf = bytes
    BY <1>w DEF Shaped
  <2> HIDE DEF K
  <2>5. CASE life[job.src] = "closed"
    <3>1. PICK C : C = content
      OBVIOUS
    <3>2. Faithful(Failed(job), C, life, fdTable)
      BY <1>f, <1>w, <3>1
    <3>3. job' = Failed(job)
      BY <2>2, <2>5
    <3> QED  BY <1>u, <2>2, <3>1, <3>2, <3>3, Hence
  <2>6. CASE life[job.src] # "closed"
    <3>1. job' = K
      BY <1>o, <2>2, <2>6
    <3>2. Held(K, life)
      BY <1>w, <2>4 DEF Held
    <3>3. ASSUME job.alone  PROVE Along(K, content, life, fdTable)
      <4>1. AsStaged(K, content) /\ Enough(K.chunks, Len(K.start[FileOf[K.src]]))
        BY <1>w, <2>4, <3>3 DEF Amid, AsStaged
      <4>2. FileOf[K.src] = FileOf[K.target] => Apart(K.chunks)
        BY <1>a, <2>4, <2>6, <3>3 DEF Barren
      <4>3. LET from == K.chunks[K.c].source + K.done IN
            K.buf = SubSeq(content[FileOf[K.src]], from + 1, from + Len(K.buf))
        BY <1>w, <2>3, <2>4, <3>3
      <4> QED  BY <2>4, <4>1, <4>2, <4>3 DEF Along, Copying, Inside
    <3>4. Faithful(K, content, life, fdTable)
      BY <2>4, <3>2, <3>3 DEF Faithful
    <3> QED  BY <1>u, <2>2, <3>1, <3>4, Hence
  <2> QED  BY <2>5, <2>6
\* What was read, as it still is.
<1>c. ASSUME job.at = "write"
      PROVE  /\ Sequence(job.buf) /\ Len(job.buf) \in Nat /\ Len(job.buf) <= left
             /\ job.eof => ~job.alone
             /\ job.alone =>
                  /\ FileOf[job.src] = FileOf[job.target] => Apart(job.chunks)
                  /\ job.buf = SubSeq(content[FileOf[job.src]], readAt + 1, readAt + Len(job.buf))
  <2>1. /\ Sequence(job.buf) /\ Len(job.buf) <= job.chunks[job.c].length - job.done
        /\ job.eof => ~job.alone
    BY <1>c DEF CopyInv, Sound
  <2>2. Len(job.buf) \in Nat /\ Len(job.buf) <= left
    BY <2>1, <1>i, Offsets DEF Sequence
  <2>3. job.alone => job.buf = SubSeq(content[FileOf[job.src]], readAt + 1, readAt + Len(job.buf))
    BY <1>c, <1>w DEF Along
  <2>4. job.alone /\ FileOf[job.src] = FileOf[job.target] => Apart(job.chunks)
    BY <1>a, <1>c DEF Barren
  <2> QED  BY <2>1, <2>2, <2>3, <2>4
<1>6. CASE FallbackWrite
  <2> DEFINE K == Moved(job, Len(job.buf), "fallback")
  <2>1. job.at = "write" /\ putBytes(job.buf) /\ job' = IF job.eof THEN Failed(K) ELSE K
    BY <1>6 DEF FallbackWrite
  <2>2. PICK n \in Nat : n = Len(job.buf)
    BY <1>c, <2>1
  <2>b. PICK bytes : bytes = job.buf
    OBVIOUS
  <2>3. /\ Faithful(Moved(job, n, "fallback"), content', life, fdTable)
        /\ Shaped(Moved(job, n, "fallback")) /\ Moved(job, n, "fallback").alone = job.alone
    <3>1. n <= left /\ putBytes(bytes)
      BY <1>c, <2>1, <2>2, <2>b
    <3>2. job.alone => /\ FileOf[job.src] = FileOf[job.target] => Apart(job.chunks)
                       /\ bytes = SubSeq(content[FileOf[job.src]], readAt + 1, readAt + n)
      BY <1>c, <2>1, <2>2, <2>b
    <3> QED  BY <1>i, <3>1, <3>2, MoveKeepsTarget
  <2>4. Faithful(K, content', life, fdTable) /\ Shaped(K) /\ K.alone = job.alone
    BY <2>2, <2>3
  <2> HIDE DEF K
  <2>5. CASE job.eof
    <3>1. ~K.alone
      BY <1>c, <2>1, <2>4, <2>5
    <3>2. PICK D : D = content'
      OBVIOUS
    <3>3. Faithful(Failed(K), D, life, fdTable)
      BY <1>f, <2>4, <3>1
    <3> QED  BY <1>u, <2>1, <2>5, <3>2, <3>3, Hence
  <2>6. CASE ~job.eof
    BY <1>u, <2>1, <2>4, <2>6, Hence
  <2> QED  BY <2>5, <2>6
<1>7. CASE FallbackWriteFails
  <2>1. PICK w \in 0..(Len(job.buf) - 1) :
           /\ putBytes(SubSeq(job.buf, 1, w))
           /\ job' = Failed([Moved(job, w, "fallback") EXCEPT !.fault = @ \/ writeAt >= 0])
    BY <1>7 DEF FallbackWriteFails
  <2>2. job.at = "write"
    BY <1>7 DEF FallbackWriteFails
  <2>3. w \in Nat /\ w <= Len(job.buf) /\ w < left /\ w <= left
    BY <1>c, <1>o, <2>2
  <2>4. PICK bytes : bytes = SubSeq(job.buf, 1, w)
    OBVIOUS
  <2>5. job.alone => bytes = SubSeq(content[FileOf[job.src]], readAt + 1, readAt + w)
    <3> SUFFICES ASSUME job.alone
                 PROVE  bytes = SubSeq(content[FileOf[job.src]], readAt + 1, readAt + w)
      OBVIOUS
    <3>0. PICK f : f = content[FileOf[job.src]]
      OBVIOUS
    <3>1. PICK m \in Nat, a \in Nat, l \in Nat, n \in Nat :
             m = Len(f) /\ a = readAt /\ l = left /\ n = Len(job.buf)
      BY <1>c, <1>o, <1>w, <2>2, <3>0
    <3>2. a + n <= Len(f) /\ Sequence(f) /\ w <= n
      <4>1. n <= l /\ w <= n
        BY <1>c, <2>2, <2>3, <3>1
      <4>2. a + l <= m
        BY <1>o, <3>0, <3>1
      <4>3. Sequence(f)
        BY <1>w, <3>0
      <4> QED  BY <4>1, <4>2, <4>3, <3>1
    <3>3. SubSeq(SubSeq(f, a + 1, a + n), 1, w) = SubSeq(f, a + 1, a + w)
      BY <2>3, <3>2, PartOfPart
    <3> QED  BY <1>c, <2>2, <2>4, <3>0, <3>1, <3>3
  <2> DEFINE M == Moved(job, w, "fallback")
             K == [M EXCEPT !.fault = @ \/ writeAt >= 0]
  <2>6. /\ Shaped(M) /\ M.alone = job.alone /\ (job.alone => Amid(M, content', life))
    BY <1>c, <1>i, <2>1, <2>2, <2>3, <2>4, <2>5, MoveKeepsTarget
  <2>7. job' = Failed(K)
    BY <2>1
  <2>8. writeAt >= 0
    BY <1>o
  <2> HIDE DEF M
  <2>9. /\ DOMAIN K = DOMAIN M /\ K.alone = M.alone
        /\ K.fault = TRUE /\ K.src = M.src /\ K.target = M.target
        /\ K.chunks = M.chunks /\ K.c = M.c /\ K.done = M.done /\ K.start = M.start
        /\ K.total = M.total
    <3>1. K = [M EXCEPT !.fault = TRUE]
      BY <2>8
    <3> HIDE DEF K
    <3> QED  BY <2>6, <3>1 DEF Shaped
  <2> HIDE DEF K
  <2>10. Shaped(K) /\ K.fault \in BOOLEAN
    BY <2>6, <2>9 DEF Shaped
  <2>11. PICK D : D = content'
    OBVIOUS
  <2>12. K.alone => Amid(K, D, life)
    BY <2>6, <2>9, <2>10, <2>11, AmidSame
  <2>13. Faithful(Failed(K), D, life, fdTable)
    BY <1>f, <2>10, <2>12
  <2> QED  BY <1>u, <2>7, <2>11, <2>13, Hence
<1> QED  BY <1>1, <1>2, <1>3, <1>4, <1>5, <1>6, <1>7 DEF copyRange

LEMMA TargetStarts == Init => TargetInv
<1> SUFFICES ASSUME Init  PROVE TargetInv
  OBVIOUS
<1> DEFINE f == CHOOSE g \in Injection(Early, Fds) : TRUE
<1>1. f \in Injection(Early, Fds)
  BY CopyConstants
<1>2. /\ life = [o \in Opens |-> IF o \in Early THEN "open" ELSE "none"]
      /\ fd = [o \in Opens |-> IF o \in Early THEN f[o] ELSE None]
      /\ fdTable = [n \in Fds |-> IF n \in Range(f)
                                  THEN FileOf[CHOOSE o \in Early : f[o] = n] ELSE None]
      /\ job = NoJob
  BY DEF Init
<1> HIDE DEF f
<1>3. f \in [Early -> Fds] /\ \A a, b \in Early : f[a] = f[b] => a = b
  BY <1>1 DEF Injection, IsInjective
<1>4. ASSUME NEW o \in Early  PROVE fdTable[f[o]] = FileOf[o]
  <2>1. f[o] \in Fds /\ f[o] \in Range(f)
    BY <1>3 DEF Range
  <2>2. (CHOOSE p \in Early : f[p] = f[o]) = o
    <3>1. \E p \in Early : f[p] = f[o]
      OBVIOUS
    <3> DEFINE q == CHOOSE p \in Early : f[p] = f[o]
    <3>2. q \in Early /\ f[q] = f[o]
      BY <3>1
    <3> QED  BY <1>3, <3>2
  <2> QED  BY <1>2, <2>1, <2>2
<1>5. ASSUME NEW n \in Fds  PROVE fdTable[n] \in Files \cup {None}
  <2>1. CASE n \in Range(f)
    <3>1. PICK o \in Early : f[o] = n
      BY <1>3, <2>1 DEF Range
    <3> QED  BY <1>4, <3>1, CopyConstants
  <2>2. CASE n \notin Range(f)
    BY <1>2, <2>2
  <2> QED  BY <2>1, <2>2
<1>6. /\ fd \in [Opens -> Fds \cup {None}] /\ fdTable \in [Fds -> Files \cup {None}]
      /\ \A o \in Opens : life[o] \in Live => o \in Early /\ fd[o] = f[o]
  BY <1>2, <1>3, <1>5 DEF Live
<1>7. DescriptorInv
  BY <1>3, <1>4, <1>6 DEF DescriptorInv
<1>8. Faithful(job, content, life, fdTable)
  BY <1>2 DEF NoJob, Faithful, Copying, Inside
<1> QED  BY <1>7, <1>8 DEF TargetInv

\* The counts of a COPYCHUNK answer describe the target exactly: so many whole
\* chunks and so many bytes of the next, as if every chunk had been staged in
\* memory first, and nothing else; a refused request moved nothing.  It holds for
\* every word width, every list of chunks and every size of the buffer, with the
\* source closed at any point, the copy falling back in the middle of a chunk or
\* a write stopping short, and also when both handles are on one file
\* (handleCopyChunk, validateCopyChunks, chunksOverlap and copyRange).
THEOREM AnswersDescribe == Spec => []AnswerDescribesTarget
<1>1. Init => IInv /\ CopyInv /\ TargetInv
  BY CopyStarts, TargetStarts
<1>2. IInv /\ CopyInv /\ TargetInv /\ [Next]_vars => IInv' /\ CopyInv' /\ TargetInv'
  <2> SUFFICES ASSUME IInv, CopyInv, TargetInv, [Next]_vars  PROVE TargetInv'
    BY StepKeeps, CopyKept
  <2>1. CASE UNCHANGED vars
    BY <2>1 DEF vars, TargetInv, DescriptorInv
  <2>2. CASE Respond
    <3>1. UNCHANGED handleVars /\ job'.at = "idle"
      BY <2>2 DEF Respond, NoJob
    <3>2. Faithful(job', content', life, fdTable)
      BY <3>1 DEF Faithful, Copying, Inside
    <3> QED  BY <3>1, <3>2, Hence
  <2>3. ASSUME NEW t \in Opens, NEW key \in issued, NEW chunks \in Requests,
               NEW needed \in {{"write"}, {"read", "write"}},
               handleCopyChunk(t, key, chunks, needed)
        PROVE  TargetInv'
    BY <2>3, RequestKeepsTarget
  <2> QED BY <2>1, <2>2, <2>3, OthersKeepTarget, MeasureKeepsTarget, LoopKeepsTarget
          DEF Next, CopyStep
<1>3. CopyInv /\ TargetInv => AnswerDescribesTarget
  BY DEF TargetInv, Faithful, Along, Described, AnswerDescribesTarget
<1> QED BY <1>1, <1>2, <1>3, PTL DEF Spec
=============================================================================
