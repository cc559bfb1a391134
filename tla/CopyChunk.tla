------------------------------ MODULE CopyChunk ------------------------------
(***************************************************************************)
(* Server-side copy on one connection (copychunk.go, copychunk_linux.go):  *)
(* resume keys, and FSCTL_SRV_COPYCHUNK from the handle a key names to the *)
(* handle the IOCTL was sent on.                                           *)
(*                                                                         *)
(* The IOCTL holds Open.mu of its target.  Nothing holds the source: it    *)
(* can be closed, and its descriptor number given to another file, between *)
(* any two steps of a copy, and other handles may write or truncate either *)
(* file.  Offsets are words of a width given by MaxInt, so that sums can   *)
(* pass the largest file offset and wrap.                                  *)
(***************************************************************************)
EXTENDS Integers, FiniteSets, SequencesExt

CONSTANTS
    Opens,       \* *Open values
    SessOf,      \* the session of each
    FileOf,      \* the file each is opened on
    Grants,      \* what each may do: "read", "write"; {} for a directory
    Contents,    \* what the files hold at first
    Early,       \* the handles that are open at first
    Fds,         \* descriptor numbers
    Keys,        \* random keys
    Requests,    \* the chunk lists clients send
    MaxInt,      \* maxFileOffset
    MaxCount,    \* maxCopyChunkCount
    MaxChunk,    \* maxCopyChunkSize
    MaxTotal,    \* maxCopyChunkTotal
    CopyBuf,     \* copyBufSize
    MaxEdits,    \* bound: writes and truncations by others
    Closing,     \* bound: the handles that are closed one by one
    MaxCopies,   \* bound: COPYCHUNK requests
    None

MaxWord == 2 * MaxInt + 1
Files == Range(FileOf)

Chunk == [source : 0..MaxWord, target : 0..MaxWord, length : 0..MaxWord]

ASSUME CopyConstants ==
    /\ SessOf \in [Opens -> Range(SessOf)]
    /\ Closing \subseteq Opens /\ Early \subseteq Opens /\ Injection(Early, Fds) # {}
    /\ MaxInt \in Nat /\ CopyBuf \in Nat \ {0} /\ MaxCount \in Nat /\ MaxChunk \in Nat /\ MaxTotal \in Nat
    /\ MaxChunk <= MaxInt /\ MaxEdits \in Nat /\ MaxCopies \in Nat
    /\ FileOf \in [Opens -> Files] /\ None \notin Files
    /\ DOMAIN Contents = Files /\ \A f \in Files : Contents[f] \in Seq(Range(Contents[f]))
    /\ Requests \subseteq Seq(Chunk)

VARIABLES
    life,      \* where each handle stands between CREATE and File.Close
    fd,        \* its descriptor number
    fdTable,   \* the file each number names
    byKey,     \* resumeKeyTable.byKey
    byOpen,    \* resumeKeyTable.byOpen
    issued,    \* keys that were ever minted
    content,   \* the bytes of the files
    job,       \* the COPYCHUNK in progress
    edits,     \* changes by others
    copies     \* requests so far

vars == <<life, fd, fdTable, byKey, byOpen, issued, content, job, edits, copies>>
handleVars == <<life, fd, fdTable>>
keyVars == <<byKey, byOpen, issued>>

\* "claimed": taken out of the session by a teardown that waits for Open.mu;
\* "removed": taken out by CLOSE, which holds it; "unkeyed": its key is gone.

NoJob == [at |-> "idle"]

Init ==
    /\ life = [o \in Opens |-> IF o \in Early THEN "open" ELSE "none"]
    /\ LET f == CHOOSE g \in Injection(Early, Fds) : TRUE IN
          /\ fd = [o \in Opens |-> IF o \in Early THEN f[o] ELSE None]
          /\ fdTable = [n \in Fds |-> IF n \in Range(f)
                                      THEN FileOf[CHOOSE o \in Early : f[o] = n] ELSE None]
    /\ byKey = <<>> /\ byOpen = <<>> /\ issued = {}
    /\ content = Contents
    /\ job = NoJob
    /\ edits = 0 /\ copies = 0

-----------------------------------------------------------------------------
(* The files (external).  A write past the end fills the gap with zeros.   *)

Overlay(old, at, bytes) ==
    LET size == IF bytes = <<>> \/ at + Len(bytes) < Len(old)
                THEN Len(old) ELSE at + Len(bytes)
    IN  [i \in 1..size |-> IF i > at /\ i <= at + Len(bytes) THEN bytes[i - at]
                           ELSE IF i <= Len(old) THEN old[i] ELSE "zero"]

\* Up to n bytes from an offset.
ReadFrom(file, at, n) ==
    SubSeq(content[file], at + 1, IF at + n < Len(content[file]) THEN at + n ELSE Len(content[file]))

-----------------------------------------------------------------------------
(* resumeKeyTable, under its mutex.                                        *)

without(key, o) ==
    /\ byKey' = [k \in DOMAIN byKey \ {key} |-> byKey[k]]
    /\ byOpen' = [p \in DOMAIN byOpen \ {o} |-> byOpen[p]]

release(o) ==
    /\ IF o \in DOMAIN byOpen THEN without(byOpen[o], o) ELSE UNCHANGED <<byKey, byOpen>>
    /\ UNCHANGED issued

resolve(key, sess) ==
    IF key \in DOMAIN byKey /\ byKey[key].sess = sess THEN byKey[key].open ELSE None

\* The handle has a key, issued to this session.
hasKey(o, sess) ==
    o \in DOMAIN byOpen /\ byOpen[o] \in DOMAIN byKey /\ byKey[byOpen[o]].sess = sess

\* A fresh random key (which one matters to nobody), in place of one for
\* another session.
mint(o, sess) ==
    /\ Keys \ issued # {}
    /\ LET k == CHOOSE x \in Keys \ issued : TRUE
            stale == IF o \in DOMAIN byOpen THEN {byOpen[o]} ELSE {} IN
        /\ byKey' = [x \in (DOMAIN byKey \ stale) \cup {k} |->
                        IF x = k THEN [open |-> o, sess |-> sess] ELSE byKey[x]]
        /\ byOpen' = [p \in DOMAIN byOpen \cup {o} |-> IF p = o THEN k ELSE byOpen[p]]
        /\ issued' = issued \cup {k}

-----------------------------------------------------------------------------
(* Handles come and go.                                                    *)

\* Nobody holds Open.mu of o: neither the copy that targets it, nor a CLOSE
\* or a release.
Free(o) ==
    /\ job.at # "idle" => job.target # o
    /\ life[o] \notin {"removed", "unkeyed"}

\* Mutant: the handle found before waiting for its lock is used as it is.
handleResumeKey_Stale(o) ==
    /\ life[o] \in {"open", "claimed", "closed"} /\ Free(o)
    /\ ~hasKey(o, SessOf[o]) /\ mint(o, SessOf[o])
    /\ UNCHANGED <<handleVars, content, job, edits, copies>>

\* FSCTL_SRV_REQUEST_RESUME_KEY, under Open.mu: the handle is looked up once
\* more with the lock held.
handleResumeKey(o) ==
    /\ life[o] = "open" /\ Free(o)
    /\ ~hasKey(o, SessOf[o]) /\ mint(o, SessOf[o])
    /\ UNCHANGED <<handleVars, content, job, edits, copies>>

\* CREATE takes a free descriptor number.  The copy may hold that number from
\* before its source was closed: then it no longer works on its own files.
Create(o) ==
    /\ life[o] = "none"
    /\ \E n \in Fds :
          /\ fdTable[n] = None
          /\ fd' = [fd EXCEPT ![o] = n]
          /\ fdTable' = [fdTable EXCEPT ![n] = FileOf[o]]
          /\ job' = IF job.at = "syscall" /\ job.num = n
                    THEN [job EXCEPT !.alone = FALSE] ELSE job
    /\ life' = [life EXCEPT ![o] = "open"]
    /\ UNCHANGED <<keyVars, content, edits, copies>>

\* CLOSE takes the handle out of the session, under its lock.
CloseRemoves(o) ==
    /\ life[o] = "open" /\ Free(o)
    /\ life' = [life EXCEPT ![o] = "removed"]
    /\ UNCHANGED <<fd, fdTable, keyVars, content, job, edits, copies>>

\* TREE_DISCONNECT, LOGOFF, a supersede: out of the session at once, the lock
\* after.
Claim(o) ==
    /\ life[o] = "open"
    /\ life' = [life EXCEPT ![o] = "claimed"]
    /\ UNCHANGED <<fd, fdTable, keyVars, content, job, edits, copies>>

\* The key is retired; releaseOpens waits for the lock first.
RetireKey(o) ==
    /\ life[o] = "removed" \/ (life[o] = "claimed" /\ Free(o))
    /\ release(o)
    /\ life' = [life EXCEPT ![o] = "unkeyed"]
    /\ UNCHANGED <<fd, fdTable, content, job, edits, copies>>

\* File.Close: the number is free for the next file.
CloseFile(o) ==
    /\ life[o] = "unkeyed"
    /\ fdTable' = [fdTable EXCEPT ![fd[o]] = None]
    /\ fd' = [fd EXCEPT ![o] = None]
    /\ life' = [life EXCEPT ![o] = "closed"]
    /\ job' = IF job.at # "idle" /\ job.src = o THEN [job EXCEPT !.fault = TRUE] ELSE job
    /\ UNCHANGED <<keyVars, content, edits, copies>>

\* The connection ends, its pool drained: clear() empties the table, then
\* releaseConnOpens closes what is left; a supersede from another connection
\* may still be about to release what it claimed.
Teardown ==
    LET claimed == {o \in Opens : life[o] = "claimed"} IN
    /\ job.at = "idle"
    /\ \A o \in Opens : life[o] \notin {"removed", "unkeyed"}
    /\ \E o \in Opens : life[o] = "open"
    /\ life' = [o \in Opens |-> IF o \in claimed THEN "claimed" ELSE "closed"]
    /\ fd' = [o \in Opens |-> IF o \in claimed THEN fd[o] ELSE None]
    /\ fdTable' = [n \in Fds |-> IF \E o \in claimed : fd[o] = n THEN fdTable[n] ELSE None]
    /\ byKey' = <<>> /\ byOpen' = <<>>
    /\ UNCHANGED <<issued, content, job, edits, copies>>

\* A WRITE or a SET_INFO of the end of file through another handle; bound:
\* only while a copy runs.
Edit(o) ==
    /\ job.at # "idle" /\ life[o] = "open" /\ Free(o) /\ edits < MaxEdits
    /\ \E new \in {Overlay(content[FileOf[o]], 0, <<"edit">>), <<>>} :
          content' = [content EXCEPT ![FileOf[o]] = new]
    /\ edits' = edits + 1
    /\ job' = [job EXCEPT !.alone = FALSE]
    /\ UNCHANGED <<handleVars, keyVars, copies>>

-----------------------------------------------------------------------------
(* The request is measured before a byte moves.                            *)

\* uint64 addition, and the conversion of an offset to int64.
Plus(a, b) == (a + b) % (MaxWord + 1)
int64(w) == IF w > MaxInt THEN w - (MaxWord + 1) ELSE w

\* The bytes of the first chunks, for each number of them.
bytesOf(chunks) ==
    LET sum[n \in 0..Len(chunks)] == IF n = 0 THEN 0 ELSE sum[n - 1] + chunks[n].length
    IN  sum

TotalLength(chunks) == bytesOf(chunks)[Len(chunks)]

withinLimits(chunks) ==
    /\ \A i \in DOMAIN chunks : chunks[i].length \in 1..MaxChunk
    /\ TotalLength(chunks) <= MaxTotal

addressable(ch) ==
    /\ ch.source <= MaxInt /\ ch.target <= MaxInt
    /\ Plus(ch.source, ch.length) <= MaxInt /\ Plus(ch.target, ch.length) <= MaxInt

\* Mutant: only the first chunk is checked against the source.
validateCopyChunks_First(chunks, size) ==
    /\ withinLimits(chunks)
    /\ chunks # <<>> => addressable(chunks[1]) /\ Plus(chunks[1].source, chunks[1].length) <= size

\* The three refusals (limits twice, STATUS_INVALID_VIEW_SIZE) leave the same
\* state and are told apart by no property.
validateCopyChunks(chunks, size) ==
    /\ withinLimits(chunks)
    /\ \A i \in DOMAIN chunks :
          addressable(chunks[i]) /\ Plus(chunks[i].source, chunks[i].length) <= size

\* Mutant: only a source above its target is looked at.
chunksOverlap_Below(chunks) ==
    \E i \in DOMAIN chunks : LET ch == chunks[i] IN
        /\ ch.source > ch.target /\ ch.source < Plus(ch.target, ch.length)

\* A chunk's source range meets its own target range.
chunksOverlap(chunks) ==
    \E i \in DOMAIN chunks : LET ch == chunks[i] IN
        /\ ch.source < Plus(ch.target, ch.length)
        /\ ch.target < Plus(ch.source, ch.length)

\* os.SameFile on both descriptors; a Stat that fails says no.
sameUnderlyingFile(a, b) ==
    life[a] # "closed" /\ life[b] # "closed" /\ FileOf[a] = FileOf[b]

-----------------------------------------------------------------------------
(* FSCTL_SRV_COPYCHUNK and _WRITE, under Open.mu of the target.            *)

\* The answer: status, ChunksWritten, ChunkBytesWritten, TotalBytesWritten.
Answer(j, status, chunks, bytes, total) ==
    [j EXCEPT !.at = "answer", !.status = status, !.whole = chunks, !.part = bytes,
              !.total = total]

Refuse(j) == Answer(j, "refused", 0, 0, 0)

\* handleCopyChunk up to the source's own checks; resolve is where the copy
\* meets the table.  Plain COPYCHUNK wants the target readable as well.
handleCopyChunk(t, key, chunks, needed) ==
    LET s == resolve(key, SessOf[t])
        j == [at |-> "stat", target |-> t, src |-> s, chunks |-> chunks, c |-> 1,
              done |-> 0, num |-> None, buf |-> <<>>, eof |-> FALSE, total |-> 0,
              status |-> "none", whole |-> 0, part |-> 0,
              start |-> content, alone |-> TRUE, fault |-> FALSE]
    IN  /\ job.at = "idle" /\ life[t] = "open" /\ Free(t)
        /\ copies < MaxCopies /\ copies' = copies + 1
        /\ job' = IF needed \subseteq Grants[t] /\ Len(chunks) <= MaxCount
                     /\ s # None /\ "read" \in Grants[IF s = None THEN t ELSE s]
                  THEN j ELSE Refuse(j)
        /\ UNCHANGED <<handleVars, keyVars, content, edits>>

\* Stat of the source, then the limits.
ValidateRequest ==
    /\ job.at = "stat"
    /\ job' = IF /\ life[job.src] # "closed"
                 /\ validateCopyChunks(job.chunks, Len(content[FileOf[job.src]]))
              THEN [job EXCEPT !.at = "compare"] ELSE Refuse(job)
    /\ UNCHANGED <<handleVars, keyVars, content, edits, copies>>

\* The next chunk, or the final answer.
NextChunk(j) ==
    IF j.c <= Len(j.chunks) THEN [j EXCEPT !.at = "kernel", !.done = 0]
    ELSE Answer(j, "success", Len(j.chunks), 0, j.total)

\* The Stats of sameUnderlyingFile come after: the source may be gone by then.
CompareFiles ==
    /\ job.at = "compare"
    /\ job' = IF sameUnderlyingFile(job.src, job.target) /\ chunksOverlap(job.chunks)
              THEN Refuse(job) ELSE NextChunk(job)
    /\ UNCHANGED <<handleVars, keyVars, content, edits, copies>>

chunk == job.chunks[job.c]
left == chunk.length - job.done
readAt == int64(chunk.source) + job.done
writeAt == int64(chunk.target) + job.done

\* The chunk fails with `done` of its bytes written.
Failed(j) == Answer(j, "failed", j.c - 1, j.done, j.total)

\* n more bytes reached the target.
Moved(j, n, at) ==
    LET k == [j EXCEPT !.done = @ + n, !.total = @ + n, !.at = at] IN
    IF k.done = j.chunks[j.c].length THEN NextChunk([k EXCEPT !.c = @ + 1]) ELSE k

putBytes(bytes) ==
    content' = [content EXCEPT ![FileOf[job.target]] = Overlay(@, writeAt, bytes)]

\* src.Fd(): a number, that nothing keeps from being closed; -1 when closed.
KernelDescriptor ==
    /\ job.at = "kernel"
    /\ job' = [job EXCEPT !.at = "syscall",
                          !.num = IF life[job.src] = "closed" THEN None ELSE fd[job.src]]
    /\ UNCHANGED <<handleVars, keyVars, content, edits, copies>>

inKernel == IF job.num = None THEN None ELSE fdTable[job.num]

\* copy_file_range moves at least a byte of whatever the number names now...
copyFileRange ==
    /\ job.at = "syscall" /\ inKernel # None /\ readAt >= 0 /\ writeAt >= 0
    /\ \E n \in 1..left :
          LET bytes == ReadFrom(inKernel, readAt, n) IN
          /\ Len(bytes) = n
          /\ putBytes(bytes)
          /\ job' = Moved(job, n, "kernel")
    /\ UNCHANGED <<handleVars, keyVars, edits, copies>>

\* Mutant: the end of the source is tried again.
KernelDeclines_Retries ==
    /\ job.at = "syscall"
    /\ job' = [job EXCEPT !.at = IF inKernel # None /\ ReadFrom(inKernel, readAt, 1) = <<>>
                                 THEN "kernel" ELSE "fallback"]
    /\ UNCHANGED <<handleVars, keyVars, content, edits, copies>>

\* ...or meets the end of the source, or declines (errCopyRangeUnsupported,
\* always so where there is no such call)...
KernelDeclines ==
    /\ job.at = "syscall"
    /\ job' = [job EXCEPT !.at = "fallback"]
    /\ UNCHANGED <<handleVars, keyVars, content, edits, copies>>

\* ...or fails.
KernelFails ==
    /\ job.at = "syscall"
    /\ job' = Failed([job EXCEPT !.fault = TRUE])
    /\ UNCHANGED <<handleVars, keyVars, content, edits, copies>>

\* ReadAt of one buffer: os.File never reads another file's descriptor.
FallbackRead ==
    LET want == IF left < CopyBuf THEN left ELSE CopyBuf
        bytes == ReadFrom(FileOf[job.src], readAt, want)
    IN  /\ job.at = "fallback"
        /\ job' = IF life[job.src] = "closed" \/ readAt < 0 THEN Failed(job)
                  ELSE [job EXCEPT !.at = "write", !.buf = bytes, !.eof = Len(bytes) < want]
        /\ UNCHANGED <<handleVars, keyVars, content, edits, copies>>

\* WriteAt of what was read; then the read's own error.
FallbackWrite ==
    /\ job.at = "write" /\ writeAt >= 0
    /\ putBytes(job.buf)
    /\ LET k == Moved(job, Len(job.buf), "fallback") IN
       job' = IF job.eof THEN Failed(k) ELSE k
    /\ UNCHANGED <<handleVars, keyVars, edits, copies>>

\* The write stops short: a full disk, or a target offset below zero.
FallbackWriteFails ==
    /\ job.at = "write"
    /\ \E w \in 0..(Len(job.buf) - 1) :
          /\ writeAt < 0 => w = 0
          /\ putBytes(SubSeq(job.buf, 1, w))
          /\ job' = Failed([Moved(job, w, "fallback") EXCEPT !.fault = @ \/ writeAt >= 0])
    /\ UNCHANGED <<handleVars, keyVars, edits, copies>>

\* The response goes out and the lock is dropped.
Respond ==
    /\ job.at = "answer"
    /\ job' = NoJob
    /\ UNCHANGED <<handleVars, keyVars, content, edits, copies>>

-----------------------------------------------------------------------------
copyRange ==
    \/ KernelDescriptor \/ copyFileRange \/ KernelDeclines \/ KernelFails
    \/ FallbackRead \/ FallbackWrite \/ FallbackWriteFails

CopyStep == ValidateRequest \/ CompareFiles \/ copyRange \/ Respond

Next ==
    \/ \E o \in Opens : Create(o) \/ handleResumeKey(o) \/ Edit(o)
    \/ \E o \in Closing : CloseRemoves(o) \/ Claim(o) \/ RetireKey(o) \/ CloseFile(o)
    \/ Teardown
    \/ \E t \in Opens, key \in issued, chunks \in Requests,
          needed \in {{"write"}, {"read", "write"}} : handleCopyChunk(t, key, chunks, needed)
    \/ CopyStep

Spec == Init /\ [][Next]_vars

\* Only the copy itself is scheduled: nothing obliges a client.
FairSpec == Spec /\ WF_vars(CopyStep)

-----------------------------------------------------------------------------
(* What must hold.                                                         *)

\* The two maps of the table are inverse to each other, and a key names a
\* handle of the session it was issued to whose descriptor is still there
\* ("a key never outlives the descriptor it names", copychunk.go): CLOSE and
\* every teardown retire the key before File.Close, and the FSCTL that mints
\* one cannot slip behind them.
KeysNameLiveHandles ==
    /\ \A k \in DOMAIN byKey :
          LET o == byKey[k].open IN
          /\ byKey[k].sess = SessOf[o]
          /\ o \in DOMAIN byOpen /\ byOpen[o] = k
          /\ life[o] \in {"open", "claimed", "removed"}
    /\ \A o \in DOMAIN byOpen : byOpen[o] \in DOMAIN byKey

\* What the request amounts to when each chunk is staged in memory: file t, with
\* n bytes of a chunk taken from file s as it was before the chunk...
placed(files, t, s, f, ch, n) ==
    Overlay(f, ch.target, SubSeq(IF s = t THEN f ELSE files[s], ch.source + 1, ch.source + n))

\* ...after each number of whole chunks...
staged(files, t, s, chunks) ==
    LET after[i \in 0..Len(chunks)] ==
            IF i = 0 THEN files[t]
            ELSE placed(files, t, s, after[i - 1], chunks[i], chunks[i].length)
    IN  after

\* ...and after `whole` of them and `part` bytes of the next.
Reference(files, t, s, chunks, whole, part) ==
    LET f == staged(files, t, s, chunks)[whole] IN
    IF part = 0 THEN f ELSE placed(files, t, s, f, chunks[whole + 1], part)

\* The counts of the answer describe the target exactly: ChunksWritten whole
\* chunks and ChunkBytesWritten bytes of the next one, as if every chunk had
\* been staged, and nothing else; a refused request moved nothing.  So it is
\* when the copy falls back in the middle of a chunk, when the source is closed
\* under it and when a write stops short; not claimed for files others write to
\* meanwhile, nor when the source's descriptor number is reused between Fd()
\* and the system call.
AnswerDescribesTarget ==
    job.at = "answer" /\ job.alone =>
        LET t == FileOf[job.target] IN
        /\ content[t] = IF job.status = "refused" THEN job.start[t]
                        ELSE Reference(job.start, t, FileOf[job.src], job.chunks,
                                       job.whole, job.part)
        /\ job.status = "success" => job.whole = Len(job.chunks) /\ job.total = TotalLength(job.chunks)

\* "Validate every chunk before copying a single byte" (copychunk.go:292): a
\* request that fails half way does so because of what happened to the files or
\* the handle meanwhile, never because of a chunk that could have been refused.
AllOrNothing ==
    job.at = "answer" /\ job.status = "failed" => ~job.alone \/ job.fault

\* The copy loop ends: every request is answered, whatever becomes of the source.
CopyIsAnswered == job.at # "idle" ~> job.at = "idle"

=============================================================================
