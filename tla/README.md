# A TLA+ model of gosamba

gosamba is an SMB2/SMB3 file server in Go. This directory models the parts of it
in which several goroutines, connections or processes meet: TLA+ modules, the
TLC configurations that check them on small instances, and TLAPS proofs of the
properties that matter most for every instance. `PROJECT.json` ties every
definition to the source lines it models.

## 1. Inventory

A server process accepts TCP connections. Each connection has a *read
goroutine*, a bounded *pool* of goroutines that run frames side by side, one
*writer goroutine*, and one goroutine per parked request. Connections meet in
five process-wide tables: share modes, byte-range locks, durable handles, the
session index and the count of parked locks.

| Component | State | Operations | What makes it correct |
|---|---|---|---|
| Share modes (`sharemode.go`, `sharewait.go`) | `byFile`, `owners`, `waiters`, `Connection.sharingWaits` | check, acquire or wait, release, transfer, unwait, the 250 ms wait | incompatible handles are never open together; no reservation leaks; no wake-up is lost; parking never uses up the pool |
| Sessions, trees, handles (`session.go`, `dispatch.go`) | `SessionTable`, `Session.opens`, `trees`, `dead`, `Open.mu` | CREATE, CLOSE, everything that names a FileID, TREE_CONNECT/DISCONNECT, LOGOFF | each handle is disposed of once, by whoever took it out of the map, and never under a request that uses it |
| Session index (`sessionindex.go`) | `byID` | register, unregister, supersede | a reconnecting client's old session is torn down exactly once, from another connection |
| Durable handles (`durable.go`) | `entries` with attached, detached or expired state | Register, Detach, reclaim, Remove, sweep | a detached handle is reclaimed, replaced or expired, never two of these |
| Async requests (`dispatch.go`, `lock.go`) | `asyncTable`, `pendingLockWaits` | CHANGE_NOTIFY, blocking LOCK, CANCEL, cleanup | one final answer per request; a cancel is never lost; nothing outlives its connection |
| Byte-range locks (`lock*.go`) | `rangeTable`, the kernel's OFD locks, the release broadcast | LOCK with several elements, rollback, retry, releaseAll | no conflicting locks; a request is all or nothing; a release is not missed |
| Connection (`conn.go`, `compound.go`) | the pool's slots, `aborted`, the chain of a frame | read, submit, serial SESSION_SETUP, drain, teardown | SESSION_SETUP runs alone; the teardown waits for the frames |
| Writer (`writer.go`) | `q`, `queued`, `closed`, `discard` | send, run, flush, stall, Close | producers never block; the byte count is exact; the last response is flushed |
| Session setup (`session.go`, `negotiator.go`, `ntlm`, `smb2`) | half-open sessions, keys, the preauth chain | NEGOTIATE, type 1, type 3, MIC | nothing is served before authentication; policy for signing and encryption is enforced |
| Workers (`listener.go`, `worker.go`) | the slot count, the process identity | accept, re-exec, drop privileges | a worker runs as one user |
| Server-side copy (`copychunk.go`, `copychunk_linux.go`) | `resumeKeys.byKey`, `byOpen`; the chunk in progress | request key, COPYCHUNK, release, clear | a key never outlives its handle; the counts of an answer are what reached the target; a bad chunk moves nothing |
| Enumeration (`dispatch.go`, `wildcard.go`, `aapl.go`, `vfs/norm.go`) | `dirEntries`, `dirSent`; the cached case probe | QUERY_DIRECTORY, wildcard match, the probe, lookup of a leaf | every entry once, none left out; what is listed can be opened; a listing ends |
| Names and streams (`dispatch.go`, `stream.go`, `xattr.go`, `vfs/path.go`) | `Path`, `LinkPath`, `DeleteOnClose`, the stream buffer | CREATE with its dispositions, rename, disposition, end of file, CLOSE | a CREATE refused before its object is open has made and emptied nothing; a handle moves or deletes its own name only; a read-only share stays as it is |
| Watchers (`inotify`) | watch descriptors, `Events` | New, Watch, Close | no event is sent after Close |
| Codecs, cryptography, configuration, discovery | none, or read-only | | stateless |

Hard behaviours, with their lines, are the `hazards` of `PROJECT.json`: frames
of one connection overtake each other; disposal paths of different connections
race for a handle; state is looked up before a lock and used after it; the
kernel and the table that shadows it change in two steps; a path is resolved anew by
every system call and a descriptor number is reused; select picks at random
between a wake and a deadline; counters are raised before they are compared.

## 2. Modules

| Module | Models | Checked by | Proved in |
|---|---|---|---|
| `ShareModes` | the share-mode table, the wait, the life of a handle around it | `sharemodes*` | `ShareModesProofs` |
| `Handles` | ownership and disposal of handles over sessions, trees, index, durable table, pool and teardown | `handles*` | `HandlesProofs` |
| `AsyncRequests` | `asyncTable`, CHANGE_NOTIFY and blocking LOCK of a connection | `async` | `AsyncRequestsProofs` |
| `ByteRangeLocks` | the byte-range locks of one file, both platforms | `locks` | `ByteRangeLocksProofs` |
| `SessionSetup` | one connection from NEGOTIATE on: selection, handshakes, keys, policy, the worker's hook | `setup` | `SessionSetupProofs` |
| `Transport` | one connection from socket to socket: read loop, pool, compound chains, sealing, writer, teardown | `transport` | `TransportProofs` |
| `Listing` | abstract: what a client that lists a directory is promised | `enumeration` | |
| `Enumeration` | QUERY_DIRECTORY on one handle, the matcher, the case probe, the lookup of a leaf; implements `Listing` | `enumeration` | `DirectoryProofs` |
| `CopyChunk` | resume keys and FSCTL_SRV_COPYCHUNK of one connection | `copychunk` | `CopyChunkProofs` |
| `Namespace` | the names, data and named streams of a directory under several handles | `namespace` | `DirectoryProofs` |

The modules share their seams. `Handles` treats the reservation of a handle as
held or not; `ShareModes` says when it is granted. `AsyncRequests` lets a retried
lock succeed or conflict freely; `ByteRangeLocks` decides it. `Transport` lets a
command succeed, fail, park or drop the connection; the other modules say which.
`Namespace` opens with every share mode and compares names exactly; `ShareModes` and
`Enumeration` have the deny modes and the folding of case.
`MC*` modules only fix constants.

### ShareModes

One element of `Opens` is an `*Open` with the goroutine working on it; `pc` is
where that goroutine stands. `byFile`, `owners`, `waiters` are the fields of
`shareModeTable`; every operation that runs under its mutex (`check`,
`acquireLocked`, `release`, `transfer`, `unwait`) is one operator, used whole in
the action of its caller. An access mask is a set of right names, a share mask a
set of three, and the four read/write/delete/attribute-only flags of an entry
are computed from them as `newShareModeEntry` does. `entryLive` is the fstat of
the entry's descriptor. The channel of a waiter is its membership in `woken`;
the deadline of the wait fires when it likes (`DeadlineFires`).

### Handles

`job` says what every goroutine is doing: pool workers run frames, the read
goroutine of a connection runs SESSION_SETUP (with the pool drained) and the
teardown. `Open.mu` is the `lk` field of the goroutines that hold it. `Owners(o)`
names everybody who has the duty to release `o`: a session map, a release batch,
a goroutine that took it out, the durable table. `unlocked` is a history variable:
it becomes true when a request gets a handle without its lock, which the code
allows for a reclaimed handle only (`HandlerFindsUnlocked`). The ownership
properties hold until then, and `handles` follows a behaviour up to that step;
`UsedHandlesOpen`, which no run lists, fails after it (section 3). So does, in an
instance with three handles on one durable key, the part of `GoneHoldsNothing` about
trees: a CLOSE without its lock that runs while its handle is being registered again
removes the durable entry of another handle, a third handle gets the key, the drop of the
first handle's connection detaches the third's entry, and it expires while a session
still lists its handle. The attempt to prove the property showed this.

### AsyncRequests

One connection. A request goes from its frame (`sent` to `registered`) to its
goroutine (`watching`, or the `subscribe`/`retry`/`select` loop of `awaitLock`).
`regs`, `preCancelled` and the closed `reg.cancel` channels are the table;
`fd` and `mu` the handle. `otherWaits` are the slots other connections hold.

### ByteRangeLocks

`os` is chosen in `Init`. On darwin `tbl` decides; on linux `ofd`, the kernel's
lock on each byte, decides and `tbl` follows in a step of its own. Offsets go up
to `MaxInt` and words up to `MaxWord = 2 * MaxInt + 1`, so lengths wrap as uint64
does. A job is a LOCK request: elements tried one by one, rolled back in two
loops, parked, retried.

### SessionSetup

`conn` is where the read goroutine stands, `job` the frames on the pool, `cfg`
the server's policy, chosen in `Init`. A preauth hash is the list of messages
folded into it and a key the record of what it was derived from, so that client
and server agree exactly if they hashed the same messages and chose the same
length. `told` is what the answer to SESSION_SETUP told the client; a client
protects its messages that way or less (`asTold`), and only refusals of messages
protected as told count in `refused`. A session authenticates once: `handleType1`
always makes a new session, so a client that wants to re-authenticate one cannot,
and a second type 3 on a session that is up is left out.

### Transport

A frame is a chain of members, each with a session, the related flag and the
"previous handle" sentinel; `fr[f]` is the clone of the dispatcher it runs on
(`last`, `status`, `pend` are `LastCreatedFileID`, `lastChainStatus`, `pending`)
and where its goroutine stands, `abort` included. `snd` is the progress of every
goroutine through `connWriter.send`, whose counter, channel and `closed` change in
steps of their own. `reader` walks the read loop and the teardown. The encryption
decision of an answer is taken when the answer is made, from `gotEncrypted` as it
is then. `owed` collects the answers of chains that the socket has not taken; an
answer of a parked request is not owed, since `send` may lose it to the shutdown
(`writer.go:167`). A message is one byte long.

### Listing and Enumeration

`Listing` has four variables and says only what a client can rely on: a batch takes
entries from what is pending, an entry that stayed in the directory is not passed
over, and "no more" is said when nothing that stayed is left. `Enumeration` is the
code: `dirEntries` and `dirSent` are the snapshot and the cursor of the handle, `q`
the QUERY_DIRECTORY in progress (its loop variables `i`, `consumed`, `out` and the
batch), with one step per `ReadDir`, per stat of an entry and per answer; names are
added and removed and the directory is renamed between any two of them. The
refinement mapping takes `pending` to the entries behind the cursor, `given` to the
batches that went out, `over` to the answer NO_MORE_FILES. `steady` is history: the
names that stayed since the scan. A name is a sequence of runes; case folding and
canonical decomposition are functions given as constants, so that an instance has a
rune of each kind (a KELVIN SIGN, a composed letter). `matchSMBPattern` is the
two-pointer loop with its one place to come back to, compared with `Matches`, the
meaning of a pattern; a turn of the loop is `scanStep`, and `scan` takes as many as it can
need. `probe` is the process-wide answer about case, `raced` is
history: the name the probe looked at changed between its two lookups.

### CopyChunk

`life` takes a handle through CREATE, removal or claim, retirement of its key and
File.Close, each under the lock the code holds; `byKey` and `byOpen` are the table.
`job` is the COPYCHUNK in progress, under `Open.mu` of its target only. `fdTable` maps
descriptor numbers to files: `KernelDescriptor` reads the number as `src.Fd()` does,
and by the time of the system call the number may name another file. `alone` is
history: nobody else wrote the files and no number was reused; `fault` that a step
failed for a reason outside the request. Offsets are words up to `MaxWord`, so sums
wrap and `int64` turns negative. `staged` is a copy done chunk by chunk, and byte by byte
within a chunk, on files nobody else touches: what the answer must describe.

### Namespace

`dir` binds names to inodes, `kind`, `data` and `xattr` say what an inode is and
holds. `handle[h]` is the handle with the message it is in (`at`): a CREATE is the
Lstat, the resolution of a link, the switch over the dispositions, the truncation and
the open, each a step, since each resolves the path anew, and last the publication of
the handle (`AddOpenToTree`). A CREATE is `refused` by the checks, by the switch or by
what bears its name when it is opened. It is `withdrawn` after the switch when no
descriptor is left, no FileID can be drawn, `acquireShareMode` finds a conflict, or the
session or tree has gone; which of these happens is a choice here, since `ShareModes` and
`Handles` say when they do. `path` and `link` are `Open.Path` and `Open.LinkPath`.
`made`, `emptied`, `own` and `lost` are history. A stream handle
buffers its stream and stores it, or removes it, at CLOSE. `evalSymlinks` is external.

## 3. Runs

| Run | Instance | Shows |
|---|---|---|
| `sharemodes` | 3 CREATEs, 2 connections, 1 file, parking cap 1 | no missed wake and no abandoned waiter (`WaitersAccounted`), exact and bounded parking, and every CREATE is answered |
| `sharemodes_durable` | 3 handles, 2 files, durable | compatible handles only, indexes agree, no leaked reservation |
| `handles` | 2 connections, 2 workers, 2 files, one durable key | one owner, no use after close, what is gone (dead session, closed connection, disconnected tree) holds nothing, the durable table and the handles agree |
| `handles_live` | 1 worker, 1 file, 1 directory | teardown and supersession come to an end |
| `async` | 1 watch, 1 lock, process cap 1 | one final answer; a waiter is within reach of an early cancel and of the close of its handle (`WaitersReachable`); no close under a retry; nothing outlives the connection; every LOCK is answered |
| `locks` | 2 handles, a 2-byte file, 7 requests | no conflicting locks, all-or-nothing, no missed release (darwin) |
| `setup` | 2 sessions, 2 frames at a time, 3 users, 5 offers, every policy | keys agree, clients that protect messages as told are served, a worker serves only its user |
| `transport` | 2 frames (5 kinds of chain), pool of 2, a queue of 1 frame and 3 bytes | the backlog count is exact and bounded, owed answers are written, a chain closes its own handle, answers are sealed as their request was, and a dropped connection is torn down |
| `enumeration` | a directory of up to 3 names, 2 scans, 2 changes, 5 requests | the snapshot holds what the pattern means, what is listed can be opened, the enumeration implements `Listing`, and a client that keeps asking comes to the end |
| `copychunk` | 4 handles of 2 sessions, 3 files, 3 descriptor numbers, 2 keys, 1 copy of up to 2 chunks (a request of 3 is refused for its count), 1 edit | keys name live handles, the answer describes the target, one bad chunk moves nothing, every copy is answered |
| `namespace` | 3 handles (one on a read-only export), a file, a link to it and a free name, 2 SET_INFOs or WRITEs, 11 CREATEs | a refused CREATE has made and emptied nothing and a withdrawn one leaves what it made under its name, paths follow the handle through its renames, only the own name is moved or deleted, a read-only share is left alone |

Bounds. Two connections are needed for supersession, and three handles on a file
for a release that wakes one waiter and conflicts with another; two files for a
key to be reused. A cap of 1 makes the cap, the slot below it and the first
refusal all happen. Two sessions are needed for handshakes that interleave. A two-byte file has a range that ends inside it, one that
ends at its last byte and one whose end wraps; overlap of ranges depends on
nothing else. A queue of one frame and three bytes makes both refusals happen, of
the frame and of the bytes, also for a chain of three answers. Two scans let a listing be
restarted in the middle, and two changes let an entry vanish between the scan and the
encode and another come back; a buffer for a dot, one for two records and one for
everything make each of the ways a batch can end happen. In `copychunk` three numbers
for four handles make a number be reused; changes by others are made only while a copy
runs, because nothing looks at the contents before. In `namespace` a third name is
needed for a rename beside a file and its link. `copychunk` and `namespace` do not check
deadlock: each handle has one life and the instance stops when all are over. A passing
ASSUME of `MCEnumeration` compares the matcher with the meaning of a pattern for every
pattern of up to three runes and every name of up to three. Symmetry is used
only in safety runs, over sets that no definition tells apart.

One run documents where the code does something else than its comment says; it is
expected to fail, and `findings` quotes the comment: in `sharemodes_reclaim_window` a
reclaim closes the saved descriptor long before it transfers the reservation, and a
CREATE in between sweeps it as dead.

Three more formulas that a comment claims are stated in the modules and do not hold
there; to see the counterexample, list the formula as an invariant of the run named
(for `handles`, without its CONSTRAINT).

| Formula | Run | What happens |
|---|---|---|
| `ShareModes!RefusedCreateDestroysNothing` | `sharemodes` | a truncating CREATE passes the pre-check, empties the file and is then refused (`dispatch.go:1211`, against `1189-1191`) |
| `Handles!UsedHandlesOpen` | `handles` | a message whose FileID is published between the lock lookup and the handler runs without `Open.mu` (`dispatch.go:583`, against `572-574`) |
| `ByteRangeLocks!ShadowCoversKernel` | `locks` | the kernel frees a range before the table does; a lock granted in between is never recorded (`lock_linux.go:96`, against `18-20`) |

Checked along the way, without a run of their own: a reclaim that resolved its tree
before a TREE_DISCONNECT publishes the handle with `AddOpen`, on a tree that is gone
(`durable.go:635`, against the comment at `session.go:324-328`), so that
`GoneHoldsNothing` speaks of created handles where it speaks of trees; a frame of another pool
worker that arrives encrypted while a cleartext chain runs flips the encryption
decision between two members, and the chain is answered in two frames instead of
the "one compounded frame" of `conn.go:423`; the answer to a SESSION_SETUP inside a
chain leaves ahead of the answers of the members before it; the handle limit is read long
before the map is extended (`dispatch.go:947`), so as many CREATEs as the pool
has workers pass it together; a related CLOSE of another session uses up
the handle the chain opened without closing it (`dispatch.go:471-480`); a durable *directory* stays attached when its
connection drops, because `releaseConnOpens` skips handles without a descriptor
before it comes to `Detach` (`conn.go:236`); a session superseded while it
authenticates again is put back into the index (`session.go:794`);
`releaseOpens` completes the registered requests before it takes `Open.mu`, and a
CHANGE_NOTIFY or LOCK whose frame holds that lock registers afterwards, on a
handle that is gone (`dispatch.go:837`); a LOCK request that unlocks one range and locks
another is accepted, and when the second part fails, another handle may have taken the
first range before the rollback puts it back (`lock.go:245`, against "restored to exactly
what it was before the request" at `lock.go:99-101`; add such a request to the instance of
`locks` and `RequestIsAtomic` fails on darwin); two parked LOCKs of one handle retry under the *shared* lock, and the rollback of
one unlocks what the other was just granted (`lock.go:245`); on linux `releaseAll`
wakes the waiters before `File.Close` frees the kernel's locks, so a waiter can
sleep until its timeout on a free range (`lock_linux.go:103`, against
`lock.go:311-313`); `WaitersAccounted` fails with durable handles, since the sweep of
a dead share-mode entry wakes nobody; cancels of completed requests stay in
`preCancelled`.

Of names: nothing after the switch over the dispositions takes back what it did. A CREATE
that is refused for want of a descriptor (`dispatch.go:1377-1396`), of a FileID (`1399-1405`),
for a sharing conflict (`1416-1428`), or because its session was torn down or its tree
disconnected meanwhile (`1448-1470`: `releaseOpen`, STATUS_USER_SESSION_DELETED), leaves the
file or directory it made on disk, and the file it overwrote empty; with DELETE_ON_CLOSE
nobody deletes it, since the handle never reaches CLOSE. The comments promise otherwise
only of a wrong type (`1150-1155`) and of a sharing conflict (`1189-1196`; the second is the
first row of the table above).
`LeftOnlyWhenWithdrawn` says that these refusals are the only ones that leave anything.
`os.Truncate` in CREATE follows a link that was renamed onto the name after
the Lstat, though the descriptor that is opened next would refuse it
(`dispatch.go:1277`, against `2110-2113`); a rename without ReplaceIfExists tests the
destination in a step before the rename; a handle's path goes stale when another handle
renames the file, and DELETE_ON_CLOSE or the flush of a stream then acts on whatever
bears the name (`OwnNameOnly` and `PathsFollowHandle` are claimed until then). A stream
handle that only read its stream stores it again at CLOSE, so that an older copy
overwrites a newer one or brings a removed stream back, on a read-only share too
(`dispatch.go:2230`, against `stream.go:83-85`; `ReadOnlyShareUnchanged` is about names
and data); setting the end of file of a fabricated AFP_AfpInfo does not store it;
DELETE_ON_CLOSE of a stream's CREATE is ignored.

Of listings: the continuation of an enumeration whose filter matched nothing is answered
NO_SUCH_FILE again, where the comment at `dispatch.go:2472-2473` speaks of NO_MORE_FILES; the
case probe of a read-only share can be raced by a rename of the very entry it looks at,
and the answer is kept for the life of the process (`aapl.go:453-464`, `raced`). A J with a
caron, which has no composed capital, is folded by the resolver after composition and by
the matcher rune by rune, so that one finds what the other does not; no rune of the
instance is of that kind.

Of copies: nothing locks the source, and `copyFileRange` takes its descriptor's *number*:
when a CLOSE and a CREATE come between `Fd()` and the system call, bytes of the other file
are copied (`copychunk_linux.go:34`; `AnswerDescribesTarget` is claimed while `alone`
holds). COPYCHUNK does not consult byte-range locks, as READ and WRITE do.

## 4. Fairness

Goroutines are scheduled by the Go runtime, so a step that stays possible is
taken (weak fairness). Timers fire: the 250 ms deadline of a parked CREATE and
the timeout of a parked LOCK. Strong fairness is assumed in two places: a
`sync.RWMutex` lets a waiting writer in although readers come and go, and a
`select` picks at random among the ready cases, so a timer that is ready again
and again is heard. No fairness is assumed of clients: they may stop at any
point, except that the message chain of one frame is finite, and that `ListingEnds`
speaks of a client that goes on asking for its listing, now and then with a buffer that
takes a record (strong fairness of `AskOn`: restarts and refusals come in between). In
`CopyChunk` only the goroutine of the copy is fair; handles may be closed or not. In `Transport` a read
is bound to end only when its deadline has passed or the socket is closed, and a
write only when the socket is closed; the peer need neither send nor read.

## 5. Proofs

`ShareModesProofs` proves, for every set of handles, files, connections and
requests, from `ConstantsOK` alone:

- `TypeCorrect`: `TypeOK`;
- `AdmissionSafe`: handles admitted on one file never violate each other's deny
  mode;
- `IndexesAlwaysAgree`, `NoLeak`: the two indexes agree, and every reservation
  has a handle that will release it;
- `ParkingSafe`: the count of parked CREATEs is exact and at most the cap;
- `WaitersStillWait`: no registration outlives its wait (`NoAbandonedWaiter`);
- `NoWakeMissed`: `WaitersAccounted`, where no handle is durable (`DurableOpens = {}`, as in
  the instance of `sharemodes`; section 3 says why the hypothesis is needed).

The argument is an inductive invariant, `IInv == TypeInv /\ TableInv /\ CompatInv
/\ PhaseInv /\ SavedInv`. Compatibility of the *admitted handles* is not inductive:
a handle could be admitted without an entry in the table, or have the entry of
another. `TableInv` says that entries and owners match one to one, `PhaseInv`
which phases hold a reservation, with which key and an open descriptor (so that
the sweep spares it), `SavedInv` how a reclaim pairs the new handle with the old
one, and `CompatInv` compatibility of the *entries*. Lemmas say once what
`release`, `acquireLocked` and `transfer` preserve; each action then cites one of
them. `CountInv`, proved on top of `IInv`, carries the counters. `WaitInv`, also on top,
says that a registered or woken CREATE still waits and is never both, so that one that leaves
its `select` woken leaves no registration behind. For `NoMissedWake` the point is that only a release,
which ends all waits on its file, takes an entry out: `AllLive` shows that without durable
handles (`PlainInv`) every entry's descriptor is open on its file, so that the sweep of
`acquireLocked` removes nothing.

`ByteRangeLocksProofs` proves, for every word width, set of handles and set of
requests, from `LockConstants`:

- `OverlapIsSharedByte`: `rangesOverlap` is true exactly of ranges with a common
  byte, ends that wrap included;
- `FlockRangeIsBytes`: what `flockRange` hands the kernel names exactly the bytes
  of the range;
- `LockTypes`, `NoConflictEver`: `TypeOK`, and no two handles hold conflicting
  locks, on either platform;
- `ReleaseNeverMissed`: `NoMissedRelease`;
- `RequestsAtomic`: `RequestIsAtomic`, of `Orderly` clients: they ask for ranges clear of
  what they hold, repeat or separate the ranges of one request, do not mix locks and
  unlocks in it and have one LOCK of a handle under way. The server checks none of this
  (section 3 says what happens otherwise); the instance of `locks` meets it.

`TypeOK` is not inductive alone: an entry of the table is a `lockRange` (not empty,
not past the last offset) only because the element it came from passed
`decodeLockOps`. `JobInv` says that of every element a request carries, and that
the index stays within the request while an element is tried. `IInv == TypeOK /\ JobInv /\
NoConflictingLocks` is then preserved by one lemma about `applyStep` and one about
the table, which the actions cite. `WaitInv`, on top of it, is about a job from the moment
it takes its release channel: unless it was woken, what made its attempt fail is still in
the table (`Waits`), because every set of ranges that shrinks wakes all subscribers
(`Alerts`); that needs finite tables, since the code compares sizes. `AtomInv` follows a request
through its attempt and its rollback: the elements behind it are held (`Got`), and on
darwin the table is the snapshot and what the attempt added, then less and less of it, then
the snapshot again (`Back`); an unlock of the rollback hits no range of the snapshot, since
equal bounds overlap and the client keeps clear of what it holds (`Fits`). TLC checked
`AtomInv` on the instance of `locks` before it was proved.

`CopyChunkProofs` proves, for every set of handles, sessions, keys and requests, from
`CopyConstants` alone:

- `KeysSafe`: `KeysNameLiveHandles`;
- `FailsOnlyForCause`: `AllOrNothing`;
- `AnswersDescribe`: `AnswerDescribesTarget`.

For the first, `IInv == LifeInv /\ TableInv /\ KeysNameLiveHandles`: the property is not
inductive, since a fresh key could collide with one in the table (`TableInv`: keys in the
table were minted) and a handle's entry could lead to a key of another handle, whose release
would then take the wrong one away (`TableInv`: each handle's key leads back to it). One
lemma says what `release` takes out, one what `mint` puts in; the actions cite them.

For the second, `CopyInv == FilesInv /\ Sound(job, content, life)` follows a copy from its
checks to its answer. The chunks that were validated do not wrap and lie within the source
(`Checked`, `Enough`) as long as nobody else changed it (`alone`), because a write of the
copy itself (`Overlay`) never shortens a file; the loop stands inside its current chunk
(`Within`); so the read meets the end of the file only when somebody else was at work, and a
source that is closed under the copy is a `fault` of its own. It rests on `MaxChunk <= MaxInt`
(1 MiB against 2^63 - 1): a chunk that could wrap the sum would pass the check.

For the third, `TargetInv == DescriptorInv /\ Faithful(job, content, life, fdTable)` is added to
the other two. While nobody else writes and no number is reused (`alone`) the target *is* the
staged file: `AsStaged` says that it is what the finished chunks make of `job.start`, with
`job.done` bytes of the current one (`Along`), and that `job.total` is the sum of what went in.
Every way of copying (the kernel's, `pread`/`pwrite`, with short counts) then comes to the same
lemma, `CopyIsStaged`: n more bytes of the source written behind the first d are d + n bytes of
the staged chunk. Of one file copied into itself this needs source and target apart (`Apart`,
which `CompareFiles` decides), unless the source is closed, from where on nothing more is copied
(`Barren`). That the kernel copies from the right file while `alone` rests on `DescriptorInv`: a
number names the file of the handle that holds it, and no two handles hold the same.

`DirectoryProofs` is about the two modules of a directory. Of its names it proves, for every
directory, set of handles and set of requests, from `NamespaceConstants`:

- `ReadOnlyHolds`: the action property `ReadOnlyShareUnchanged`;
- `RefusalsAccounted`: `LeftOnlyWhenWithdrawn`, of refusals at whatever step and of CREATEs
  that are withdrawn late; `RemovesItsOwn`: the action property `OwnNameOnly`;
- `PathsNameTheFile`: `PathsFollowHandle`, of a directory that starts without hard links
  (`NoHardLinks`): between two names of one object `rename(2)` does nothing, and the server
  then notes the new path although the file still has the old one.

The refusal of a read-only share stands in CREATE and the change would happen many steps
later, in the switch over the dispositions or at CLOSE, so `ReadOnlyInv` carries it there:
a handle of such a share that got past CREATE asked for an open of what is there, has no
DELETE_ON_CLOSE pending and is in no rename (`Harmless`). One lemma each for CREATE, use
and CLOSE preserves it, and `HarmlessChangesNothing` draws the conclusion. The other three
rest on `NameInv`, which says of each handle (`Good`) what its record looks like in each
phase (`Shaped`), that its name is bound to the object it was opened by unless others
rebound it (`Bound`), which paths it has (`Traced`), and that what it found is no link and
what it made or emptied is there to be opened (`Made`): so a truncation by path empties the
file that is opened next, and an open that fails had its name taken away; `FileInv` adds that no object has two names and that a path is kept.

Of its listings it proves, for every set of names, patterns, requests and foldings, from
`EnumerationConstants`:

- `MatcherIsCorrect`: `matchSMBPattern` says of every pattern and name what `Matches` says;
- `SnapshotsMatch`: `EntriesMatch`;
- `ListingIsPromised`: the refinement `ImplementsListing`: every step of `Enumeration` is one of
  `Listing` or none;
- `ListedNamesResolve`: `ListedIsResolvable`, where `FoldsAgree`: names that fold alike rune by
  rune fold alike after composition. MCEnumeration asserts it of the instance. Of Unicode it
  is true but for a few runes, which the code does not treat either: U+0345 folds to iota, but
  composes with the letter before it.

The matcher keeps one place to come back to, and the argument is that this one is enough.
`ScanMeans` holds of every turn of the loop: the pattern matches the name exactly if what is
left of both matches, or if what follows the last star matches further on (`StillOpen`). When
a new star replaces the old one, whatever the old one could still have reached the new one
reaches too (`SuffixShift`: between the two, pattern and name advance together).
`progress` grows with every turn and is bounded, so that `Turns` are enough.
`EnumInv == ProbeInv /\ SnapshotInv /\ QueryInv` is about the handle: a snapshot has no entry twice and what is `steady` is in it, what the
client got lies before the cursor, and what a request has consumed either goes out with its
answer or has vanished (`QueryInv`). The refinement needs the first (a batch takes nothing
that was given before) and the last (nothing that stayed is passed over); each action is one
of the four kinds of step of a listing (`ListStep`) or changes none of its variables.

`HandlesProofs` proves, for every number of connections, workers, sessions, trees, handles
and durable keys, from `ConstantsOK` alone:

- `HandlesOwnedOnce`, `UsedWhileOpen`: `OneOwner` and `NoUseAfterClose`;
- `TornDownIsEmpty`: `GoneHoldsNothing`;
- `DurableFilesMatch`: the durable table and the handles agree, but for directories, which
  the teardown leaves attached (section 3); `DurableTableMatches` is
  `DurableEntriesMatchHandles` itself under the hypothesis `Dirs = {}`, which the
  instance of `handles` meets;
- `TypeCorrect`: `TypeOK`.

The invariant is `Inv == SessInv /\ (unlocked \/ (HandleInv /\ CreatedOnConnectedTree))`.
`SessInv` holds always. Its `Rows` say what a goroutine carries in each phase, and `Tracked`
where a session that still lists handles is known from: its connection's table, or a
superseding connection about to take them. Without `Tracked` a session that left the table
could keep its handles and its identity be given out again. `HandleInv` holds until a request gets
a handle without its lock, and has six parts. `OwnedOnce` is the property, as pairwise
exclusion of the three kinds of owner. It is not inductive: `Locking` is what makes a
release wait for a request that uses the handle; `Apart` says that nobody else has in hand
a handle that is not published, that is parked in the durable table, or that a teardown
took, since these change hands without their lock; `KeysMatch` that the entry under a
handle's key is its own, so that a dispose removes no other handle's entry; `Holdings` that
what holds a descriptor is owned and what is owned holds one; `InUse` that a handle in use
is listed or waits in a batch. TLC checked `Inv` on the instance of `handles` and on one
with a directory before it was proved. The proof does not look into `job'` more than once
per action: `Goes` gives what a goroutine becomes field by field, each of the 42 actions is
shown to be one of seventeen kinds of step, and each kind is shown to preserve each part.

`AsyncRequestsProofs` proves, for every set of requests and handles and every cap, from
`AsyncConstants` alone:

- `RequestsAnsweredOnce`: `OneFinalAnswer`;
- `RetriesKeepTheirDescriptor`: the action property `NoCloseUnderRetry`;
- `WaitersWithinReach`: `WaitersReachable`, if `preCancelled` has room for the requests of the
  connection (`Room`). The hypothesis is needed: a cancel that comes after its request was
  answered is remembered and stays, so that `MaxPreCancelled` of them fill the set and an early
  cancel is then lost. `CloseIsHeard` is the part about the close of a handle, without it;
- `ParkedLocksBounded`: the LOCKs that park, on all connections, never exceed the cap,
  although the counter itself may for a moment; `TypeCorrect`.

`Inv` relates four places a request shows in: the phase of its goroutine, the table, the
closed cancel channel and what was answered. `Answers` says in which phases the final
answer is out, `Registered` in which the table has the request, `MuHeld` who has the handle's
lock, `FramesDrained` that a teardown past its drain has no frame left, and
`TakenIsCancelled` that what a CLOSE took out of the table was told. A completion is answered
by whoever removed the request from the table: that is why `OneFinalAnswer` needs
`Registered`. `CancelKept` and `Counts` are proved on top.

`SessionSetupProofs` proves, for every set of sessions, users, offers and frames and every
policy, from `SetupConstants` alone:

- `SameKeys`: `KeysAgree`; `ConformingServed`: `ConformingClientServed`;
- `RunsAsOwner`: `ServedAsOwner`;
- `NewestDialectSelected`: `Select` settles for no older dialect than it must; `TypeCorrect`.

`KeyInv` follows the list of hashed messages from NEGOTIATE (`Negotiated`) through the
half-open sessions (`HalfOpenChains`: client and server have folded in the same messages)
to the keys (`SessionKeys`), what the client was told (`ToldOfSession`) and the frames in
flight (`FramesConform`: each is protected as told or is the fault of its sender).
`FramesWithinLoop` says that frames run only while the loop serves. `PrivInv` is about the worker: after the
drop every authenticated session that a message is executed for belongs to the process's
user.

`TransportProofs` proves, for every peer, set of sessions, size of the pool and bounds of the
queue, from `TransportConstants`:

- `OwedDelivered`: `OwedAnswersDelivered`;
- `SealedLikeItsRequest`: `AnswersStaySealed`;
- `ChainLeavesNoHandle`: `ChainClosesItsHandle`, of `ChainsOfOneSession`: peers that close the
  handles of a chain in the session that opened them. The server does not ask for it. A related
  CLOSE of a second session gets the FileID of the first one's handle, does not find it there,
  and has used up `LastCreatedFileID` all the same, so that the CLOSE that was to follow is
  answered with the inherited error and the handle stays (TLC shows it on the chain CREATE,
  CLOSE of another session, CLOSE). The instance of `transport` meets the hypothesis;
- `BacklogStaysBounded`: `BacklogBounded`; `TypeCorrect`: `TypeOK`.

`DeliveryInv == Types /\ LoopInv /\ ShutInv /\ OwedInv` is about the first. An answer that is
owed is in one of four places until the socket has it (`OnItsWay`): with its chain, with the
sender, in the queue, in the writer's hand. What could lose it is a `send` that finds the writer
closed; before the reader has drained the pool only a stall or a failed write closes it, and both
set `discard` first (`ShutInv`), and after the drain no frame is left to send (`LoopInv`).
`SealInv` carries the sealing through the first three of them, from the moment `gotEncrypted` is
set, before the frame runs; that `group` finds a uniform prefix needs the least-number principle.
`ChainInv` is a loop invariant of the walk (`Tracked`): a handle with no later CREATE is the one
`LastCreatedFileID` names. Each of the 44 actions is shown to be of one of twelve kinds of
step, and the kinds to preserve the first two. TLC checked all three invariants on the instance
of `transport` before they were proved.

`QueueInv` is the fourth. That the count is exact is inductive by itself, but that the queue
stays within the budget is not: what is in the queue *and* what the senders at the select may
still put there is (`carried(snd, {"put"})`), because a sender compares the count after it has
added its own bytes, and the count covers all of them. A parked request answers once, so that
its sender is free when it does (`ParkInv`). The lemmas about `total` say what a sum becomes
when one weight changes, when one is appended and when the first is taken off. `Types` is what
the other proofs need of `TypeOK`; the rest, `queued \in Nat` among it, follows from
`QueueInv` and `RestTyped`.

What a recursive function computes (`scan`, `only`, `staged`, `bytesOf`, `sums`) is proved by
induction over its places. The library's induction theorems take an operator as a parameter, which
the provers cannot instantiate; `LeastElement` (from the well-founded order of the naturals) and
`Induction` say the same of a *set* of naturals, so that the hypothesis is a set
and not an operator. That such a function exists is proved the same way, one place at a time.

Only model-checked: liveness (`CreateIsAnswered`, `ListingEnds`, `ConnectionIsTornDown` and the other
temporal properties of the runs), since the prover handles neither fairness nor ENABLED. Every
invariant and action property of a passing run is stated by a theorem, some of them under a
hypothesis on the constants that the list above names.

## 6. Plan

1. `Workers` (slots and re-exec, the supplementary groups) and `Watcher` (Close against
   Watch, the snapshots of the kqueue backend).
2. Algorithms as operators against a reference: containment of paths with several
   components (`ResolveSecure`), configuration precedence, `grantCredits` (stateless, with
   its bounds as a theorem).
3. Proofs: an abstract lock manager that `ByteRangeLocks` on darwin implements.

## 7. Not modelled

Byte layouts (`smb2` codecs, NetBIOS framing, security descriptors, srvsvc,
mDNS), cryptographic primitives, logging, and what the file system reports.
Named streams and pipes own nothing outside the process's memory and do not
appear in `Handles`; the life of a stream handle is in `Namespace`, the listing of
streams and of extended attributes is not modelled. The contents of files are modelled
in `CopyChunk` byte by byte and in `Namespace` as old, new or empty; elsewhere only that
a file was truncated. Times, permissions and quotas are not modelled. Paths of the
`Namespace` instance have one component and links stay inside the share, so containment
is not checked. Watchers, workers, configuration and credits are in the plan.
