------------------------------ MODULE Namespace ------------------------------
(***************************************************************************)
(* What handles do to the names, the data and the named streams of a share *)
(* (handleCreate, handleSetInfo, handleWrite and handleClose in            *)
(* dispatch.go, stream.go, xattr.go, path.go).                             *)
(*                                                                         *)
(* A handle keeps PATHS: the path of its file, and the path of the symlink *)
(* it came through.  Every system call resolves a path anew, so another    *)
(* handle can rename, replace or delete what a path names between any two  *)
(* of them.  Each handle is one client that creates, uses and closes it;   *)
(* its messages are serialised by Open.mu, the handles are not.            *)
(*                                                                         *)
(* One directory.  Whether a deny mode of ShareModes, or a session or tree *)
(* that is gone (Handles), refuses a CREATE is a choice here.  Names are   *)
(* compared exactly (Enumeration has the folding), links stay inside the   *)
(* share, and no permission is missing.                                    *)
(***************************************************************************)
EXTENDS Integers, FiniteSets, Functions

CONSTANTS
    Handles,     \* *Open values, each with one life
    ReadOnly,    \* the ones on a share that is exported read-only
    Names,       \* the names of the directory
    Inodes,      \* what they can be bound to
    Streams,     \* stream names
    Afp,         \* AFP_AfpInfo
    Requests,    \* the CREATEs clients send
    FirstDir,    \* the directory at first
    FirstKind,   \* and its objects
    PointsTo,    \* the name each symlink holds
    MaxOps,      \* bound: SET_INFOs and WRITEs
    None

ASSUME NamespaceConstants ==
    /\ ReadOnly \subseteq Handles /\ Afp \in Streams
    /\ None \notin Names \cup Inodes /\ IsFiniteSet(Names)
    /\ \A q \in Requests : q.name \in Names
    /\ FirstDir \in [Names -> Inodes \cup {None}]
    /\ FirstKind \in [Inodes -> {"free", "file", "dir", "link"}]
    /\ PointsTo \in [Inodes -> Names \cup {None}]
    /\ \A n \in Names : FirstDir[n] # None => FirstKind[FirstDir[n]] # "free"
    /\ MaxOps \in Nat

VARIABLES
    dir,      \* the directory
    kind,     \* what each inode is
    data,     \* its contents: "first", "new" or "empty"
    xattr,    \* its streams
    handle,   \* the handles and where their current message stands
    ops       \* SET_INFOs and WRITEs so far

vars == <<dir, kind, data, xattr, handle, ops>>
shareVars == <<dir, kind, data, xattr>>

Absent == "absent"
Values == {Absent, "empty", "synth", "first", "new"}

\* An Open, with the request that made it.  made, emptied, own and lost are
\* history: the inode CREATE brought about, whether it truncated one, the inode
\* the handle's name was bound to, and the names of this handle that others have
\* rebound since it looked at them.
Fresh == [at |-> "idle", req |-> None, path |-> None, link |-> None, ino |-> None,
          isDir |-> FALSE, exists |-> FALSE, doc |-> FALSE, dest |-> None,
          buf |-> Absent, written |-> FALSE, synthetic |-> FALSE,
          made |-> None, emptied |-> FALSE, own |-> None, lost |-> {}]

Init ==
    /\ dir = FirstDir /\ kind = FirstKind
    /\ data = [i \in Inodes |-> "first"]
    /\ xattr = [i \in Inodes |-> [s \in Streams |-> IF s = Afp THEN Absent ELSE "first"]]
    /\ handle = [h \in Handles |-> Fresh]
    /\ ops = 0

-----------------------------------------------------------------------------
(* The file system (external): one call is one step.                       *)

kindAt(n) == IF dir[n] = None THEN "none" ELSE kind[dir[n]]

\* EvalSymlinks: a chain of symlinks that starts at n ends at m.
evalSymlinks(n, m) ==
    /\ kindAt(m) \notin {"none", "link"}
    /\ \E hops \in 0..Cardinality(Names) : \E chain \in [0..hops -> Names] :
          /\ chain[0] = n /\ chain[hops] = m
          /\ \A i \in 0..(hops - 1) :
                kindAt(chain[i]) = "link" /\ PointsTo[dir[chain[i]]] = chain[i + 1]

\* The name at the end of the chain, None when it dangles or never ends.
Follow(n) ==
    IF \E m \in Names : evalSymlinks(n, m) THEN CHOOSE m \in Names : evalSymlinks(n, m)
    ELSE None

\* The directory changes by a step of h, which goes on as r: the handles of
\* others may have lost a name.
Rebind(h, newDir, r) ==
    /\ dir' = newDir
    /\ handle' = [k \in Handles |->
                    IF k = h THEN r
                    ELSE [handle[k] EXCEPT !.lost =
                            @ \cup {n \in {handle[k].path, handle[k].link} \ {None} :
                                        newDir[n] # dir[n]}]]

Become(h, r) == handle' = [handle EXCEPT ![h] = r]

-----------------------------------------------------------------------------
(* CREATE.                                                                 *)

Refuse(r) == [r EXCEPT !.at = "refused"]

\* Refused after the disposition was carried out.  What it made stays.
Withdraw(r) == [r EXCEPT !.at = "withdrawn"]

\* Mutant: the file is taken for the name.
namePath_Target(r) == r.path

\* Open.namePath: the link, when the handle came through one.
namePath(r) == IF r.link # None THEN r.link ELSE r.path

\* Mutant: DELETE_ON_CLOSE is not looked at.
mutates_NotOnClose(q) == q.disp # "open" \/ q.write

\* What a read-only share refuses at CREATE.
mutates(q) == q.disp # "open" \/ q.write \/ q.doc

\* A stream's CREATE has no use for DELETE_ON_CLOSE and does not look at it.
streamMutates(q) == q.disp # "open" \/ q.write

handleCreate(h, q) ==
    LET r == [handle[h] EXCEPT !.req = q, !.doc = q.doc /\ q.stream = None,
                               !.at = IF q.stream = None THEN "lstat" ELSE "base"]
        denied == IF q.stream = None THEN mutates(q) ELSE streamMutates(q)
    IN  /\ handle[h].at = "idle"
        /\ Become(h, IF h \in ReadOnly /\ denied THEN Refuse(r) ELSE r)
        /\ UNCHANGED <<shareVars, ops>>

\* ResolveSecureNorm and the Lstat after it.
LstatName(h) ==
    LET r == handle[h]
        n == r.req.name
    IN  /\ r.at = "lstat"
        /\ Become(h,
             IF kindAt(n) = "link" /\ Follow(n) = None THEN Refuse(r)
             ELSE IF kindAt(n) = "link"
                  THEN [r EXCEPT !.at = "follow", !.exists = TRUE, !.link = n, !.own = dir[n]]
             ELSE [r EXCEPT !.at = "dispose", !.exists = dir[n] # None, !.path = n,
                            !.isDir = kindAt(n) = "dir", !.own = dir[n]])
        /\ UNCHANGED <<shareVars, ops>>

\* vfs.ResolveLink.
ResolveLink(h) ==
    LET r == handle[h] IN
    /\ r.at = "follow"
    /\ Become(h, IF Follow(r.link) = None THEN Refuse(r)
                 ELSE [r EXCEPT !.at = "lstatTarget", !.path = Follow(r.link)])
    /\ UNCHANGED <<shareVars, ops>>

LstatTarget(h) ==
    LET r == handle[h] IN
    /\ r.at = "lstatTarget"
    /\ Become(h, IF dir[r.path] = None THEN Refuse(r)
                 ELSE [r EXCEPT !.at = "dispose", !.isDir = kindAt(r.path) = "dir"])
    /\ UNCHANGED <<shareVars, ops>>

\* OVERWRITE, OVERWRITE_IF and SUPERSEDE; the last two differ in the answer only.
truncatingDisposition(disp) == disp \in {"overwrite", "overwriteif"}

\* The request asks for a type the object has not, or no object can have.
typeRefused(r) ==
    \/ r.req.want = {"dir", "file"}
    \/ "dir" \in r.req.want /\ truncatingDisposition(r.req.disp)
    \/ /\ r.exists /\ r.req.disp # "create"
       /\ ("dir" \in r.req.want /\ ~r.isDir) \/ ("file" \in r.req.want /\ r.isDir)

\* The share-access check that comes before a file is emptied may refuse.
mayConflict(r) == truncatingDisposition(r.req.disp) /\ r.exists /\ ~r.isDir

\* The disposition and what is there disagree.
dispositionRefused(r) ==
    \/ r.req.disp \in {"open", "overwrite"} /\ ~r.exists
    \/ r.req.disp = "create" /\ r.exists

\* Mkdir, or OpenFile with O_CREATE (and O_EXCL for FILE_CREATE).
MakeObject(h, r, t, next) ==
    LET new == CHOOSE i \in Inodes : kind[i] = "free"
        found == kindAt(r.path)
    IN  IF found = "none"
        THEN /\ \E i \in Inodes : kind[i] = "free"
             /\ kind' = [kind EXCEPT ![new] = t]
             /\ data' = [data EXCEPT ![new] = "empty"]
             /\ xattr' = [xattr EXCEPT ![new] = [s \in Streams |-> Absent]]
             /\ Rebind(h, [dir EXCEPT ![r.path] = new],
                       [r EXCEPT !.at = next, !.isDir = t = "dir", !.made = new, !.own = new])
        ELSE /\ Become(h, IF t = "file" /\ found = "file" /\ r.req.disp # "create"
                          THEN [r EXCEPT !.at = next] ELSE Refuse(r))
             /\ UNCHANGED shareVars

\* os.Truncate, which follows a link.
TruncateName(h, r) ==
    LET n == Follow(r.path) IN
    IF n = None \/ kindAt(IF n = None THEN r.path ELSE n) = "dir"
    THEN Become(h, Refuse(r)) /\ UNCHANGED shareVars
    ELSE /\ data' = [data EXCEPT ![dir[n]] = "empty"]
         /\ Become(h, [r EXCEPT !.at = "openfile", !.emptied = TRUE])
         /\ UNCHANGED <<dir, kind, xattr>>

\* The switch over the dispositions.
ApplyDisposition(h, r) ==
    IF ~r.exists THEN IF "dir" \in r.req.want THEN MakeObject(h, r, "dir", "publish")
                      ELSE MakeObject(h, r, "file", "openfile")
    ELSE IF truncatingDisposition(r.req.disp) /\ ~r.isDir THEN TruncateName(h, r)
    ELSE /\ Become(h, [r EXCEPT !.at = IF r.isDir THEN "publish" ELSE "openfile"])
         /\ UNCHANGED shareVars

\* Mutant: whether a directory was wanted is looked at after the switch.
Dispose_ChecksLate(h) ==
    LET r == handle[h] IN
    /\ r.at = "dispose"
    /\ IF "dir" \in r.req.want /\ r.req.disp = "overwriteif" /\ ~r.exists
       THEN MakeObject(h, r, "file", "refused")
       ELSE IF typeRefused(r) \/ dispositionRefused(r)
       THEN Become(h, Refuse(r)) /\ UNCHANGED shareVars
       ELSE ApplyDisposition(h, r)
    /\ UNCHANGED ops

\* These checks come before anything is made or emptied...
Dispose(h) ==
    LET r == handle[h] IN
    /\ r.at = "dispose"
    /\ \/ /\ typeRefused(r) \/ mayConflict(r) \/ dispositionRefused(r)
          /\ Become(h, Refuse(r))
          /\ UNCHANGED shareVars
       \/ ~typeRefused(r) /\ ~dispositionRefused(r) /\ ApplyDisposition(h, r)
    /\ UNCHANGED ops

\* ...and the rest after it.  OpenFile with O_NOFOLLOW (a directory opens
\* read-only), for which there may be no descriptor left.
OpenFile(h) ==
    LET r == handle[h]
        openable == kindAt(r.path) = "file" \/ (kindAt(r.path) = "dir" /\ ~r.req.write)
        opened == [r EXCEPT !.at = "publish", !.ino = dir[r.path],
                            !.lost = @ \ ({r.path} \ {r.link}),
                            !.own = IF r.link = None THEN dir[r.path] ELSE @]
    IN  /\ r.at = "openfile"
        /\ \/ openable /\ (Become(h, opened) \/ Become(h, Withdraw(r)))
           \/ ~openable /\ Become(h, Refuse(r))
        /\ UNCHANGED <<shareVars, ops>>

\* The FileID, acquireShareMode and AddOpenToTree, or AddOpen for a stream.  The
\* handle of a CREATE that is refused here goes to releaseOpen, which closes
\* its descriptor and heeds no DELETE_ON_CLOSE.
AddOpenToTree(h) ==
    LET r == handle[h] IN
    /\ r.at = "publish"
    /\ Become(h, [r EXCEPT !.at = "open"]) \/ Become(h, Withdraw(r))
    /\ UNCHANGED <<shareVars, ops>>

-----------------------------------------------------------------------------
(* SET_INFO and WRITE on a file or a directory.                            *)

Usable(h) == handle[h].at = "open" /\ h \notin ReadOnly /\ ops < MaxOps

\* WriteAt, or Truncate for the end of file: by descriptor.
WriteData(h, value) ==
    LET r == handle[h] IN
    /\ Usable(h) /\ r.req.stream = None /\ r.ino # None /\ kind[r.ino] = "file"
    /\ data' = [data EXCEPT ![r.ino] = value]
    /\ ops' = ops + 1
    /\ UNCHANGED <<dir, kind, xattr, handle>>

\* FileDispositionInformation, for streams too.
SetDisposition(h, on) ==
    /\ Usable(h) /\ handle[h].doc # on
    /\ Become(h, [handle[h] EXCEPT !.doc = on])
    /\ ops' = ops + 1
    /\ UNCHANGED shareVars

\* FileRenameInformation: the destination is resolved and, without
\* ReplaceIfExists, must not be there...
handleRename(h, new, replace) ==
    LET r == handle[h] IN
    /\ Usable(h) /\ r.req.stream = None
    /\ ~(kindAt(new) = "link" /\ Follow(new) = None)
    /\ replace \/ dir[new] = None
    /\ Become(h, [r EXCEPT !.at = "rename", !.dest = new])
    /\ ops' = ops + 1
    /\ UNCHANGED shareVars

\* ...rename(2) refuses a file on a directory and the reverse, and does nothing
\* when both names are one object.
renameable(from, to) ==
    /\ dir[from] # None
    /\ dir[to] # None => (kindAt(from) = "dir") = (kindAt(to) = "dir")

\* Mutant: the handle of a link takes the new name for its file's.
renamed_Path(r, new) == [r EXCEPT !.path = new]

\* Only the name moved: a link's handle keeps its file.
renamed(r, new) == IF r.link # None THEN [r EXCEPT !.link = new] ELSE [r EXCEPT !.path = new]

Rename(h) ==
    LET r == handle[h]
        from == namePath(r)
        back == [r EXCEPT !.at = "open", !.dest = None]
        new == IF dir[from] = dir[r.dest] THEN dir
               ELSE [dir EXCEPT ![r.dest] = dir[from], ![from] = None]
    IN  /\ r.at = "rename"
        /\ IF ~renameable(from, r.dest)
           THEN Become(h, back) /\ UNCHANGED dir
           ELSE Rebind(h, new,
                       \* what it knew of the names that moved is void
                       [renamed(back, r.dest) EXCEPT
                            !.lost = (@ \ {r.dest}) \cup
                                     (IF from \in @ THEN {r.dest} ELSE {}) \cup
                                     {n \in {r.path} \ {from} : new[n] # dir[n]}])
        /\ UNCHANGED <<kind, data, xattr, ops>>

-----------------------------------------------------------------------------
(* CLOSE of a file or a directory.                                         *)

\* The descriptor is closed and the handle out of the session.
handleClose(h) ==
    LET r == handle[h] IN
    /\ r.at = "open" /\ r.req.stream = None
    /\ Become(h, [r EXCEPT !.at = IF r.doc THEN "unlink" ELSE "closed"])
    /\ UNCHANGED <<shareVars, ops>>

\* DELETE_ON_CLOSE: os.Remove of the handle's name.
Unlink(h) ==
    LET r == handle[h] IN
    /\ r.at = "unlink"
    /\ Rebind(h, [dir EXCEPT ![namePath(r)] = None], [r EXCEPT !.at = "closed"])
    /\ UNCHANGED <<kind, data, xattr, ops>>

-----------------------------------------------------------------------------
(* Named streams: loaded at CREATE, served from memory, stored at CLOSE.   *)
(* xattr calls by path follow links.                                       *)

\* The base must be there.
StreamBase(h) ==
    LET r == handle[h]
        n == r.req.name
    IN  /\ r.at = "base"
        /\ Become(h, IF kindAt(n) = "none" \/ Follow(n) = None THEN Refuse(r)
                     ELSE [r EXCEPT !.at = "probe", !.path = n])
        /\ UNCHANGED <<shareVars, ops>>

\* streamExists; AFP_AfpInfo is always presented.
StreamProbe(h) ==
    LET r == handle[h]
        n == Follow(r.path)
        exists == r.req.stream = Afp \/ xattr[dir[n]][r.req.stream] # Absent
    IN  /\ r.at = "probe"
        /\ Become(h, IF n = None \/ dispositionRefused([r EXCEPT !.exists = exists])
                     THEN Refuse(r) ELSE [r EXCEPT !.at = "load"])
        /\ UNCHANGED <<shareVars, ops>>

\* readStreamXattr, the truncation and the fabricated AFP_AfpInfo.
StreamLoad(h) ==
    LET r == handle[h]
        n == Follow(r.path)
        stored == IF n = None THEN Absent ELSE xattr[dir[n]][r.req.stream]
        cut == truncatingDisposition(r.req.disp)
        buf == IF cut \/ stored = Absent THEN "empty" ELSE stored
        fake == r.req.stream = Afp /\ buf = "empty"
    IN  /\ r.at = "load"
        /\ Become(h, [r EXCEPT !.at = "publish", !.written = cut, !.synthetic = fake,
                               !.buf = IF fake THEN "synth" ELSE buf])
        /\ UNCHANGED <<shareVars, ops>>

\* WRITE of the whole stream.
StreamWrite(h) ==
    LET r == handle[h] IN
    /\ Usable(h) /\ r.req.stream # None
    /\ Become(h, [r EXCEPT !.buf = "new", !.written = TRUE])
    /\ ops' = ops + 1
    /\ UNCHANGED shareVars

\* SET_INFO of the end of file, to zero: not a write to the handle.
StreamTruncate(h) ==
    LET r == handle[h] IN
    /\ Usable(h) /\ r.req.stream # None /\ r.buf # "empty"
    /\ Become(h, [r EXCEPT !.buf = "empty"])
    /\ ops' = ops + 1
    /\ UNCHANGED shareVars

\* removeStreamXattr follows a link, writeStreamXattr refuses one.
storeStream(path, follow, s, value) ==
    LET n == IF follow THEN Follow(path) ELSE path IN
    IF n # None /\ kindAt(IF n = None THEN path ELSE n) \in {"file", "dir"}
    THEN xattr' = [xattr EXCEPT ![dir[n]][s] = value]
    ELSE UNCHANGED xattr

\* A fabricated blob that was only read is not stored.
flushed(r) == ~r.synthetic \/ r.written

StreamClose(h) ==
    LET r == handle[h] IN
    /\ r.at = "open" /\ r.req.stream # None
    /\ IF r.doc THEN storeStream(r.path, TRUE, r.req.stream, Absent)
       ELSE IF flushed(r) THEN storeStream(r.path, FALSE, r.req.stream, r.buf)
       ELSE UNCHANGED xattr
    /\ Become(h, [r EXCEPT !.at = "closed"])
    /\ UNCHANGED <<dir, kind, data, ops>>

-----------------------------------------------------------------------------
Creates(h) ==
    \/ \E q \in Requests : handleCreate(h, q)
    \/ LstatName(h) \/ ResolveLink(h) \/ LstatTarget(h) \/ Dispose(h) \/ OpenFile(h)
    \/ StreamBase(h) \/ StreamProbe(h) \/ StreamLoad(h)
    \/ AddOpenToTree(h)

Uses(h) ==
    \/ \E v \in {"new", "empty"} : WriteData(h, v)
    \/ \E on \in BOOLEAN : SetDisposition(h, on)
    \/ \E new \in Names, replace \in BOOLEAN : handleRename(h, new, replace)
    \/ Rename(h) \/ StreamWrite(h) \/ StreamTruncate(h)

Closes(h) == handleClose(h) \/ Unlink(h) \/ StreamClose(h)

HandleStep(h) == Creates(h) \/ Uses(h) \/ Closes(h)

Next == \E h \in Handles : HandleStep(h)

Spec == Init /\ [][Next]_vars

-----------------------------------------------------------------------------
(* What must hold.                                                         *)

TypeOK ==
    /\ dir \in [Names -> Inodes \cup {None}]
    /\ kind \in [Inodes -> {"free", "file", "dir", "link"}]
    /\ data \in [Inodes -> {"first", "new", "empty"}]
    /\ xattr \in [Inodes -> [Streams -> Values]]
    /\ \A n \in Names : dir[n] # None => kind[dir[n]] # "free"
    /\ ops \in 0..MaxOps

\* A CREATE that the checks, the switch over the dispositions or the name itself
\* refuses has neither made nor emptied anything (the comments above the type
\* checks and the sharing check in handleCreate tell of the file one used to leave,
\* and of the file one would wipe); only one that is withdrawn after the switch,
\* for want of a descriptor or FileID, for a sharing conflict, or because its
\* session or tree went away, leaves what it made, under its name.  Not claimed
\* once another handle has rebound the name.
LeftOnlyWhenWithdrawn ==
    \A h \in Handles : LET r == handle[h] IN
        r.path \notin r.lost =>
            /\ r.at = "refused" => r.made = None /\ ~r.emptied
            /\ r.at = "withdrawn" /\ r.made # None => dir[r.path] = r.own

\* DELETE_ON_CLOSE and a rename take the object the handle's own name was
\* bound to out of the directory, and besides it only what a rename replaces:
\* through a link that is the link and never the file behind it.  Not claimed
\* once another handle has rebound the name.
OwnNameOnly ==
    [][\A h \in Handles : LET r == handle[h] IN
          (Unlink(h) \/ Rename(h)) /\ namePath(r) \notin r.lost =>
              \A n \in Names : dir[n] # None /\ dir'[n] # dir[n] =>
                  dir[n] = r.own \/ (r.at = "rename" /\ n = r.dest)]_vars

\* The paths a handle keeps go on naming its file, and its name the object it
\* was opened by, through every rename it makes itself, as long as no other
\* handle rebinds them.
PathsFollowHandle ==
    \A h \in Handles : LET r == handle[h] IN
        r.at \in {"open", "rename"} /\ r.req.stream = None =>
            /\ r.path \notin r.lost /\ r.ino # None => dir[r.path] = r.ino
            /\ (IF r.link # None THEN r.link ELSE r.path) \notin r.lost =>
                   dir[IF r.link # None THEN r.link ELSE r.path] = r.own

\* No handle of a read-only share changes a name or the contents of a file,
\* whether by CREATE, by SET_INFO or by DELETE_ON_CLOSE carried over to CLOSE.
\* (Its streams are another matter: StreamClose.)
ReadOnlyShareUnchanged ==
    [][\A h \in ReadOnly : HandleStep(h) => UNCHANGED <<dir, kind, data>>]_vars
=============================================================================
