--------------------------- MODULE DirectoryProofs ---------------------------
(***************************************************************************)
(* What holds of every directory.  Of its names (Namespace): a read-only   *)
(* export stays as it is; a CREATE that fails leaves something behind only *)
(* when it is withdrawn after the switch; and a handle's paths go on       *)
(* naming what it opened, so that its DELETE_ON_CLOSE and its renames meet *)
(* its own object.  Of its listings (Enumeration):                         *)
(* the matcher decides what a pattern means, a client gets the listing it  *)
(* is promised, and what is listed can be opened.                          *)
(***************************************************************************)
EXTENDS Namespace, Enumeration, WellFoundedInduction, SequenceTheorems, TLAPS

-----------------------------------------------------------------------------
(* Names and handles.                                                      *)


\* A handle is a record with these fields, whatever they hold.
Shaped(r) ==
    {"at", "req", "path", "link", "ino", "isDir", "exists", "doc", "dest", "buf",
     "written", "synthetic", "made", "emptied", "own", "lost"} \subseteq DOMAIN r

\* A handle of a read-only share that got past CREATE asked for nothing that
\* changes the share, has no DELETE_ON_CLOSE pending, and is in no message that
\* moves or removes a name.
Harmless(r) ==
    \/ r.at \in {"idle", "refused", "closed"}
    \/ /\ r.req.disp = "open" /\ r.doc = FALSE
       /\ r.at \notin {"rename", "unlink"}

ShapeInv == DOMAIN handle = Handles /\ \A h \in Handles : Shaped(handle[h])

ReadOnlyInv == ShapeInv /\ \A h \in ReadOnly : Harmless(handle[h])

LEMMA RefuseHarmless ==
    ASSUME NEW r, Shaped(r)
    PROVE  Shaped(Refuse(r)) /\ Harmless(Refuse(r))
  BY DEF Shaped, Harmless, Refuse

\* A step of h that leaves h as r, harmless if it has to be.
LEMMA BecomeKeeps ==
    ASSUME ReadOnlyInv, NEW h \in Handles, NEW r, Become(h, r), Shaped(r),
           h \in ReadOnly => Harmless(r)
    PROVE  ReadOnlyInv'
<1>1. /\ DOMAIN handle' = Handles /\ handle'[h] = r
      /\ \A k \in Handles \ {h} : handle'[k] = handle[k]
  BY DEF Become, ReadOnlyInv, ShapeInv
<1> QED BY <1>1, NamespaceConstants DEF ReadOnlyInv, ShapeInv

\* The same when the directory changes: the others note what they lost.
LEMMA RebindKeeps ==
    ASSUME ReadOnlyInv, NEW h \in Handles, NEW r, NEW d, Rebind(h, d, r), Shaped(r),
           h \in ReadOnly => Harmless(r)
    PROVE  ReadOnlyInv'
<1>1. DOMAIN handle' = Handles /\ handle'[h] = r
  BY DEF Rebind
<1>2. ASSUME NEW k \in Handles \ {h}
      PROVE  /\ Shaped(handle'[k])
             /\ Harmless(handle[k]) => Harmless(handle'[k])
  <2>1. PICK l : handle'[k] = [handle[k] EXCEPT !.lost = l]
    BY DEF Rebind
  <2>2. Shaped(handle[k])
    BY DEF ReadOnlyInv, ShapeInv
  <2>3. /\ DOMAIN handle'[k] = DOMAIN handle[k]
        /\ handle'[k].at = handle[k].at /\ handle'[k].req = handle[k].req
        /\ handle'[k].doc = handle[k].doc
    BY <2>1, <2>2 DEF Shaped
  <2> QED BY <2>2, <2>3 DEF Shaped, Harmless
<1> QED BY <1>1, <1>2, NamespaceConstants DEF ReadOnlyInv, ShapeInv

\* A handle goes on to another stage of its CREATE, or of use.
Onward(r, s) ==
    /\ DOMAIN s = DOMAIN r /\ s.req = r.req /\ s.doc = r.doc
    /\ r.at \notin {"idle", "refused", "closed"}
    /\ s.at \notin {"rename", "unlink"}

\* A message that refuses, or takes a handle onward, keeps it harmless.
LEMMA OnwardKeeps ==
    ASSUME ReadOnlyInv, NEW h \in Handles, NEW s, NEW d,
           Become(h, s) \/ Rebind(h, d, s),
           s = Refuse(handle[h]) \/ Onward(handle[h], s)
    PROVE  ReadOnlyInv'
<1>1. Shaped(handle[h]) /\ (h \in ReadOnly => Harmless(handle[h]))
  BY DEF ReadOnlyInv, ShapeInv
<1>2. Shaped(s) /\ (h \in ReadOnly => Harmless(s))
  BY <1>1, RefuseHarmless DEF Onward, Shaped, Harmless
<1> QED BY <1>2, BecomeKeeps, RebindKeeps

\* The first check of CREATE: what a read-only share lets through is harmless.
LEMMA AdmissionKeeps ==
    ASSUME ReadOnlyInv, NEW h \in Handles, NEW creq \in Requests, handleCreate(h, creq)
    PROVE  ReadOnlyInv'
<1> DEFINE r == handle[h]
           c == [r EXCEPT !.req = creq, !.doc = creq.doc /\ creq.stream = None,
                          !.at = IF creq.stream = None THEN "lstat" ELSE "base"]
           denied == IF creq.stream = None THEN mutates(creq) ELSE streamMutates(creq)
<1>1. Become(h, IF h \in ReadOnly /\ denied THEN Refuse(c) ELSE c)
  BY DEF handleCreate
<1>2. Shaped(r)
  BY DEF ReadOnlyInv, ShapeInv
<1>3. /\ DOMAIN c = DOMAIN r
      /\ c.req = creq /\ c.doc = (creq.doc /\ creq.stream = None)
      /\ c.at \in {"lstat", "base"}
  BY <1>2 DEF Shaped
<1> HIDE DEF c
<1>4. Shaped(c)
  BY <1>2, <1>3 DEF Shaped
<1>5. CASE h \in ReadOnly /\ denied
  BY <1>1, <1>4, <1>5, RefuseHarmless, BecomeKeeps
<1>6. CASE ~(h \in ReadOnly /\ denied)
  <2>1. h \in ReadOnly => Harmless(c)
    BY <1>3, <1>6 DEF Harmless, mutates, streamMutates
  <2> QED BY <1>1, <1>4, <1>6, <2>1, BecomeKeeps
<1> QED BY <1>5, <1>6

\* The switch over the dispositions, whatever it makes or truncates.
LEMMA DisposeKeeps ==
    ASSUME ReadOnlyInv, NEW h \in Handles, Dispose(h)
    PROVE  ReadOnlyInv'
<1> DEFINE r == handle[h]
<1>1. Shaped(r) /\ r.at = "dispose"
  BY DEF Dispose, ReadOnlyInv, ShapeInv
<1>2. ASSUME NEW t, NEW next \in {"publish", "openfile"}, MakeObject(h, r, t, next)
      PROVE  ReadOnlyInv'
  <2> DEFINE new == CHOOSE i \in Inodes : kind[i] = "free"
             d == [dir EXCEPT ![r.path] = new]
             a == [r EXCEPT !.at = next, !.isDir = t = "dir", !.made = new, !.own = new]
             b == [r EXCEPT !.at = next]
  <2>1. Rebind(h, d, a) \/ Become(h, b) \/ Become(h, Refuse(r))
    BY <1>2 DEF MakeObject
  <2>2. Onward(r, a)
    BY <1>1 DEF Onward, Shaped
  <2>3. Onward(r, b)
    BY <1>1 DEF Onward, Shaped
  <2> HIDE DEF a, b, d
  <2> QED BY <2>1, <2>2, <2>3, OnwardKeeps
<1>3. ASSUME TruncateName(h, r) PROVE ReadOnlyInv'
  <2> DEFINE a == [r EXCEPT !.at = "openfile", !.emptied = TRUE]
  <2>1. Become(h, a) \/ Become(h, Refuse(r))
    BY <1>3 DEF TruncateName
  <2>2. Onward(r, a)
    BY <1>1 DEF Onward, Shaped
  <2> HIDE DEF a
  <2> QED BY <2>1, <2>2, OnwardKeeps
<1>4. ASSUME ApplyDisposition(h, r) PROVE ReadOnlyInv'
  <2> DEFINE a == [r EXCEPT !.at = IF r.isDir THEN "publish" ELSE "openfile"]
  <2>1. Onward(r, a)
    BY <1>1 DEF Onward, Shaped
  <2>2. \/ MakeObject(h, r, "dir", "publish") \/ MakeObject(h, r, "file", "openfile")
        \/ TruncateName(h, r) \/ Become(h, a)
    BY <1>4 DEF ApplyDisposition
  <2> HIDE DEF a
  <2> QED BY <1>2, <1>3, <2>1, <2>2, OnwardKeeps
<1>5. Become(h, Refuse(r)) \/ ApplyDisposition(h, r)
  BY DEF Dispose
<1> QED BY <1>4, <1>5, OnwardKeeps

\* The other steps of CREATE, of a file and of a stream.
LEMMA CreatesKeep ==
    ASSUME ReadOnlyInv, NEW h \in Handles, Creates(h)
    PROVE  ReadOnlyInv'
<1> DEFINE r == handle[h]
<1>0. Shaped(r)
  BY DEF ReadOnlyInv, ShapeInv
<1>1. CASE LstatName(h)
  <2> DEFINE n == r.req.name
             a == [r EXCEPT !.at = "follow", !.exists = TRUE, !.link = n, !.own = dir[n]]
             b == [r EXCEPT !.at = "dispose", !.exists = dir[n] # None, !.path = n,
                            !.isDir = kindAt(n) = "dir", !.own = dir[n]]
  <2>1. r.at = "lstat" /\ (Become(h, Refuse(r)) \/ Become(h, a) \/ Become(h, b))
    BY <1>1 DEF LstatName
  <2>2. Onward(r, a)
    BY <1>0, <2>1 DEF Onward, Shaped
  <2>3. Onward(r, b)
    BY <1>0, <2>1 DEF Onward, Shaped
  <2> HIDE DEF a, b
  <2> QED BY <2>1, <2>2, <2>3, OnwardKeeps
<1>2. CASE ResolveLink(h)
  <2> DEFINE a == [r EXCEPT !.at = "lstatTarget", !.path = Follow(r.link)]
  <2>1. r.at = "follow" /\ (Become(h, Refuse(r)) \/ Become(h, a))
    BY <1>2 DEF ResolveLink
  <2>2. Onward(r, a)
    BY <1>0, <2>1 DEF Onward, Shaped
  <2> HIDE DEF a
  <2> QED BY <2>1, <2>2, OnwardKeeps
<1>3. CASE LstatTarget(h)
  <2> DEFINE a == [r EXCEPT !.at = "dispose", !.isDir = kindAt(r.path) = "dir"]
  <2>1. r.at = "lstatTarget" /\ (Become(h, Refuse(r)) \/ Become(h, a))
    BY <1>3 DEF LstatTarget
  <2>2. Onward(r, a)
    BY <1>0, <2>1 DEF Onward, Shaped
  <2> HIDE DEF a
  <2> QED BY <2>1, <2>2, OnwardKeeps
<1>4. CASE OpenFile(h)
  <2> DEFINE a == [r EXCEPT !.at = "publish", !.ino = dir[r.path],
                            !.lost = @ \ ({r.path} \ {r.link}),
                            !.own = IF r.link = None THEN dir[r.path] ELSE @]
             w == Withdraw(r)
  <2>1. r.at = "openfile" /\ (Become(h, Refuse(r)) \/ Become(h, a) \/ Become(h, w))
    BY <1>4 DEF OpenFile
  <2>2. Onward(r, a)
    BY <1>0, <2>1 DEF Onward, Shaped
  <2>3. Onward(r, w)
    BY <1>0, <2>1 DEF Onward, Shaped, Withdraw
  <2> HIDE DEF a, w
  <2> QED BY <2>1, <2>2, <2>3, OnwardKeeps
<1>5. CASE StreamBase(h)
  <2> DEFINE a == [r EXCEPT !.at = "probe", !.path = r.req.name]
  <2>1. r.at = "base" /\ (Become(h, Refuse(r)) \/ Become(h, a))
    BY <1>5 DEF StreamBase
  <2>2. Onward(r, a)
    BY <1>0, <2>1 DEF Onward, Shaped
  <2> HIDE DEF a
  <2> QED BY <2>1, <2>2, OnwardKeeps
<1>6. CASE StreamProbe(h)
  <2> DEFINE a == [r EXCEPT !.at = "load"]
  <2>1. r.at = "probe" /\ (Become(h, Refuse(r)) \/ Become(h, a))
    BY <1>6 DEF StreamProbe
  <2>2. Onward(r, a)
    BY <1>0, <2>1 DEF Onward, Shaped
  <2> HIDE DEF a
  <2> QED BY <2>1, <2>2, OnwardKeeps
<1>7. CASE StreamLoad(h)
  <2>1. r.at = "load"
    BY <1>7 DEF StreamLoad
  <2>2. PICK w, f, b : Become(h, [r EXCEPT !.at = "publish", !.written = w, !.synthetic = f,
                                              !.buf = b])
    BY <1>7 DEF StreamLoad
  <2> DEFINE a == [r EXCEPT !.at = "publish", !.written = w, !.synthetic = f, !.buf = b]
  <2>3. Onward(r, a)
    BY <1>0, <2>1 DEF Onward, Shaped
  <2> HIDE DEF a
  <2> QED BY <2>2, <2>3, OnwardKeeps DEF a
<1>8. CASE AddOpenToTree(h)
  <2> DEFINE a == [r EXCEPT !.at = "open"]
             w == Withdraw(r)
  <2>1. r.at = "publish" /\ (Become(h, a) \/ Become(h, w))
    BY <1>8 DEF AddOpenToTree
  <2>2. Onward(r, a)
    BY <1>0, <2>1 DEF Onward, Shaped
  <2>3. Onward(r, w)
    BY <1>0, <2>1 DEF Onward, Shaped, Withdraw
  <2> HIDE DEF a, w
  <2> QED BY <2>1, <2>2, <2>3, OnwardKeeps
<1> QED
  BY <1>1, <1>2, <1>3, <1>4, <1>5, <1>6, <1>7, <1>8, AdmissionKeeps, DisposeKeeps DEF Creates

\* A handle that may write is anything but read-only, and a rename is under way
\* only on such a handle.
LEMMA UsesKeep ==
    ASSUME ReadOnlyInv, NEW h \in Handles, Uses(h)
    PROVE  ReadOnlyInv'
<1> DEFINE r == handle[h]
<1>0. Shaped(r)
  BY DEF ReadOnlyInv, ShapeInv
<1>1. h \notin ReadOnly
  <2>1. Usable(h) \/ r.at = "rename"
    BY DEF Uses, WriteData, SetDisposition, handleRename, Rename, StreamWrite, StreamTruncate
  <2>2. h \in ReadOnly => r.at # "rename"
    BY DEF ReadOnlyInv, Harmless
  <2> QED BY <2>1, <2>2 DEF Usable
<1>2. ASSUME NEW s, NEW d, Become(h, s) \/ Rebind(h, d, s), DOMAIN s = DOMAIN r
      PROVE  ReadOnlyInv'
  BY <1>0, <1>1, <1>2, BecomeKeeps, RebindKeeps DEF Shaped
<1>3. ASSUME NEW v, WriteData(h, v) PROVE ReadOnlyInv'
  BY <1>3 DEF WriteData, ReadOnlyInv, ShapeInv
<1>4. ASSUME NEW on, SetDisposition(h, on) PROVE ReadOnlyInv'
  BY <1>2, <1>4 DEF SetDisposition
<1>5. ASSUME NEW new, NEW replace, handleRename(h, new, replace) PROVE ReadOnlyInv'
  <2> DEFINE a == [r EXCEPT !.at = "rename", !.dest = new]
  <2>1. Become(h, a)
    BY <1>5 DEF handleRename
  <2>2. DOMAIN a = DOMAIN r
    OBVIOUS
  <2> HIDE DEF a
  <2> QED BY <1>2, <2>1, <2>2
<1>6. CASE Rename(h)
  <2> DEFINE back == [r EXCEPT !.at = "open", !.dest = None]
  <2>1. Become(h, back) \/ \E d, l : Rebind(h, d, [renamed(back, r.dest) EXCEPT !.lost = l])
    BY <1>6 DEF Rename
  <2>2. DOMAIN back = DOMAIN r
    OBVIOUS
  <2> HIDE DEF back
  <2>3. DOMAIN renamed(back, r.dest) = DOMAIN back
    BY DEF renamed
  <2>4. \A l : DOMAIN [renamed(back, r.dest) EXCEPT !.lost = l] = DOMAIN r
    BY <2>2, <2>3
  <2> QED BY <1>2, <2>1, <2>2, <2>4
<1>7. CASE StreamWrite(h) \/ StreamTruncate(h)
  <2> DEFINE a == [r EXCEPT !.buf = "new", !.written = TRUE]
             b == [r EXCEPT !.buf = "empty"]
  <2>1. Become(h, a) \/ Become(h, b)
    BY <1>7 DEF StreamWrite, StreamTruncate
  <2>2. DOMAIN a = DOMAIN r /\ DOMAIN b = DOMAIN r
    OBVIOUS
  <2> HIDE DEF a, b
  <2> QED BY <1>2, <2>1, <2>2
<1> QED
  BY <1>3, <1>4, <1>5, <1>6, <1>7 DEF Uses

\* A read-only handle has no DELETE_ON_CLOSE to carry out.
LEMMA ClosesKeep ==
    ASSUME ReadOnlyInv, NEW h \in Handles, Closes(h)
    PROVE  ReadOnlyInv'
<1> DEFINE r == handle[h]
           closed == [r EXCEPT !.at = "closed"]
<1>0. Shaped(r) /\ (h \in ReadOnly => Harmless(r))
  BY DEF ReadOnlyInv, ShapeInv
<1>1. DOMAIN closed = DOMAIN r /\ closed.at = "closed"
  BY <1>0 DEF Shaped
<1> HIDE DEF closed
<1>2. Shaped(closed) /\ Harmless(closed)
  BY <1>0, <1>1 DEF Shaped, Harmless
<1>3. CASE handleClose(h)
  <2> DEFINE c == [r EXCEPT !.at = IF r.doc THEN "unlink" ELSE "closed"]
  <2>1. r.at = "open" /\ Become(h, c)
    BY <1>3 DEF handleClose
  <2>2. DOMAIN c = DOMAIN r /\ c.at = IF r.doc THEN "unlink" ELSE "closed"
    BY <1>0 DEF Shaped
  <2> HIDE DEF c
  <2>3. Shaped(c) /\ (h \in ReadOnly => Harmless(c))
    BY <1>0, <2>1, <2>2 DEF Shaped, Harmless
  <2> QED BY <2>1, <2>3, BecomeKeeps
<1>4. CASE Unlink(h)
  <2>1. PICK d : Rebind(h, d, closed)
    BY <1>4 DEF Unlink, closed
  <2> QED BY <1>2, <2>1, RebindKeeps
<1>5. CASE StreamClose(h)
  <2>1. Become(h, closed)
    BY <1>5 DEF StreamClose, closed
  <2> QED BY <1>2, <2>1, BecomeKeeps
<1> QED
  BY <1>3, <1>4, <1>5 DEF Closes

\* What the invariant is for: no step of a harmless handle changes the share.
LEMMA HarmlessChangesNothing ==
    ASSUME ReadOnlyInv, NEW h \in ReadOnly, HandleStep(h)
    PROVE  UNCHANGED <<dir, kind, data>>
<1> DEFINE r == handle[h]
<1>1. Harmless(r)
  BY DEF ReadOnlyInv
<1>2. CASE Dispose(h)
  <2>1. r.req.disp = "open"
    BY <1>1, <1>2 DEF Dispose, Harmless
  <2>2. CASE dispositionRefused(r)
    BY <1>2, <2>2 DEF Dispose, shareVars
  <2>3. CASE ~dispositionRefused(r)
    <3>1. r.exists /\ ~truncatingDisposition(r.req.disp)
      BY <2>1, <2>3 DEF dispositionRefused, truncatingDisposition
    <3> QED BY <1>2, <2>3, <3>1 DEF Dispose, ApplyDisposition, shareVars
  <2> QED BY <2>2, <2>3
<1>3. CASE Creates(h) /\ ~Dispose(h)
  BY <1>3 DEF Creates, handleCreate, LstatName, ResolveLink, LstatTarget, OpenFile,
              StreamBase, StreamProbe, StreamLoad, AddOpenToTree, shareVars
<1>4. ~Usable(h) /\ ~Rename(h) /\ ~Unlink(h)
  BY <1>1 DEF Usable, Rename, Unlink, Harmless
<1>5. ~Uses(h)
  BY <1>4 DEF Uses, WriteData, SetDisposition, handleRename, StreamWrite, StreamTruncate
<1>6. CASE Closes(h)
  BY <1>4, <1>6 DEF Closes, handleClose, StreamClose, shareVars
<1> QED
  BY <1>2, <1>3, <1>5, <1>6 DEF HandleStep

\* No handle of a share that is exported read-only changes a name, an object or
\* the contents of a file, by CREATE, SET_INFO, WRITE or CLOSE, whatever handles
\* of a writable export of the same directory do meanwhile (the checks of
\* handleCreate, handleSetInfo and handleWrite taken together).
THEOREM ReadOnlyHolds == Spec => ReadOnlyShareUnchanged
<1>1. Init => ReadOnlyInv
  <2> SUFFICES ASSUME Init PROVE ReadOnlyInv
    OBVIOUS
  <2>1. handle = [h \in Handles |-> Fresh]
    BY DEF Init
  <2>2. Shaped(Fresh) /\ Fresh.at = "idle"
    BY DEF Shaped, Fresh
  <2> QED BY <2>1, <2>2, NamespaceConstants DEF ReadOnlyInv, ShapeInv, Harmless
<1>2. ReadOnlyInv /\ [Next]_vars => ReadOnlyInv'
  <2> SUFFICES ASSUME ReadOnlyInv, [Next]_vars PROVE ReadOnlyInv'
    OBVIOUS
  <2>1. CASE Next
    BY <2>1, CreatesKeep, UsesKeep, ClosesKeep DEF Next, HandleStep
  <2>2. CASE UNCHANGED vars
    BY <2>2 DEF vars, ReadOnlyInv, ShapeInv
  <2> QED BY <2>1, <2>2
<1>3. ReadOnlyInv /\ [Next]_vars =>
        [\A h \in ReadOnly : HandleStep(h) => UNCHANGED <<dir, kind, data>>]_vars
  BY HarmlessChangesNothing
<1> QED
  BY <1>1, <1>2, <1>3, PTL DEF Spec, ReadOnlyShareUnchanged

-----------------------------------------------------------------------------
(* The paths of a handle.  The two invariants below follow a handle from   *)
(* the first Lstat of its CREATE on; every step of another handle that     *)
(* rebinds one of its names is noted in lost.                              *)

\* The paths a handle has at each stage, and what it cannot have yet.
Traced(r) ==
    /\ r.path \in Names \cup {None} /\ r.link \in Names \cup {None}
    /\ r.at \in {"idle", "lstat", "base", "probe", "load"} => r.link = None
    /\ r.at \in {"lstat", "base"} => r.req.name \in Names
    /\ r.at \in {"base", "probe", "load"} => r.req.stream # None
    /\ r.at \in {"lstat", "follow", "lstatTarget", "dispose", "openfile"} => r.req.stream = None
    /\ r.at = "follow" => r.link # None
    /\ r.at \in {"lstatTarget", "dispose", "openfile", "publish", "withdrawn", "open",
                 "rename", "unlink", "probe", "load"} => r.path # None
    /\ r.at \in {"follow", "lstatTarget", "dispose"} => (r.link # None => r.exists)
    /\ r.at \in {"idle", "lstat", "base", "follow", "lstatTarget", "dispose", "probe",
                 "load"} => r.made = None /\ r.emptied = FALSE
    /\ r.made # None => r.link = None /\ r.req.stream = None
    /\ r.at \in {"idle", "lstat", "base", "follow", "lstatTarget", "dispose", "probe",
                 "load", "openfile"} => r.ino = None
    /\ r.at = "rename" => r.dest \in Names

\* From the Lstat on, the handle has a name...
Named(r) ==
    \/ r.at \in {"follow", "lstatTarget", "dispose", "openfile", "rename", "unlink"}
    \/ r.at \in {"publish", "open", "withdrawn"} /\ r.req.stream = None

\* ...that is bound to what it was bound to then.
Bound(r, d) == Named(r) /\ namePath(r) \notin r.lost => d[namePath(r)] = r.own

\* What CREATE made or emptied is there to be opened, and what it found is no
\* link; if CREATE is refused after all, its path was taken away.
Made(r, d, k) ==
    r.path \notin r.lost =>
        /\ r.at = "refused" => r.made = None /\ r.emptied = FALSE
        /\ r.at = "lstatTarget" \/ (r.at = "dispose" /\ r.exists) =>
              d[r.path] \in Inodes /\ k[d[r.path]] \in {"file", "dir"}
        /\ r.at = "openfile" /\ (r.made # None \/ r.emptied) =>
              d[r.path] \in Inodes /\ k[d[r.path]] = "file"

Good(r, d, k) == Shaped(r) /\ Traced(r) /\ Bound(r, d) /\ Made(r, d, k)

DiskInv ==
    /\ dir \in [Names -> Inodes \cup {None}]
    /\ kind \in [Inodes -> {"free", "file", "dir", "link"}]
    /\ \A n \in Names : dir[n] # None => kind[dir[n]] # "free"

NameInv ==
    /\ DiskInv
    /\ DOMAIN handle = Handles
    /\ \A h \in Handles : Good(handle[h], dir, kind)

\* The file's own path.  A link's handle keeps two paths; they are the same name
\* only after another handle has put the file where the link was.
Kept(r, d, k) ==
    /\ r.at \in {"publish", "open", "rename"} /\ r.ino # None /\ r.path \notin r.lost =>
          d[r.path] = r.ino
    /\ r.at \in {"lstatTarget", "dispose", "openfile", "publish", "open", "rename"}
           /\ r.link # None =>
          (r.path = r.link => r.link \in r.lost)
    /\ r.at = "follow" /\ r.link \notin r.lost => r.own \in Inodes /\ k[r.own] = "link"

\* No object has two names.
Distinct(d) == \A m, n \in Names : d[m] # None /\ d[m] = d[n] => m = n

FileInv ==
    /\ Distinct(dir)
    /\ \A h \in Handles : Kept(handle[h], dir, kind)

\* The directory has no hard links at first.
NoHardLinks == Distinct(FirstDir)

-----------------------------------------------------------------------------
(* Steps of one handle, seen by all.                                       *)

\* EvalSymlinks ends at a name that is bound, to something else than a link.
LEMMA FollowIs ==
    ASSUME NEW n, Follow(n) # None
    PROVE  Follow(n) \in Names /\ kindAt(Follow(n)) \notin {"none", "link"}
<1>1. PICK m \in Names : evalSymlinks(n, m)
  BY DEF Follow
<1>2. Follow(n) = CHOOSE x \in Names : evalSymlinks(n, x)
  BY <1>1 DEF Follow
<1>3. Follow(n) \in Names /\ evalSymlinks(n, Follow(n))
  BY <1>1, <1>2
<1> QED BY <1>3 DEF evalSymlinks

\* A name that is bound to something else than a link is the end of its chain.
LEMMA FollowStays ==
    ASSUME NEW n \in Names, kindAt(n) \notin {"none", "link"}, Follow(n) # None
    PROVE  Follow(n) = n
<1>1. PICK m \in Names : evalSymlinks(n, m)
  BY DEF Follow
<1>2. Follow(n) = CHOOSE x \in Names : evalSymlinks(n, x)
  BY <1>1 DEF Follow
<1>3. evalSymlinks(n, Follow(n))
  BY <1>1, <1>2
<1>4. PICK hops \in 0..Cardinality(Names) : \E chain \in [0..hops -> Names] :
          /\ chain[0] = n /\ chain[hops] = Follow(n)
          /\ \A i \in 0..(hops - 1) :
                kindAt(chain[i]) = "link" /\ PointsTo[dir[chain[i]]] = chain[i + 1]
  BY <1>3 DEF evalSymlinks
<1>5. CASE hops = 0
  BY <1>4, <1>5
<1>6. CASE hops # 0
  <2>1. 0 \in 0..(hops - 1)
    BY <1>6
  <2> QED BY <1>4, <2>1
<1> QED BY <1>5, <1>6

LEMMA Becomes ==
    ASSUME NameInv, NEW h \in Handles, NEW s, Become(h, s), UNCHANGED <<dir, kind>>,
           Good(s, dir, kind)
    PROVE  NameInv' /\ (FileInv /\ Kept(s, dir, kind) => FileInv')
<1>1. /\ DOMAIN handle' = Handles /\ handle'[h] = s
      /\ \A k \in Handles \ {h} : handle'[k] = handle[k]
  BY DEF Become, NameInv
<1>2. \A k \in Handles : Good(handle'[k], dir', kind')
  BY <1>1 DEF NameInv
<1>3. NameInv'
  BY <1>1, <1>2 DEF NameInv, DiskInv
<1>4. ASSUME FileInv, Kept(s, dir, kind) PROVE FileInv'
  <2>1. \A k \in Handles : Kept(handle'[k], dir', kind')
    BY <1>1, <1>4 DEF FileInv
  <2> QED BY <1>4, <2>1 DEF FileInv, Distinct
<1> QED BY <1>3, <1>4

\* Another handle's step: the names it rebinds are lost, the objects stay.
LEMMA OthersLose ==
    ASSUME NEW r, NEW s, NEW d, NEW k, NEW lost,
           dir \in [Names -> Inodes \cup {None}],
           \A i \in Inodes : kind[i] # "free" => k[i] = kind[i],
           lost = r.lost \cup {n \in {r.path, r.link} \ {None} : d[n] # dir[n]},
           s = [r EXCEPT !.lost = lost],
           Good(r, dir, kind)
    PROVE  Good(s, d, k) /\ (Kept(r, dir, kind) => Kept(s, d, k))
<1>1. /\ Shaped(s) /\ s.at = r.at /\ s.req = r.req /\ s.path = r.path /\ s.link = r.link
      /\ s.ino = r.ino /\ s.exists = r.exists /\ s.dest = r.dest /\ s.made = r.made
      /\ s.emptied = r.emptied /\ s.own = r.own /\ s.lost = lost
  BY DEF Good, Shaped
<1>2. Traced(s)
  BY <1>1 DEF Good, Traced
<1>3. r.path # None /\ r.path \notin s.lost => r.path \notin r.lost /\ d[r.path] = dir[r.path]
  BY <1>1
<1>4. r.link # None /\ r.link \notin s.lost => r.link \notin r.lost /\ d[r.link] = dir[r.link]
  BY <1>1
<1>5. namePath(s) = namePath(r) /\ namePath(r) \in {r.path, r.link}
  BY <1>1 DEF namePath
<1>6. Bound(s, d)
  BY <1>1, <1>3, <1>4, <1>5 DEF Good, Traced, Bound, Named, namePath
<1>7. Made(s, d, k)
  BY <1>1, <1>3 DEF Good, Traced, Made
<1>8. ASSUME Kept(r, dir, kind) PROVE Kept(s, d, k)
  BY <1>1, <1>3, <1>4, <1>8 DEF Good, Traced, Kept
<1> QED BY <1>1, <1>2, <1>6, <1>7, <1>8 DEF Good

LEMMA Rebinds ==
    ASSUME NameInv, NEW h \in Handles, NEW s, NEW d \in [Names -> Inodes \cup {None}],
           Rebind(h, d, s), kind' \in [Inodes -> {"free", "file", "dir", "link"}],
           \A i \in Inodes : kind[i] # "free" => kind'[i] = kind[i],
           \A n \in Names : d[n] # None => kind'[d[n]] # "free",
           Good(s, d, kind')
    PROVE  NameInv' /\ (FileInv /\ Kept(s, d, kind') /\ Distinct(d) => FileInv')
<1>1. DOMAIN handle' = Handles /\ handle'[h] = s /\ dir' = d
  BY DEF Rebind
<1>2. ASSUME NEW k \in Handles \ {h}
      PROVE  /\ Good(handle'[k], d, kind')
             /\ Kept(handle[k], dir, kind) => Kept(handle'[k], d, kind')
  <2> DEFINE r == handle[k]
             lost == r.lost \cup {n \in {r.path, r.link} \ {None} : d[n] # dir[n]}
  <2>1. handle'[k] = [r EXCEPT !.lost = lost]
    BY DEF Rebind
  <2>2. Good(r, dir, kind) /\ dir \in [Names -> Inodes \cup {None}]
    BY DEF NameInv, DiskInv
  <2> HIDE DEF r, lost
  <2>3. lost = r.lost \cup {n \in {r.path, r.link} \ {None} : d[n] # dir[n]}
    BY DEF lost
  <2>4. /\ Good(handle'[k], d, kind')
        /\ Kept(r, dir, kind) => Kept(handle'[k], d, kind')
    BY <2>1, <2>2, <2>3, OthersLose
  <2> QED BY <2>4 DEF r
<1>3. NameInv'
  BY <1>1, <1>2 DEF NameInv, DiskInv
<1>4. ASSUME FileInv, Kept(s, d, kind'), Distinct(d) PROVE FileInv'
  BY <1>1, <1>2, <1>4 DEF FileInv
<1> QED BY <1>3, <1>4

\* Refusing a CREATE that made and emptied nothing, or whose path was taken away.
LEMMA Refusal ==
    ASSUME NameInv, NEW h \in Handles, Become(h, Refuse(handle[h])), UNCHANGED <<dir, kind>>,
           \/ handle[h].made = None /\ handle[h].emptied = FALSE
           \/ handle[h].path \in handle[h].lost
    PROVE  NameInv' /\ (FileInv => FileInv')
<1> DEFINE r == handle[h]
           s == Refuse(r)
<1>1. Good(r, dir, kind)
  BY DEF NameInv
<1>2. /\ Shaped(s) /\ s.at = "refused" /\ s.path = r.path /\ s.link = r.link /\ s.req = r.req
      /\ s.made = r.made /\ s.emptied = r.emptied /\ s.lost = r.lost
  BY <1>1 DEF Good, Shaped, Refuse
<1>3. Traced(s)
  BY <1>1, <1>2 DEF Good, Traced
<1>4. Bound(s, dir) /\ Made(s, dir, kind) /\ Kept(s, dir, kind)
  BY <1>2 DEF Bound, Named, Made, Kept
<1> HIDE DEF s
<1>5. Good(s, dir, kind)
  BY <1>2, <1>3, <1>4 DEF Good
<1> QED BY <1>4, <1>5, Becomes DEF s

-----------------------------------------------------------------------------
(* The steps of CREATE.                                                    *)

\* A step that changes the stage of a handle and leaves its paths alone.
LEMMA StageOnly ==
    ASSUME NameInv, NEW h \in Handles, NEW s, Become(h, s), UNCHANGED <<dir, kind>>,
           Shaped(s), s.req = handle[h].req, s.path = handle[h].path,
           s.link = handle[h].link, s.ino = handle[h].ino, s.exists = handle[h].exists,
           s.made = handle[h].made, s.emptied = handle[h].emptied,
           s.own = handle[h].own, s.lost = handle[h].lost,
           \/ handle[h].at = "lstatTarget" /\ s.at = "dispose"
           \/ handle[h].at = "dispose" /\ s.at \in {"publish", "openfile"}
           \/ handle[h].at = "openfile" /\ s.at = "withdrawn"
           \/ handle[h].at = "probe" /\ s.at = "load"
           \/ handle[h].at = "load" /\ s.at = "publish"
           \/ handle[h].at = "publish" /\ s.at \in {"open", "withdrawn"}
           \/ handle[h].at = "open" /\ s.at \in {"open", "closed"}
           \/ handle[h].at = "open" /\ handle[h].req.stream = None /\ s.at = "unlink"
           \/ handle[h].at = "open" /\ handle[h].req.stream = None /\ s.at = "rename"
              /\ s.dest \in Names
           \/ handle[h].at = "rename" /\ s.at = "open"
    PROVE  NameInv' /\ (FileInv => FileInv')
<1> DEFINE r == handle[h]
<1>1. Good(r, dir, kind)
  BY DEF NameInv
<1>2. Traced(s)
  BY <1>1 DEF Good, Traced
<1>3. namePath(s) = namePath(r)
  BY DEF namePath
<1>4. Named(s) => Named(r)
  BY <1>1 DEF Good, Traced, Named
<1>5. Bound(s, dir)
  BY <1>1, <1>3, <1>4 DEF Good, Bound
<1>6. Made(s, dir, kind)
  BY <1>1 DEF Good, Traced, Made
<1>7. Good(s, dir, kind)
  BY <1>2, <1>5, <1>6 DEF Good
<1>8. FileInv => Kept(s, dir, kind)
  <2> SUFFICES ASSUME FileInv PROVE Kept(s, dir, kind)
    OBVIOUS
  <2>1. Kept(r, dir, kind)
    BY DEF FileInv
  <2> QED BY <1>1, <2>1 DEF Good, Traced, Kept
<1> QED BY <1>7, <1>8, Becomes

\* A CREATE that is withdrawn leaves everything where it is.
LEMMA WithdrawTraces ==
    ASSUME NameInv, NEW h \in Handles, Become(h, Withdraw(handle[h])),
           UNCHANGED <<dir, kind>>, handle[h].at \in {"openfile", "publish"}
    PROVE  NameInv' /\ (FileInv => FileInv')
<1> DEFINE r == handle[h]
           s == Withdraw(r)
<1>1. /\ Shaped(s) /\ s.at = "withdrawn" /\ s.path = r.path /\ s.req = r.req
      /\ s.link = r.link /\ s.ino = r.ino /\ s.made = r.made
      /\ s.emptied = r.emptied /\ s.exists = r.exists
      /\ s.own = r.own /\ s.lost = r.lost
  BY DEF NameInv, Good, Shaped, Withdraw
<1> HIDE DEF s
<1> QED BY <1>1, StageOnly DEF s

LEMMA AdmissionTraces ==
    ASSUME NameInv, NEW h \in Handles, NEW creq \in Requests, handleCreate(h, creq)
    PROVE  NameInv' /\ (FileInv => FileInv')
<1> DEFINE r == handle[h]
           c == [r EXCEPT !.req = creq, !.doc = creq.doc /\ creq.stream = None,
                          !.at = IF creq.stream = None THEN "lstat" ELSE "base"]
<1>1. r.at = "idle" /\ (Become(h, Refuse(c)) \/ Become(h, c)) /\ UNCHANGED <<dir, kind>>
  BY DEF handleCreate, shareVars
<1>2. Shaped(r) /\ Traced(r)
  BY DEF NameInv, Good
<1>3. ASSUME NEW s, s = c \/ s = Refuse(c)
      PROVE  Good(s, dir, kind) /\ Kept(s, dir, kind)
  <2>1. /\ Shaped(c) /\ c.at = (IF creq.stream = None THEN "lstat" ELSE "base") /\ c.req = creq
        /\ c.path = r.path /\ c.link = r.link /\ c.ino = r.ino /\ c.made = r.made
        /\ c.emptied = r.emptied
    BY <1>2 DEF Shaped
  <2> HIDE DEF c
  <2>2. /\ Shaped(s) /\ s.at \in {c.at, "refused"} /\ s.req = creq
        /\ s.path = r.path /\ s.link = r.link /\ s.ino = r.ino /\ s.made = r.made
        /\ s.emptied = r.emptied
    BY <1>3, <2>1 DEF Shaped, Refuse
  <2>3. Traced(s)
    BY <1>1, <1>2, <2>1, <2>2, NamespaceConstants DEF Traced
  <2>4. Bound(s, dir) /\ Kept(s, dir, kind)
    BY <2>1, <2>2 DEF Bound, Named, Kept
  <2>5. Made(s, dir, kind)
    BY <1>1, <1>2, <2>1, <2>2 DEF Made, Traced
  <2> QED BY <2>2, <2>3, <2>4, <2>5 DEF Good
<1> HIDE DEF c
<1> QED BY <1>1, <1>3, Becomes

LEMMA LstatNameTraces ==
    ASSUME NameInv, NEW h \in Handles, LstatName(h)
    PROVE  NameInv' /\ (FileInv => FileInv')
<1> DEFINE r == handle[h]
           n == r.req.name
           a == [r EXCEPT !.at = "follow", !.exists = TRUE, !.link = n, !.own = dir[n]]
           b == [r EXCEPT !.at = "dispose", !.exists = dir[n] # None, !.path = n,
                          !.isDir = kindAt(n) = "dir", !.own = dir[n]]
<1>1. /\ r.at = "lstat" /\ UNCHANGED <<dir, kind>>
      /\ \/ Become(h, Refuse(r))
         \/ kindAt(n) = "link" /\ Become(h, a)
         \/ kindAt(n) # "link" /\ Become(h, b)
  BY DEF LstatName, shareVars
<1>2. Shaped(r) /\ Traced(r)
  BY DEF NameInv, Good
<1>3. /\ n \in Names /\ n # None /\ r.made = None /\ r.emptied = FALSE
      /\ r.ino = None /\ r.link = None /\ r.req.stream = None
  BY <1>1, <1>2, NamespaceConstants DEF Traced
<1>4. CASE Become(h, Refuse(r))
  BY <1>1, <1>3, <1>4, Refusal
<1>5. CASE kindAt(n) = "link" /\ Become(h, a)
  <2>1. /\ Shaped(a) /\ a.at = "follow" /\ a.exists = TRUE /\ a.link = n /\ a.own = dir[n]
        /\ a.path = r.path /\ a.ino = None /\ a.made = None /\ a.emptied = FALSE
        /\ a.req = r.req
    BY <1>2, <1>3 DEF Shaped
  <2> HIDE DEF a
  <2>2. Traced(a)
    BY <1>2, <1>3, <2>1 DEF Traced
  <2>3. Bound(a, dir) /\ Made(a, dir, kind)
    BY <1>3, <2>1 DEF Bound, namePath, Made
  <2>4. Kept(a, dir, kind)
    <3>1. dir[n] \in Inodes /\ kind[dir[n]] = "link"
      BY <1>3, <1>5 DEF kindAt, NameInv, DiskInv
    <3> QED BY <2>1, <3>1 DEF Kept
  <2>5. Good(a, dir, kind)
    BY <2>1, <2>2, <2>3 DEF Good
  <2> QED BY <1>1, <1>5, <2>4, <2>5, Becomes
<1>6. CASE kindAt(n) # "link" /\ Become(h, b)
  <2>1. /\ Shaped(b) /\ b.at = "dispose" /\ b.path = n /\ b.own = dir[n]
        /\ b.link = None /\ b.ino = None /\ b.made = None /\ b.emptied = FALSE
        /\ b.exists = (dir[n] # None) /\ b.req = r.req
    BY <1>2, <1>3 DEF Shaped
  <2> HIDE DEF b
  <2>2. Traced(b)
    BY <1>3, <2>1 DEF Traced
  <2>3. Made(b, dir, kind)
    <3>1. dir[n] # None => dir[n] \in Inodes /\ kind[dir[n]] \in {"file", "dir"}
      BY <1>3, <1>6 DEF kindAt, NameInv, DiskInv
    <3> QED BY <2>1, <3>1 DEF Made
  <2>4. Bound(b, dir) /\ Kept(b, dir, kind) /\ Good(b, dir, kind)
    BY <1>3, <2>1, <2>2, <2>3 DEF Bound, namePath, Kept, Good
  <2> QED BY <1>1, <1>6, <2>4, Becomes
<1> QED BY <1>1, <1>4, <1>5, <1>6

\* The end of the chain is not the link itself, unless the link was replaced.
LEMMA ResolveLinkTraces ==
    ASSUME NameInv, NEW h \in Handles, ResolveLink(h)
    PROVE  NameInv' /\ (FileInv => FileInv')
<1> DEFINE r == handle[h]
           a == [r EXCEPT !.at = "lstatTarget", !.path = Follow(r.link)]
<1>1. /\ r.at = "follow" /\ UNCHANGED <<dir, kind>>
      /\ Become(h, Refuse(r)) \/ (Follow(r.link) # None /\ Become(h, a))
  BY DEF ResolveLink, shareVars
<1>2. Good(r, dir, kind)
  BY DEF NameInv
<1>3. CASE Become(h, Refuse(r))
  BY <1>1, <1>2, <1>3, Refusal DEF Good, Traced
<1>4. CASE Follow(r.link) # None /\ Become(h, a)
  <2>1. /\ Shaped(a) /\ a.at = "lstatTarget" /\ a.path = Follow(r.link) /\ a.req = r.req
        /\ a.link = r.link /\ a.ino = r.ino /\ a.made = r.made
        /\ a.emptied = r.emptied /\ a.exists = r.exists
        /\ a.own = r.own /\ a.lost = r.lost
    BY <1>2 DEF Good, Shaped
  <2> HIDE DEF a
  <2>2. /\ Follow(r.link) \in Names
        /\ dir[Follow(r.link)] \in Inodes /\ kind[dir[Follow(r.link)]] \in {"file", "dir"}
    BY <1>4, FollowIs DEF kindAt, NameInv, DiskInv
  <2>3. Traced(a)
    BY <1>1, <1>2, <2>1, <2>2, NamespaceConstants DEF Good, Traced
  <2>4. Bound(a, dir) /\ Made(a, dir, kind)
    BY <1>1, <1>2, <2>1, <2>2 DEF Good, Traced, Bound, Named, namePath, Made
  <2>5. Good(a, dir, kind)
    BY <2>1, <2>3, <2>4 DEF Good
  <2>6. FileInv => Kept(a, dir, kind)
    <3> SUFFICES ASSUME FileInv, r.link = Follow(r.link), r.link \notin r.lost PROVE FALSE
      BY <2>1 DEF Kept
    <3>1. r.own \in Inodes /\ kind[r.own] = "link"
      BY <1>1 DEF FileInv, Kept
    <3>2. dir[r.link] = r.own
      BY <1>1, <1>2 DEF Good, Traced, Bound, Named, namePath
    <3> QED BY <2>2, <3>1, <3>2
  <2> QED BY <1>1, <1>4, <2>5, <2>6, Becomes
<1> QED BY <1>1, <1>3, <1>4

LEMMA LstatTargetTraces ==
    ASSUME NameInv, NEW h \in Handles, LstatTarget(h)
    PROVE  NameInv' /\ (FileInv => FileInv')
<1> DEFINE r == handle[h]
           a == [r EXCEPT !.at = "dispose", !.isDir = kindAt(r.path) = "dir"]
<1>1. /\ r.at = "lstatTarget" /\ UNCHANGED <<dir, kind>>
      /\ Become(h, Refuse(r)) \/ Become(h, a)
  BY DEF LstatTarget, shareVars
<1>2. Shaped(r) /\ Traced(r)
  BY DEF NameInv, Good
<1>3. CASE Become(h, Refuse(r))
  BY <1>1, <1>2, <1>3, Refusal DEF Traced
<1>4. CASE Become(h, a)
  <2>1. /\ Shaped(a) /\ a.at = "dispose" /\ a.path = r.path /\ a.req = r.req
        /\ a.link = r.link /\ a.ino = r.ino /\ a.made = r.made
        /\ a.emptied = r.emptied /\ a.exists = r.exists
        /\ a.own = r.own /\ a.lost = r.lost
    BY <1>2 DEF Shaped
  <2> HIDE DEF a
  <2> QED BY <1>1, <1>4, <2>1, StageOnly
<1> QED BY <1>1, <1>3, <1>4

\* A new object takes a free inode and a free name.
LEMMA MakeObjectTraces ==
    ASSUME NameInv, NEW h \in Handles, handle[h].at = "dispose", ~handle[h].exists,
           NEW t \in {"dir", "file"}, NEW next, MakeObject(h, handle[h], t, next),
           next = IF t = "dir" THEN "publish" ELSE "openfile"
    PROVE  NameInv' /\ (FileInv => FileInv')
<1> DEFINE r == handle[h]
           new == CHOOSE i \in Inodes : kind[i] = "free"
           a == [r EXCEPT !.at = next, !.isDir = t = "dir", !.made = new, !.own = new]
           b == [r EXCEPT !.at = next]
           d == [dir EXCEPT ![r.path] = new]
<1>1. Good(r, dir, kind)
  BY DEF NameInv
<1>2. /\ r.path \in Names /\ r.link = None /\ r.made = None /\ r.emptied = FALSE
      /\ r.ino = None /\ r.req.stream = None
  BY <1>1 DEF Good, Traced
<1>3. CASE kindAt(r.path) = "none"
  <2>1. /\ \E i \in Inodes : kind[i] = "free"
        /\ kind' = [kind EXCEPT ![new] = t]
        /\ Rebind(h, d, a)
    BY <1>3 DEF MakeObject
  <2>2. new \in Inodes /\ kind[new] = "free"
    BY <2>1
  <2>3. /\ Shaped(a) /\ a.at = next /\ a.path = r.path /\ a.link = None /\ a.req = r.req
        /\ a.made = new /\ a.own = new /\ a.ino = None /\ a.lost = r.lost
        /\ a.emptied = FALSE
    BY <1>1, <1>2 DEF Good, Shaped
  <2> HIDE DEF new, a
  <2>4. /\ dir \in [Names -> Inodes \cup {None}]
        /\ kind \in [Inodes -> {"free", "file", "dir", "link"}]
        /\ \A n \in Names : dir[n] # None => kind[dir[n]] # "free"
    BY DEF NameInv, DiskInv
  <2>5. /\ d \in [Names -> Inodes \cup {None}] /\ d[r.path] = new
        /\ \A n \in Names \ {r.path} : d[n] = dir[n]
    BY <1>2, <2>2, <2>4
  <2> HIDE DEF d
  <2>6. /\ kind' \in [Inodes -> {"free", "file", "dir", "link"}] /\ kind'[new] = t
        /\ \A i \in Inodes : kind[i] # "free" => kind'[i] = kind[i]
    BY <2>1, <2>2, <2>4
  <2>7. \A n \in Names : d[n] # None => kind'[d[n]] # "free"
    BY <2>4, <2>5, <2>6
  <2>8. Traced(a)
    BY <1>2, <2>3, NamespaceConstants DEF Traced
  <2>9. Bound(a, d) /\ Kept(a, d, kind')
    BY <2>3, <2>5 DEF Bound, namePath, Kept
  <2>10. Made(a, d, kind')
    BY <2>2, <2>3, <2>5, <2>6 DEF Made
  <2>11. Good(a, d, kind')
    BY <2>3, <2>8, <2>9, <2>10 DEF Good
  <2>12. FileInv => Distinct(d)
    BY <2>2, <2>4, <2>5 DEF FileInv, Distinct
  <2> QED BY <2>1, <2>5, <2>6, <2>7, <2>9, <2>11, <2>12, Rebinds
<1>4. CASE kindAt(r.path) # "none"
  <2>1. UNCHANGED <<dir, kind>>
    BY <1>4 DEF MakeObject, shareVars
  <2>2. (t = "file" /\ Become(h, b)) \/ Become(h, Refuse(r))
    BY <1>4 DEF MakeObject
  <2>3. CASE t = "file" /\ Become(h, b)
    <3>1. /\ Shaped(b) /\ b.at = next /\ b.path = r.path /\ b.req = r.req
          /\ b.link = r.link /\ b.ino = r.ino /\ b.made = r.made
          /\ b.emptied = r.emptied /\ b.exists = r.exists
          /\ b.own = r.own /\ b.lost = r.lost
      BY <1>1 DEF Good, Shaped
    <3> HIDE DEF b
    <3> QED BY <2>1, <2>3, <3>1, StageOnly
  <2>4. CASE Become(h, Refuse(r))
    BY <1>2, <2>1, <2>4, Refusal
  <2> QED BY <2>2, <2>3, <2>4
<1> QED BY <1>3, <1>4

\* What is emptied is the file of the path, unless another handle put a link there.
LEMMA TruncateTraces ==
    ASSUME NameInv, NEW h \in Handles, handle[h].at = "dispose", handle[h].exists,
           TruncateName(h, handle[h])
    PROVE  NameInv' /\ (FileInv => FileInv')
<1> DEFINE r == handle[h]
           n == Follow(r.path)
           a == [r EXCEPT !.at = "openfile", !.emptied = TRUE]
<1>1. Good(r, dir, kind) /\ r.path \in Names
  BY DEF NameInv, Good, Traced
<1>2. /\ UNCHANGED <<dir, kind>>
      /\ Become(h, Refuse(r)) \/ (n # None /\ kindAt(n) # "dir" /\ Become(h, a))
  BY DEF TruncateName, shareVars
<1>3. CASE Become(h, Refuse(r))
  BY <1>1, <1>2, <1>3, Refusal DEF Good, Traced
<1>4. CASE n # None /\ kindAt(n) # "dir" /\ Become(h, a)
  <2>1. /\ Shaped(a) /\ a.at = "openfile" /\ a.path = r.path /\ a.req = r.req
        /\ a.link = r.link /\ a.ino = r.ino /\ a.made = r.made /\ a.emptied = TRUE
        /\ a.own = r.own /\ a.lost = r.lost
    BY <1>1 DEF Good, Shaped
  <2> HIDE DEF a
  <2>2. Traced(a)
    BY <1>1, <2>1 DEF Good, Traced
  <2>3. Made(a, dir, kind)
    <3> SUFFICES ASSUME r.path \notin r.lost
                 PROVE  dir[r.path] \in Inodes /\ kind[dir[r.path]] = "file"
      BY <2>1 DEF Made
    <3>1. dir[r.path] \in Inodes /\ kind[dir[r.path]] \in {"file", "dir"}
      BY <1>1 DEF Good, Made
    <3>2. kindAt(r.path) = kind[dir[r.path]]
      BY <3>1, NamespaceConstants DEF kindAt
    <3>3. n = r.path
      BY <1>1, <1>4, <3>1, <3>2, FollowStays
    <3> QED BY <1>4, <3>1, <3>2, <3>3
  <2>4. Bound(a, dir)
    BY <1>1, <2>1 DEF Good, Bound, Named, namePath
  <2>5. Good(a, dir, kind)
    BY <2>1, <2>2, <2>3, <2>4 DEF Good
  <2>6. FileInv => Kept(a, dir, kind)
    BY <2>1 DEF FileInv, Kept
  <2> QED BY <1>2, <1>4, <2>5, <2>6, Becomes
<1> QED BY <1>2, <1>3, <1>4

LEMMA DisposeTraces ==
    ASSUME NameInv, NEW h \in Handles, Dispose(h)
    PROVE  NameInv' /\ (FileInv => FileInv')
<1> DEFINE r == handle[h]
           a == [r EXCEPT !.at = IF r.isDir THEN "publish" ELSE "openfile"]
<1>1. Good(r, dir, kind) /\ r.at = "dispose"
  BY DEF NameInv, Dispose
<1>2. \/ ~r.exists /\ MakeObject(h, r, "dir", "publish")
      \/ ~r.exists /\ MakeObject(h, r, "file", "openfile")
      \/ UNCHANGED <<dir, kind>> /\ Become(h, Refuse(r))
      \/ UNCHANGED <<dir, kind>> /\ Become(h, a)
      \/ r.exists /\ TruncateName(h, r)
  BY DEF Dispose, ApplyDisposition, shareVars
<1>3. CASE ~r.exists /\ MakeObject(h, r, "dir", "publish")
  BY <1>1, <1>3, MakeObjectTraces
<1>4. CASE ~r.exists /\ MakeObject(h, r, "file", "openfile")
  BY <1>1, <1>4, MakeObjectTraces
<1>5. CASE UNCHANGED <<dir, kind>> /\ Become(h, Refuse(r))
  BY <1>1, <1>5, Refusal DEF Good, Traced
<1>6. CASE UNCHANGED <<dir, kind>> /\ Become(h, a)
  <2>1. /\ Shaped(a) /\ a.at \in {"publish", "openfile"} /\ a.path = r.path /\ a.req = r.req
        /\ a.link = r.link /\ a.ino = r.ino /\ a.made = r.made
        /\ a.emptied = r.emptied /\ a.exists = r.exists
        /\ a.own = r.own /\ a.lost = r.lost
    BY <1>1 DEF Good, Shaped
  <2> HIDE DEF a
  <2> QED BY <1>1, <1>6, <2>1, StageOnly
<1> HIDE DEF a
<1> QED BY <1>1, <1>2, <1>3, <1>4, <1>5, <1>6, TruncateTraces

\* The file behind the path is there: the one made, or the one found.
LEMMA OpenFileTraces ==
    ASSUME NameInv, NEW h \in Handles, OpenFile(h)
    PROVE  NameInv' /\ (FileInv => FileInv')
<1> DEFINE r == handle[h]
           lost == r.lost \ ({r.path} \ {r.link})
           own == IF r.link = None THEN dir[r.path] ELSE r.own
           a == [r EXCEPT !.at = "publish", !.ino = dir[r.path], !.lost = lost, !.own = own]
           w == Withdraw(r)
<1>1. /\ r.at = "openfile" /\ UNCHANGED <<dir, kind>>
      /\ \/ kindAt(r.path) # "file" /\ Become(h, Refuse(r))
         \/ Become(h, a)
         \/ Become(h, w)
  BY DEF OpenFile, shareVars
<1>2. Good(r, dir, kind) /\ r.path \in Names
  BY <1>1 DEF NameInv, Good, Traced
<1>3. CASE kindAt(r.path) # "file" /\ Become(h, Refuse(r))
  <2>1. (r.made = None /\ r.emptied = FALSE) \/ r.path \in r.lost
    BY <1>1, <1>2, <1>3, NamespaceConstants DEF Good, Made, kindAt
  <2> QED BY <1>1, <1>3, <2>1, Refusal
<1>4. CASE Become(h, a)
  <2>1. /\ Shaped(a) /\ a.at = "publish" /\ a.path = r.path /\ a.link = r.link /\ a.req = r.req
        /\ a.made = r.made /\ a.ino = dir[r.path] /\ a.lost = lost /\ a.own = own
    BY <1>2 DEF Good, Shaped
  <2> HIDE DEF a
  <2>2. Traced(a)
    BY <1>1, <1>2, <2>1, NamespaceConstants DEF Good, Traced
  <2>3. Bound(a, dir)
    <3>1. CASE r.link = None
      BY <2>1, <3>1 DEF Bound, namePath
    <3>2. CASE r.link # None
      <4>1. r.link \notin lost => dir[r.link] = r.own
        BY <1>1, <1>2, <3>2 DEF Good, Bound, Named, namePath
      <4> QED BY <2>1, <3>2, <4>1 DEF Bound, namePath
    <3> QED BY <3>1, <3>2
  <2>4. Made(a, dir, kind)
    BY <2>1 DEF Made
  <2>5. Good(a, dir, kind)
    BY <2>1, <2>2, <2>3, <2>4 DEF Good
  <2>6. FileInv => Kept(a, dir, kind)
    <3> SUFFICES ASSUME FileInv PROVE Kept(a, dir, kind)
      OBVIOUS
    <3>1. r.link # None /\ r.path = r.link => r.link \in lost
      BY <1>1 DEF FileInv, Kept
    <3> QED BY <2>1, <3>1 DEF Kept
  <2> QED BY <1>1, <1>4, <2>5, <2>6, Becomes
<1>5. CASE Become(h, w)
  BY <1>1, <1>2, <1>5, WithdrawTraces
<1> QED BY <1>1, <1>3, <1>4, <1>5

\* The handle is published, or the CREATE withdrawn.
LEMMA AddOpenToTreeTraces ==
    ASSUME NameInv, NEW h \in Handles, AddOpenToTree(h)
    PROVE  NameInv' /\ (FileInv => FileInv')
<1> DEFINE r == handle[h]
           a == [r EXCEPT !.at = "open"]
           w == Withdraw(r)
<1>1. /\ r.at = "publish" /\ UNCHANGED <<dir, kind>>
      /\ Become(h, a) \/ Become(h, w)
  BY DEF AddOpenToTree, shareVars
<1>2. /\ Shaped(a) /\ a.at = "open" /\ a.path = r.path /\ a.req = r.req
      /\ a.link = r.link /\ a.ino = r.ino /\ a.made = r.made
      /\ a.emptied = r.emptied /\ a.exists = r.exists
      /\ a.own = r.own /\ a.lost = r.lost
  BY DEF NameInv, Good, Shaped
<1> HIDE DEF a, w
<1>3. CASE Become(h, a)
  BY <1>1, <1>2, <1>3, StageOnly
<1>4. CASE Become(h, w)
  BY <1>1, <1>4, WithdrawTraces DEF w
<1> QED BY <1>1, <1>3, <1>4

\* A stream is addressed by its base; no link, no descriptor.
LEMMA StreamBaseTraces ==
    ASSUME NameInv, NEW h \in Handles, StreamBase(h)
    PROVE  NameInv' /\ (FileInv => FileInv')
<1> DEFINE r == handle[h]
           a == [r EXCEPT !.at = "probe", !.path = r.req.name]
<1>1. /\ r.at = "base" /\ UNCHANGED <<dir, kind>>
      /\ Become(h, Refuse(r)) \/ Become(h, a)
  BY DEF StreamBase, shareVars
<1>2. Shaped(r) /\ Traced(r)
  BY DEF NameInv, Good
<1>3. CASE Become(h, Refuse(r))
  BY <1>1, <1>2, <1>3, Refusal DEF Traced
<1>4. CASE Become(h, a)
  <2>1. /\ Shaped(a) /\ a.at = "probe" /\ a.path = r.req.name /\ a.req = r.req
        /\ a.link = r.link /\ a.ino = r.ino /\ a.made = r.made
        /\ a.emptied = r.emptied
    BY <1>2 DEF Shaped
  <2> HIDE DEF a
  <2>2. Traced(a)
    BY <1>1, <1>2, <2>1, NamespaceConstants DEF Traced
  <2>3. Bound(a, dir) /\ Made(a, dir, kind) /\ Kept(a, dir, kind)
    BY <2>1 DEF Bound, Named, Made, Kept
  <2>4. Good(a, dir, kind)
    BY <2>1, <2>2, <2>3 DEF Good
  <2> QED BY <1>1, <1>4, <2>3, <2>4, Becomes
<1> QED BY <1>1, <1>3, <1>4

LEMMA StreamOpenTraces ==
    ASSUME NameInv, NEW h \in Handles, StreamProbe(h) \/ StreamLoad(h)
    PROVE  NameInv' /\ (FileInv => FileInv')
<1> DEFINE r == handle[h]
<1>0. Shaped(r) /\ Traced(r)
  BY DEF NameInv, Good
<1>1. CASE StreamProbe(h)
  <2> DEFINE a == [r EXCEPT !.at = "load"]
  <2>1. /\ r.at = "probe" /\ UNCHANGED <<dir, kind>>
        /\ Become(h, Refuse(r)) \/ Become(h, a)
    BY <1>1 DEF StreamProbe, shareVars
  <2>2. CASE Become(h, Refuse(r))
    BY <1>0, <2>1, <2>2, Refusal DEF Traced
  <2>3. CASE Become(h, a)
    <3>1. /\ Shaped(a) /\ a.at = "load" /\ a.path = r.path /\ a.req = r.req
          /\ a.link = r.link /\ a.ino = r.ino /\ a.made = r.made
          /\ a.emptied = r.emptied /\ a.exists = r.exists
          /\ a.own = r.own /\ a.lost = r.lost
      BY <1>0 DEF Shaped
    <3> HIDE DEF a
    <3> QED BY <2>1, <2>3, <3>1, StageOnly
  <2> QED BY <2>1, <2>2, <2>3
<1>2. CASE StreamLoad(h)
  <2>1. r.at = "load" /\ UNCHANGED <<dir, kind>>
    BY <1>2 DEF StreamLoad, shareVars
  <2>2. PICK w, f, b : Become(h, [r EXCEPT !.at = "publish", !.written = w, !.synthetic = f,
                                              !.buf = b])
    BY <1>2 DEF StreamLoad
  <2> DEFINE a == [r EXCEPT !.at = "publish", !.written = w, !.synthetic = f, !.buf = b]
  <2>3. /\ Shaped(a) /\ a.at = "publish" /\ a.path = r.path /\ a.req = r.req
        /\ a.link = r.link /\ a.ino = r.ino /\ a.made = r.made
        /\ a.emptied = r.emptied /\ a.exists = r.exists
        /\ a.own = r.own /\ a.lost = r.lost
    BY <1>0 DEF Shaped
  <2>4. Become(h, a)
    BY <2>2
  <2> HIDE DEF a
  <2> QED BY <2>1, <2>3, <2>4, StageOnly
<1> QED BY <1>1, <1>2

-----------------------------------------------------------------------------
(* The steps of use and of CLOSE.                                          *)

\* SET_INFO of the disposition, WRITE and truncation change no path.
LEMMA PlainUsesTrace ==
    ASSUME NameInv, NEW h \in Handles,
           \/ \E v \in {"new", "empty"} : WriteData(h, v)
           \/ \E on \in BOOLEAN : SetDisposition(h, on)
           \/ \E new \in Names, replace \in BOOLEAN : handleRename(h, new, replace)
           \/ StreamWrite(h) \/ StreamTruncate(h)
    PROVE  NameInv' /\ (FileInv => FileInv')
<1> DEFINE r == handle[h]
<1>0. Shaped(r)
  BY DEF NameInv, Good
<1>1. ASSUME NEW v, WriteData(h, v) PROVE NameInv' /\ (FileInv => FileInv')
  <2>1. UNCHANGED <<dir, kind, handle>>
    BY <1>1 DEF WriteData
  <2> QED BY <2>1 DEF NameInv, DiskInv, FileInv
<1>2. ASSUME NEW s, Become(h, s), UNCHANGED <<dir, kind>>, r.at = "open", s.at = "open",
             \E v, w, x : s = [r EXCEPT !.doc = v] \/ s = [r EXCEPT !.buf = w, !.written = x]
                          \/ s = [r EXCEPT !.buf = w]
      PROVE  NameInv' /\ (FileInv => FileInv')
  <2>1. /\ Shaped(s) /\ s.path = r.path /\ s.req = r.req
        /\ s.link = r.link /\ s.ino = r.ino /\ s.made = r.made
        /\ s.emptied = r.emptied /\ s.exists = r.exists
        /\ s.own = r.own /\ s.lost = r.lost
    BY <1>0, <1>2 DEF Shaped
  <2> QED BY <1>2, <2>1, StageOnly
<1>3. ASSUME NEW on, SetDisposition(h, on) PROVE NameInv' /\ (FileInv => FileInv')
  <2> DEFINE s == [r EXCEPT !.doc = on]
  <2>1. r.at = "open" /\ Become(h, s) /\ UNCHANGED <<dir, kind>>
    BY <1>3 DEF SetDisposition, Usable, shareVars
  <2>2. s.at = "open" /\ s = [r EXCEPT !.doc = on]
    BY <1>0, <2>1 DEF Shaped
  <2> HIDE DEF s
  <2> QED BY <1>2, <2>1, <2>2
<1>4. ASSUME NEW new \in Names, NEW replace, handleRename(h, new, replace)
      PROVE  NameInv' /\ (FileInv => FileInv')
  <2> DEFINE s == [r EXCEPT !.at = "rename", !.dest = new]
  <2>1. r.at = "open" /\ r.req.stream = None /\ Become(h, s) /\ UNCHANGED <<dir, kind>>
    BY <1>4 DEF handleRename, Usable, shareVars
  <2>2. /\ Shaped(s) /\ s.at = "rename" /\ s.dest = new /\ s.path = r.path /\ s.req = r.req
        /\ s.link = r.link /\ s.ino = r.ino /\ s.made = r.made
        /\ s.emptied = r.emptied /\ s.exists = r.exists
        /\ s.own = r.own /\ s.lost = r.lost
    BY <1>0 DEF Shaped
  <2> HIDE DEF s
  <2> QED BY <2>1, <2>2, StageOnly
<1>5. CASE StreamWrite(h)
  <2> DEFINE s == [r EXCEPT !.buf = "new", !.written = TRUE]
  <2>1. r.at = "open" /\ Become(h, s) /\ UNCHANGED <<dir, kind>>
    BY <1>5 DEF StreamWrite, Usable, shareVars
  <2>2. s.at = "open" /\ s = [r EXCEPT !.buf = "new", !.written = TRUE]
    BY <1>0, <2>1 DEF Shaped
  <2> HIDE DEF s
  <2> QED BY <1>2, <2>1, <2>2
<1>6. CASE StreamTruncate(h)
  <2> DEFINE s == [r EXCEPT !.buf = "empty"]
  <2>1. r.at = "open" /\ Become(h, s) /\ UNCHANGED <<dir, kind>>
    BY <1>6 DEF StreamTruncate, Usable, shareVars
  <2>2. s.at = "open" /\ s = [r EXCEPT !.buf = "empty"]
    BY <1>0, <2>1 DEF Shaped
  <2> HIDE DEF s
  <2> QED BY <1>2, <2>1, <2>2
<1> QED BY <1>1, <1>3, <1>4, <1>5, <1>6

\* A rename carries the handle's name along, and the file's path with it when
\* the two are one.
LEMMA RenameTraces ==
    ASSUME NameInv, NEW h \in Handles, Rename(h)
    PROVE  NameInv' /\ (FileInv => FileInv')
<1> DEFINE r == handle[h]
           from == namePath(r)
           back == [r EXCEPT !.at = "open", !.dest = None]
           d == IF dir[from] = dir[r.dest] THEN dir
                ELSE [dir EXCEPT ![r.dest] = dir[from], ![from] = None]
           lost == (r.lost \ {r.dest}) \cup (IF from \in r.lost THEN {r.dest} ELSE {})
                       \cup {n \in {r.path} \ {from} : d[n] # dir[n]}
           a == [renamed(back, r.dest) EXCEPT !.lost = lost]
<1>1. Good(r, dir, kind)
  BY DEF NameInv
<1>2. /\ Shaped(back) /\ back.at = "open" /\ back.path = r.path /\ back.req = r.req
      /\ back.link = r.link /\ back.ino = r.ino /\ back.made = r.made
      /\ back.emptied = r.emptied
      /\ back.exists = r.exists /\ back.own = r.own /\ back.lost = r.lost
  BY <1>1 DEF Good, Shaped
<1>3. /\ r.at = "rename" /\ UNCHANGED kind
      /\ \/ Become(h, back) /\ UNCHANGED dir
         \/ renameable(from, r.dest) /\ Rebind(h, d, a)
  <2> HIDE DEF from, d
  <2>1. /\ r.at = "rename" /\ UNCHANGED kind
        /\ IF ~renameable(from, r.dest) THEN Become(h, back) /\ UNCHANGED dir
           ELSE Rebind(h, d, [renamed(back, r.dest) EXCEPT
                            !.lost = (@ \ {r.dest}) \cup
                                     (IF from \in @ THEN {r.dest} ELSE {}) \cup
                                     {n \in {r.path} \ {from} : d[n] # dir[n]}])
    BY DEF Rename, from, d
  <2> HIDE DEF back
  <2>2. renamed(back, r.dest).lost = r.lost
    BY <1>2 DEF renamed, Shaped
  <2>3. [renamed(back, r.dest) EXCEPT
                            !.lost = (@ \ {r.dest}) \cup
                                     (IF from \in @ THEN {r.dest} ELSE {}) \cup
                                     {n \in {r.path} \ {from} : d[n] # dir[n]}] = a
    BY <2>2
  <2> QED BY <2>1, <2>3
<1>4. CASE Become(h, back) /\ UNCHANGED dir
  <2> HIDE DEF back
  <2> QED BY <1>2, <1>3, <1>4, StageOnly
<1>5. CASE renameable(from, r.dest) /\ Rebind(h, d, a)
  <2>1. /\ r.path \in Names /\ r.dest \in Names /\ from \in Names
        /\ (r.link # None => from = r.link) /\ (r.link = None => from = r.path)
    BY <1>1, <1>3 DEF Good, Traced, namePath
  <2>2. /\ dir \in [Names -> Inodes \cup {None}]
        /\ kind \in [Inodes -> {"free", "file", "dir", "link"}]
        /\ \A n \in Names : dir[n] # None => kind[dir[n]] # "free"
    BY DEF NameInv, DiskInv
  <2>3. dir[from] # None
    BY <1>5 DEF renameable
  <2>4. from \notin r.lost => dir[from] = r.own
    BY <1>1, <1>3 DEF Good, Bound, Named
  <2> HIDE DEF from
  <2>5. /\ d \in [Names -> Inodes \cup {None}] /\ d[r.dest] = dir[from]
        /\ \A n \in Names \ {from, r.dest} : d[n] = dir[n]
        /\ d[from] = None \/ d = dir
    BY <2>1, <2>2
  <2>6. \A n \in Names : d[n] # None => kind[d[n]] # "free"
    BY <2>1, <2>2, <2>5
  <2> HIDE DEF d
  <2>7. /\ Shaped(a) /\ a.at = "open" /\ a.ino = r.ino /\ a.made = r.made
        /\ a.emptied = r.emptied /\ a.req = r.req
        /\ a.own = r.own /\ a.lost = lost
        /\ a.link = (IF r.link # None THEN r.dest ELSE None)
        /\ a.path = (IF r.link # None THEN r.path ELSE r.dest)
    <3> HIDE DEF back, lost
    <3>1. CASE r.link # None
      <4>1. a = [back EXCEPT !.link = r.dest, !.lost = lost]
        BY <1>2, <3>1 DEF renamed
      <4> QED BY <1>2, <3>1, <4>1 DEF Shaped
    <3>2. CASE r.link = None
      <4>1. a = [back EXCEPT !.path = r.dest, !.lost = lost]
        BY <1>2, <3>2 DEF renamed
      <4> QED BY <1>2, <3>2, <4>1 DEF Shaped
    <3> QED BY <3>1, <3>2
  <2> HIDE DEF a, back
  <2>8. Traced(a)
    <3>1. r.made # None => r.link = None /\ r.req.stream = None
      BY <1>1 DEF Good, Traced
    <3> QED BY <2>1, <2>7, <3>1, NamespaceConstants DEF Traced
  <2>9. namePath(a) = r.dest
    BY <2>1, <2>7, NamespaceConstants DEF namePath
  <2>10. Bound(a, d) /\ Made(a, d, kind)
    BY <2>4, <2>5, <2>7, <2>9 DEF Bound, Made
  <2>11. Good(a, d, kind)
    BY <2>7, <2>8, <2>10 DEF Good
  <2>12. ASSUME FileInv PROVE Distinct(d) /\ Kept(a, d, kind)
    <3>1. Distinct(dir) /\ Kept(r, dir, kind)
      BY <2>12 DEF FileInv
    <3>2. Distinct(d)
      BY <2>1, <2>2, <2>3, <2>5, <3>1 DEF Distinct
    <3>3. from # r.dest => d[r.dest] # dir[r.dest]
      BY <2>1, <2>3, <2>5, <3>1 DEF Distinct
    <3>4. from = r.dest => d = dir
      BY DEF d
    <3>5. r.link # None => (r.path = r.link => r.link \in r.lost)
      BY <1>3, <3>1 DEF Kept
    <3>6. CASE r.link # None
      <4>1. r.path = r.dest => r.path \in lost
        BY <2>1, <3>3, <3>4, <3>5, <3>6
      <4>2. r.path \notin lost => r.path \notin r.lost /\ d[r.path] = dir[r.path]
        BY <2>1, <3>5, <3>6, <4>1
      <4>3. r.ino # None /\ r.path \notin r.lost => dir[r.path] = r.ino
        BY <1>3, <3>1 DEF Kept
      <4>4. Kept(a, d, kind)
        BY <2>7, <3>6, <4>1, <4>2, <4>3 DEF Kept
      <4> QED BY <3>2, <4>4
    <3>7. CASE r.link = None
      <4>1. r.dest \notin lost => r.path \notin r.lost
        BY <2>1, <3>7
      <4>2. r.ino # None /\ r.path \notin r.lost => dir[r.path] = r.ino
        BY <1>3, <3>1 DEF Kept
      <4>3. Kept(a, d, kind)
        BY <2>1, <2>5, <2>7, <3>7, <4>1, <4>2 DEF Kept
      <4> QED BY <3>2, <4>3
    <3> QED BY <3>6, <3>7
  <2> QED BY <1>3, <1>5, <2>2, <2>5, <2>6, <2>11, <2>12, Rebinds
<1> QED BY <1>3, <1>4, <1>5

LEMMA ClosesTrace ==
    ASSUME NameInv, NEW h \in Handles, Closes(h)
    PROVE  NameInv' /\ (FileInv => FileInv')
<1> DEFINE r == handle[h]
           closed == [r EXCEPT !.at = "closed"]
<1>1. Good(r, dir, kind)
  BY DEF NameInv
<1>2. /\ Shaped(closed) /\ closed.at = "closed" /\ closed.path = r.path /\ closed.req = r.req
      /\ closed.link = r.link /\ closed.ino = r.ino /\ closed.made = r.made
      /\ closed.emptied = r.emptied
      /\ closed.exists = r.exists /\ closed.own = r.own /\ closed.lost = r.lost
  BY <1>1 DEF Good, Shaped
<1> HIDE DEF closed
<1>3. CASE handleClose(h)
  <2> DEFINE s == [r EXCEPT !.at = IF r.doc THEN "unlink" ELSE "closed"]
  <2>1. r.at = "open" /\ r.req.stream = None /\ Become(h, s) /\ UNCHANGED <<dir, kind>>
    BY <1>3 DEF handleClose, shareVars
  <2>2. /\ Shaped(s) /\ s.at \in {"unlink", "closed"} /\ s.path = r.path /\ s.req = r.req
        /\ s.link = r.link /\ s.ino = r.ino /\ s.made = r.made
        /\ s.emptied = r.emptied /\ s.exists = r.exists
        /\ s.own = r.own /\ s.lost = r.lost
    BY <1>1 DEF Good, Shaped
  <2> HIDE DEF s
  <2> QED BY <2>1, <2>2, StageOnly
<1>4. CASE StreamClose(h)
  <2>1. r.at = "open" /\ Become(h, closed) /\ UNCHANGED <<dir, kind>>
    BY <1>4 DEF StreamClose, closed
  <2> QED BY <1>2, <2>1, StageOnly
<1>5. CASE Unlink(h)
  <2> DEFINE d == [dir EXCEPT ![namePath(r)] = None]
  <2>1. r.at = "unlink" /\ Rebind(h, d, closed) /\ UNCHANGED kind
    BY <1>5 DEF Unlink, closed
  <2>2. /\ dir \in [Names -> Inodes \cup {None}]
        /\ kind \in [Inodes -> {"free", "file", "dir", "link"}]
        /\ \A n \in Names : dir[n] # None => kind[dir[n]] # "free"
    BY DEF NameInv, DiskInv
  <2>3. d \in [Names -> Inodes \cup {None}] /\ \A n \in Names : d[n] \in {dir[n], None}
    BY <2>2
  <2> HIDE DEF d
  <2>4. Traced(closed)
    BY <1>1, <1>2 DEF Good, Traced
  <2>5. Bound(closed, d) /\ Made(closed, d, kind) /\ Kept(closed, d, kind)
    BY <1>2 DEF Bound, Named, Made, Kept
  <2>6. Good(closed, d, kind)
    BY <1>2, <2>4, <2>5 DEF Good
  <2>7. FileInv => Distinct(d)
    BY <2>2, <2>3 DEF FileInv, Distinct
  <2>8. \A n \in Names : d[n] # None => kind'[d[n]] # "free"
    BY <2>1, <2>2, <2>3
  <2> QED BY <2>1, <2>2, <2>3, <2>5, <2>6, <2>7, <2>8, Rebinds
<1> QED BY <1>3, <1>4, <1>5 DEF Closes

LEMMA StepTraces ==
    ASSUME NameInv, [Next]_vars
    PROVE  NameInv' /\ (FileInv => FileInv')
<1>1. ASSUME NEW h \in Handles, Creates(h) PROVE NameInv' /\ (FileInv => FileInv')
  BY <1>1, AdmissionTraces, LstatNameTraces, ResolveLinkTraces, LstatTargetTraces,
     DisposeTraces, OpenFileTraces, StreamBaseTraces, StreamOpenTraces,
     AddOpenToTreeTraces DEF Creates
<1>2. ASSUME NEW h \in Handles, Uses(h) PROVE NameInv' /\ (FileInv => FileInv')
  BY <1>2, PlainUsesTrace, RenameTraces DEF Uses
<1>3. CASE UNCHANGED vars
  BY <1>3 DEF vars, NameInv, DiskInv, FileInv
<1> QED BY <1>1, <1>2, <1>3, ClosesTrace DEF Next, HandleStep

LEMMA InitTraces == Init => NameInv /\ (NoHardLinks => FileInv)
<1> SUFFICES ASSUME Init PROVE NameInv /\ (NoHardLinks => FileInv)
  OBVIOUS
<1>1. handle = [h \in Handles |-> Fresh] /\ dir = FirstDir /\ kind = FirstKind
  BY DEF Init
<1>2. /\ Shaped(Fresh) /\ Fresh.at = "idle" /\ Fresh.path = None /\ Fresh.link = None
      /\ Fresh.made = None /\ Fresh.emptied = FALSE /\ Fresh.ino = None
  BY DEF Shaped, Fresh
<1>3. Traced(Fresh) /\ Bound(Fresh, dir) /\ Made(Fresh, dir, kind) /\ Kept(Fresh, dir, kind)
  BY <1>2 DEF Traced, Bound, Named, Made, Kept
<1>4. Good(Fresh, dir, kind)
  BY <1>2, <1>3 DEF Good
<1>5. NameInv
  BY <1>1, <1>4, NamespaceConstants DEF NameInv, DiskInv
<1> QED BY <1>1, <1>3, <1>5 DEF NoHardLinks, FileInv

-----------------------------------------------------------------------------
\* A CREATE that the checks, the switch over the dispositions or the name itself
\* refuses has neither made nor emptied anything, and one that is withdrawn after
\* the switch leaves what it made under its name, until another handle rebinds that
\* name (handleCreate: every check that needs nothing but the request and the stat
\* comes before the switch; nothing after it takes back what it did).
THEOREM RefusalsAccounted == Spec => []LeftOnlyWhenWithdrawn
<1>1. NameInv => LeftOnlyWhenWithdrawn
  <2> SUFFICES ASSUME NameInv, NEW h \in Handles, handle[h].path \notin handle[h].lost
               PROVE  LET r == handle[h] IN
                      /\ r.at = "refused" => r.made = None /\ ~r.emptied
                      /\ r.at = "withdrawn" /\ r.made # None => dir[r.path] = r.own
    BY DEF LeftOnlyWhenWithdrawn
  <2> QED BY DEF NameInv, Good, Traced, Bound, Named, namePath, Made
<1> QED BY <1>1, InitTraces, StepTraces, PTL DEF Spec

\* DELETE_ON_CLOSE and a rename take out of the directory the object the
\* handle's own name was bound to, and besides it only what a rename replaces,
\* until another handle rebinds that name (handleClose, handleRename and
\* Open.namePath).
THEOREM RemovesItsOwn == Spec => OwnNameOnly
<1> DEFINE Own == \A h \in Handles : LET r == handle[h] IN
                    (Unlink(h) \/ Rename(h)) /\ namePath(r) \notin r.lost =>
                        \A n \in Names : dir[n] # None /\ dir'[n] # dir[n] =>
                            dir[n] = r.own \/ (r.at = "rename" /\ n = r.dest)
<1>1. NameInv => Own
  <2> SUFFICES ASSUME NameInv, NEW h \in Handles, Unlink(h) \/ Rename(h),
                      namePath(handle[h]) \notin handle[h].lost,
                      NEW n \in Names, dir'[n] # dir[n]
               PROVE  \/ dir[n] = handle[h].own
                      \/ handle[h].at = "rename" /\ n = handle[h].dest
    OBVIOUS
  <2> DEFINE r == handle[h]
             from == namePath(r)
  <2>1. r.at \in {"unlink", "rename"}
    BY DEF Unlink, Rename
  <2>2. dir[from] = r.own
    BY <2>1 DEF NameInv, Good, Bound, Named
  <2>3. dir \in [Names -> Inodes \cup {None}]
    BY DEF NameInv, DiskInv
  <2> HIDE DEF from
  <2>4. CASE Unlink(h)
    <3>1. dir' = [dir EXCEPT ![from] = None]
      BY <2>4 DEF Unlink, Rebind, from
    <3> QED BY <2>2, <2>3, <3>1
  <2>5. CASE Rename(h)
    <3>1. r.at = "rename" /\ (dir' = dir \/
                dir' = [dir EXCEPT ![r.dest] = dir[from], ![from] = None])
      BY <2>5 DEF Rename, Rebind, from
    <3> QED BY <2>2, <2>3, <3>1
  <2> QED BY <2>4, <2>5
<1>2. NameInv /\ [Next]_vars => [Own]_vars
  BY <1>1
<1> HIDE DEF Own
<1>3. [][Own]_vars => OwnNameOnly
  BY PTL DEF Own, OwnNameOnly
<1> QED BY <1>2, <1>3, InitTraces, StepTraces, PTL DEF Spec

\* The paths a handle keeps go on naming its file, and its name the object it
\* was opened by, through all its own renames and until another handle rebinds
\* them, in a directory without hard links (handleRename's updates of Open.Path
\* and Open.LinkPath).
THEOREM PathsNameTheFile == NoHardLinks => (Spec => []PathsFollowHandle)
<1> SUFFICES ASSUME NoHardLinks PROVE Spec => []PathsFollowHandle
  OBVIOUS
<1>1. NameInv /\ FileInv => PathsFollowHandle
  BY DEF NameInv, FileInv, Good, Traced, Bound, Named, namePath, Kept, PathsFollowHandle
<1>2. Init => NameInv /\ FileInv
  BY InitTraces
<1>3. NameInv /\ FileInv /\ [Next]_vars => NameInv' /\ FileInv'
  BY StepTraces
<1> QED BY <1>1, <1>2, <1>3, PTL DEF Spec

-----------------------------------------------------------------------------
(* Induction.                                                              *)

\* A nonempty set of naturals has a least element.
LEMMA LeastElement ==
    ASSUME NEW S, S \subseteq Nat, S # {}
    PROVE  \E n \in S : \A m \in S : n <= m
<1> DEFINE R == {ss \in Nat \X Nat : ss[1] < ss[2]}
<1>0. IsWellFoundedOn(R, Nat)
  BY NatLessThanWellFounded, Zenon DEF OpToRel
<1>1. \E n \in S : \A m \in S : ~(<<m, n>> \in R)
  <2> HIDE DEF R
  <2> QED  BY <1>0, WFMin, Zenon
<1>2. PICK n \in S : \A m \in S : ~(<<m, n>> \in R)
  BY <1>1
<1>3. \A m \in S : ~(m < n)
  BY <1>2
<1> QED  BY <1>2, <1>3

\* Induction: a set of naturals with zero in it that goes on from each of its
\* elements below n to the next has all of 0..n.
LEMMA Induction ==
    ASSUME NEW n \in Nat, NEW P, 0 \in P, \A i \in 0..n : i \in P /\ i < n => i + 1 \in P
    PROVE  \A i \in 0..n : i \in P
<1> SUFFICES ASSUME NEW k \in 0..n, k \notin P  PROVE FALSE
  OBVIOUS
<1> DEFINE B == {i \in 0..n : i \notin P}
<1>1. PICK m \in B : \A i \in B : m <= i
  <2>1. B \subseteq Nat /\ B # {}
    OBVIOUS
  <2> HIDE DEF B
  <2> QED  BY <2>1, LeastElement
<1>2. m \in 0..n /\ m # 0 /\ m - 1 \in 0..n /\ m - 1 < n /\ (m - 1) + 1 = m
  OBVIOUS
<1>3. m - 1 \in P
  BY <1>1, <1>2
<1> QED  BY <1>1, <1>2, <1>3

\* The states of a loop of n turns, turn t of which takes state s to g[t][s].
LoopRun(S, s0, g, n, f) ==
    /\ f \in [0..n -> S]
    /\ \A t \in 0..n : f[t] = IF t = 0 THEN s0 ELSE g[t][f[t - 1]]

LEMMA LoopRuns ==
    ASSUME NEW S, NEW s0 \in S, NEW g \in [Nat -> [S -> S]], NEW n \in Nat
    PROVE  \E f : LoopRun(S, s0, g, n, f)
<1> USE DEF LoopRun
<1> DEFINE run(m, f) == LoopRun(S, s0, g, m, f)
           P == {m \in Nat : \E f : run(m, f)}
<1>1. 0 \in P
  <2>1. run(0, [t \in 0..0 |-> s0])
    OBVIOUS
  <2> QED  BY <2>1
<1>2. ASSUME NEW m \in 0..n, m \in P  PROVE m + 1 \in P
  <2>1. PICK f : run(m, f)
    BY <1>2
  <2>2. PICK e \in S : e = g[m + 1][f[m]]
    BY <2>1
  <2> DEFINE f2 == [t \in 0..(m + 1) |-> IF t = m + 1 THEN e ELSE f[t]]
  <2>3. f2 \in [0..(m + 1) -> S]
    BY <2>1
  <2>4. \A t \in 0..m : f2[t] = f[t]
    OBVIOUS
  <2>5. f2[m + 1] = e
    OBVIOUS
  <2> HIDE DEF f2
  <2>6. ASSUME NEW t \in 0..(m + 1)  PROVE f2[t] = IF t = 0 THEN s0 ELSE g[t][f2[t - 1]]
    <3>1. CASE t = m + 1
      BY <3>1, <2>2, <2>4, <2>5
    <3>2. CASE t = 0
      BY <3>2, <2>1, <2>4
    <3>3. CASE t \in 1..m
      <4>1. t \in 0..m /\ t - 1 \in 0..m /\ t # 0
        BY <3>3
      <4>2. f[t] = g[t][f[t - 1]] /\ f2[t] = f[t] /\ f2[t - 1] = f[t - 1]
        BY <4>1, <2>1, <2>4
      <4> QED  BY <4>1, <4>2
    <3> QED  BY <3>1, <3>2, <3>3
  <2>7. run(m + 1, f2)
    BY <2>3, <2>6
  <2> QED  BY <2>7
<1> HIDE DEF P
<1>3. \A i \in 0..n : i \in P
  BY <1>1, <1>2, Induction, Zenon
<1>4. n \in P
  BY <1>3
<1> QED  BY <1>4 DEF P

-----------------------------------------------------------------------------
(* The matcher.                                                             *)

ScanState == [p : Nat, n : Nat, starP : Nat, starN : Nat, fail : BOOLEAN]

scanTurn(pattern, name, cs, at) ==
    IF scanDone(pattern, name, at) THEN at ELSE scanStep(pattern, name, cs, at)

LEMMA ScanTurnType ==
    ASSUME NEW pattern, NEW name, NEW cs, NEW at \in ScanState
    PROVE  scanTurn(pattern, name, cs, at) \in ScanState
<1>1. CASE scanDone(pattern, name, at)
  BY <1>1 DEF scanTurn
<1>2. CASE ~scanDone(pattern, name, at)
  <2>1. PICK p1 \in Nat, n1 \in Nat, s1 \in Nat : p1 = at.p + 1 /\ n1 = at.n + 1 /\ s1 = at.starN + 1
    BY DEF ScanState
  <2>2. PICK n2 \in Nat : n2 = at.starN + 1
    BY DEF ScanState
  <2>3. scanStep(pattern, name, cs, at) \in
          {[at EXCEPT !.p = p1, !.starP = p1, !.starN = at.n],
           [at EXCEPT !.p = p1, !.n = n1], [at EXCEPT !.fail = TRUE],
           [at EXCEPT !.p = at.starP, !.n = n2, !.starN = s1]}
    BY <2>1, <2>2 DEF scanStep
  <2> QED  BY <1>2, <2>3 DEF scanTurn, ScanState
<1> QED  BY <1>1, <1>2

\* The loop of scan, as the sequence of its states.
ScanRun(pattern, name, cs, f) ==
    /\ DOMAIN f = 0..Turns(pattern, name)
    /\ f[0] = scanStart
    /\ \A t \in 1..Turns(pattern, name) : f[t] = scanTurn(pattern, name, cs, f[t - 1])

LEMMA ScanIsRun ==
    ASSUME NEW pattern, NEW name, NEW cs, Len(pattern) \in Nat, Len(name) \in Nat
    PROVE  \E f : ScanRun(pattern, name, cs, f) /\ scan(pattern, name, cs) = f[Turns(pattern, name)]
<1> DEFINE n == Turns(pattern, name)
           turn(at) == scanTurn(pattern, name, cs, at)
           g == [t \in Nat |-> [at \in ScanState |-> turn(at)]]
           is(f) == f = [t \in 0..n |-> IF t = 0 THEN scanStart ELSE turn(f[t - 1])]
<1>0. n \in Nat
  BY DEF Turns
<1>1. \A at \in ScanState : turn(at) \in ScanState
  BY ScanTurnType
<1>2. scanStart \in ScanState
  BY DEF scanStart, ScanState
<1> HIDE DEF turn
<1>3. g \in [Nat -> [ScanState -> ScanState]]
  BY <1>1
<1>4. \A t \in Nat, at \in ScanState : g[t][at] = turn(at)
  OBVIOUS
<1> HIDE DEF n, g
<1>5. PICK f : LoopRun(ScanState, scanStart, g, n, f)
  BY <1>0, <1>2, <1>3, LoopRuns, Zenon
<1>6. \A t \in 0..n : f[t] = IF t = 0 THEN scanStart ELSE turn(f[t - 1])
  BY <1>0, <1>4, <1>5 DEF LoopRun
<1>7. \E h : is(h)
  <2>1. is(f)
    BY <1>5, <1>6 DEF LoopRun
  <2> QED  BY <2>1, Zenon
<1>8. scan(pattern, name, cs) = (CHOOSE h : is(h))[n]
  BY DEF scan, n, turn, scanTurn
<1>9. PICK h : is(h) /\ scan(pattern, name, cs) = h[n]
  <2> HIDE DEF is
  <2> QED  BY <1>7, <1>8
<1>10. DOMAIN h = 0..n /\ h[0] = scanStart /\ \A t \in 1..n : h[t] = turn(h[t - 1])
  BY <1>0, <1>9
<1> QED  BY <1>9, <1>10 DEF ScanRun, turn, n

\* Rune i of the pattern stands for rune j of the name.
Agrees(pattern, name, cs, i, j) == pattern[i] = "?" \/ same(pattern[i], name[j], cs)

\* Rune i of the pattern stands for the runes after a up to b.
Piece(pattern, name, cs, i, a, b) ==
    IF pattern[i] = "*" THEN a <= b
    ELSE b = a + 1 /\ Agrees(pattern, name, cs, i, b)

\* The pattern from rune i on means the name from rune j on.
Suffix(pattern, name, cs, i, j) ==
    \E cut \in [0..Len(pattern) -> 0..Len(name)] :
        /\ cut[i - 1] = j - 1 /\ cut[Len(pattern)] = Len(name)
        /\ \A k \in i..Len(pattern) : Piece(pattern, name, cs, k, cut[k - 1], cut[k])

LEMMA MatchesIsSuffix ==
    ASSUME NEW pattern, NEW name, NEW cs
    PROVE  Matches(pattern, name, cs) <=> pattern = <<>> \/ Suffix(pattern, name, cs, 1, 1)
<1>1. 1 - 1 = 0
  OBVIOUS
<1> QED  BY <1>1 DEF Matches, Suffix, Piece, Agrees

LEMMA SuffixEnd ==
    ASSUME NEW pattern, NEW name, NEW cs, Len(pattern) \in Nat, Len(name) \in Nat,
           NEW j \in 1..(Len(name) + 1)
    PROVE  Suffix(pattern, name, cs, Len(pattern) + 1, j) <=> j = Len(name) + 1
<1> DEFINE P == Len(pattern)  N == Len(name)
<1>1. ASSUME Suffix(pattern, name, cs, P + 1, j)  PROVE j = N + 1
  BY <1>1 DEF Suffix
<1>2. ASSUME j = N + 1  PROVE Suffix(pattern, name, cs, P + 1, j)
  <2> DEFINE cut == [k \in 0..P |-> N]
  <2>1. cut \in [0..P -> 0..N] /\ cut[(P + 1) - 1] = j - 1 /\ cut[P] = N
    BY <1>2
  <2>2. \A k \in (P + 1)..P : Piece(pattern, name, cs, k, cut[k - 1], cut[k])
    OBVIOUS
  <2> HIDE DEF cut
  <2> QED  BY <2>1, <2>2 DEF Suffix
<1> QED  BY <1>1, <1>2

\* The two ways a suffix goes on.
LEMMA SuffixNext ==
    ASSUME NEW pattern, NEW name, NEW cs, Len(pattern) \in Nat, Len(name) \in Nat,
           NEW i \in 1..Len(pattern), NEW j \in 1..(Len(name) + 1)
    PROVE  Suffix(pattern, name, cs, i, j) <=>
             \E m \in 1..(Len(name) + 1) :
                /\ Piece(pattern, name, cs, i, j - 1, m - 1)
                /\ Suffix(pattern, name, cs, i + 1, m)
<1> DEFINE P == Len(pattern)  N == Len(name)
           good(k, cut) == Piece(pattern, name, cs, k, cut[k - 1], cut[k])
<1>1. ASSUME Suffix(pattern, name, cs, i, j)
      PROVE  \E m \in 1..(N + 1) : /\ Piece(pattern, name, cs, i, j - 1, m - 1)
                                   /\ Suffix(pattern, name, cs, i + 1, m)
  <2>1. PICK cut \in [0..P -> 0..N] : cut[i - 1] = j - 1 /\ cut[P] = N /\ \A k \in i..P : good(k, cut)
    BY <1>1 DEF Suffix
  <2>2. cut[i] \in 0..N
    BY <2>1
  <2>3. PICK m \in 1..(N + 1) : m - 1 = cut[i]
    <3>1. cut[i] + 1 \in 1..(N + 1) /\ (cut[i] + 1) - 1 = cut[i]
      BY <2>2
    <3> QED  BY <3>1
  <2>4. Piece(pattern, name, cs, i, j - 1, m - 1)
    BY <2>1, <2>3
  <2>5. cut[(i + 1) - 1] = m - 1
    BY <2>3
  <2>6. \A k \in (i + 1)..P : good(k, cut)
    BY <2>1
  <2>7. Suffix(pattern, name, cs, i + 1, m)
    BY <2>1, <2>5, <2>6 DEF Suffix
  <2> QED  BY <2>4, <2>7
<1>2. ASSUME NEW m \in 1..(N + 1), Piece(pattern, name, cs, i, j - 1, m - 1),
             Suffix(pattern, name, cs, i + 1, m)
      PROVE  Suffix(pattern, name, cs, i, j)
  <2>1. PICK cut \in [0..P -> 0..N] : cut[(i + 1) - 1] = m - 1 /\ cut[P] = N /\ \A k \in (i + 1)..P : good(k, cut)
    BY <1>2 DEF Suffix
  <2> DEFINE new == [k \in 0..P |-> IF k = i - 1 THEN j - 1 ELSE cut[k]]
  <2>2. new \in [0..P -> 0..N] /\ new[i - 1] = j - 1 /\ new[P] = N /\ new[i] = m - 1
    BY <2>1
  <2>3. \A k \in i..P : new[k] = cut[k]
    OBVIOUS
  <2> HIDE DEF new
  <2>4. ASSUME NEW k \in i..P  PROVE good(k, new)
    <3>1. CASE k = i
      BY <3>1, <1>2, <2>2
    <3>2. CASE k \in (i + 1)..P
      <4>1. new[k] = cut[k] /\ new[k - 1] = cut[k - 1]
        BY <3>2, <2>3
      <4> QED  BY <4>1, <3>2, <2>1
    <3> QED  BY <3>1, <3>2
  <2> QED  BY <2>2, <2>4 DEF Suffix
<1> QED  BY <1>1, <1>2

LEMMA SuffixRune ==
    ASSUME NEW pattern, NEW name, NEW cs, Len(pattern) \in Nat, Len(name) \in Nat,
           NEW i \in 1..Len(pattern), NEW j \in 1..(Len(name) + 1), pattern[i] # "*"
    PROVE  Suffix(pattern, name, cs, i, j) <=>
             /\ j <= Len(name) /\ Agrees(pattern, name, cs, i, j)
             /\ Suffix(pattern, name, cs, i + 1, j + 1)
<1>1. \A m \in 1..(Len(name) + 1) :
        Piece(pattern, name, cs, i, j - 1, m - 1) <=> m = j + 1 /\ Agrees(pattern, name, cs, i, j)
  BY DEF Piece
<1>2. j + 1 \in 1..(Len(name) + 1) <=> j <= Len(name)
  OBVIOUS
<1>3. Suffix(pattern, name, cs, i, j) <=>
        \E m \in 1..(Len(name) + 1) : /\ Piece(pattern, name, cs, i, j - 1, m - 1)
                                      /\ Suffix(pattern, name, cs, i + 1, m)
  BY SuffixNext
<1> QED  BY <1>1, <1>2, <1>3

LEMMA SuffixStar ==
    ASSUME NEW pattern, NEW name, NEW cs, Len(pattern) \in Nat, Len(name) \in Nat,
           NEW i \in 1..Len(pattern), NEW j \in 1..(Len(name) + 1), pattern[i] = "*"
    PROVE  Suffix(pattern, name, cs, i, j) <=>
             \E m \in j..(Len(name) + 1) : Suffix(pattern, name, cs, i + 1, m)
<1>1. \A m \in 1..(Len(name) + 1) : Piece(pattern, name, cs, i, j - 1, m - 1) <=> m \in j..(Len(name) + 1)
  BY DEF Piece
<1>2. \A m \in j..(Len(name) + 1) : m \in 1..(Len(name) + 1)
  OBVIOUS
<1>3. Suffix(pattern, name, cs, i, j) <=>
        \E m \in 1..(Len(name) + 1) : /\ Piece(pattern, name, cs, i, j - 1, m - 1)
                                      /\ Suffix(pattern, name, cs, i + 1, m)
  BY SuffixNext
<1> QED  BY <1>1, <1>2, <1>3

\* At the end of the name only stars may be left.
LEMMA SuffixStars ==
    ASSUME NEW pattern, NEW name, NEW cs, Len(pattern) \in Nat, Len(name) \in Nat,
           NEW i \in 1..(Len(pattern) + 1)
    PROVE  Suffix(pattern, name, cs, i, Len(name) + 1) <=>
             \A k \in i..Len(pattern) : pattern[k] = "*"
<1> DEFINE P == Len(pattern)  N == Len(name)
           S(a) == Suffix(pattern, name, cs, a, N + 1)
           stars(a) == \A k \in a..P : pattern[k] = "*"
           D == {d \in Nat : S(P + 1 - d) <=> stars(P + 1 - d)}
<1>0. N + 1 \in 1..(N + 1)
  OBVIOUS
<1>1. 0 \in D
  <2>1. S(P + 1) <=> TRUE
    BY <1>0, SuffixEnd
  <2>2. stars(P + 1) /\ P + 1 - 0 = P + 1
    OBVIOUS
  <2> HIDE DEF S, stars
  <2> QED  BY <2>1, <2>2
<1>2. ASSUME NEW d \in 0..P, d \in D, d < P  PROVE d + 1 \in D
  <2>0. P - d \in 1..P
    <3>1. P \in Nat /\ d \in 0..P /\ d < P
      BY <1>2, Zenon
    <3> HIDE DEF P, D
    <3> QED  BY <3>1
  <2>1. PICK a \in 1..P : a = P - d
    BY <2>0, Zenon
  <2>2. P + 1 - d = a + 1 /\ P + 1 - (d + 1) = a
    BY <2>1
  <2>3. S(a + 1) <=> stars(a + 1)
    <3> HIDE DEF S, stars
    <3> QED  BY <1>2, <2>2
  <2>4. CASE pattern[a] = "*"
    <3>1. S(a) <=> \E m \in (N + 1)..(N + 1) : Suffix(pattern, name, cs, a + 1, m)
      BY <2>4, <1>0, SuffixStar
    <3>2. S(a) <=> S(a + 1)
      BY <3>1
    <3>3. stars(a) <=> stars(a + 1)
      BY <2>4
    <3>4. S(a) <=> stars(a)
      BY <3>2, <3>3, <2>3
    <3> HIDE DEF S, stars
    <3> QED  BY <3>4, <2>2
  <2>5. CASE pattern[a] # "*"
    <3>1. ~S(a)
      <4>1. Suffix(pattern, name, cs, a, N + 1) => N + 1 <= N
        BY <2>5, <1>0, SuffixRune
      <4>2. ~(N + 1 <= N)
        OBVIOUS
      <4> QED  BY <4>1, <4>2, Zenon
    <3>2. ~stars(a)
      BY <2>5
    <3> HIDE DEF S, stars
    <3> QED  BY <3>1, <3>2, <2>2
  <2> QED  BY <2>4, <2>5
<1> HIDE DEF D
<1>3. \A d \in 0..P : d \in D
  BY <1>1, <1>2, Induction, Zenon
<1>4. P + 1 - i \in 0..(P + 1)
  OBVIOUS
<1>5. CASE P + 1 - i \in 0..P
  <2>1. P + 1 - (P + 1 - i) = i
    OBVIOUS
  <2>2. S(P + 1 - (P + 1 - i)) <=> stars(P + 1 - (P + 1 - i))
    <3> HIDE DEF S, stars
    <3> QED  BY <1>3, <1>5 DEF D
  <2> QED  BY <2>1, <2>2
<1> QED  BY <1>5

\* Without a star on the way, both sides advance together.
LEMMA SuffixShift ==
    ASSUME NEW pattern, NEW name, NEW cs, Len(pattern) \in Nat, Len(name) \in Nat,
           NEW i \in 1..(Len(pattern) + 1), NEW j \in 1..(Len(name) + 1),
           NEW d \in Nat, i + d <= Len(pattern) + 1, \A k \in i..(i + d - 1) : pattern[k] # "*",
           Suffix(pattern, name, cs, i, j)
    PROVE  j + d <= Len(name) + 1 /\ Suffix(pattern, name, cs, i + d, j + d)
<1> DEFINE N == Len(name)
           S(e) == j + e <= N + 1 /\ Suffix(pattern, name, cs, i + e, j + e)
           D == {e \in Nat : S(e)}
<1>1. 0 \in D
  OBVIOUS
<1>2. ASSUME NEW e \in 0..d, e \in D, e < d  PROVE e + 1 \in D
  <2>1. PICK a \in 1..Len(pattern), b \in 1..(N + 1) : a = i + e /\ b = j + e
    BY <1>2
  <2>2. pattern[a] # "*" /\ Suffix(pattern, name, cs, a, b)
    BY <1>2, <2>1
  <2>3. b <= N /\ Suffix(pattern, name, cs, a + 1, b + 1)
    BY <2>2, SuffixRune
  <2>4. a + 1 = i + (e + 1) /\ b + 1 = j + (e + 1)
    BY <2>1
  <2> QED  BY SMTT(30), <2>3, <2>4
<1>3. \A e \in 0..d : e \in D
  <2> HIDE DEF D
  <2> QED  BY <1>1, <1>2, Induction, Zenon
<1>4. d \in 0..d
  OBVIOUS
<1> QED  BY <1>3, <1>4

\* How far the loop has come: it never takes as many turns as Turns allows.
progress(pattern, at) == at.starN * (Len(pattern) + 1) + at.p - 1

\* The place to come back to is just after a star, and no star has come since.
Remembered(pattern, at) ==
    /\ at.starP \in 2..at.p /\ at.starN \in 1..at.n
    /\ pattern[at.starP - 1] = "*"
    /\ at.n - at.starN = at.p - at.starP
    /\ \A k \in at.starP..(at.p - 1) : pattern[k] # "*"

\* What is still open decides: the rest from here, or from just after the last
\* star with one more rune of the name given to it.
StillOpen(pattern, name, cs, at) ==
    \/ Suffix(pattern, name, cs, at.p, at.n)
    \/ at.starP # 0 /\ \E j \in (at.starN + 1)..(Len(name) + 1) : Suffix(pattern, name, cs, at.starP, j)

ScanPlaces(pattern, name, at) ==
    /\ at \in ScanState
    /\ at.p \in 1..(Len(pattern) + 1) /\ at.n \in 1..(Len(name) + 1)
    /\ (at.starP = 0 /\ at.starN = 0) \/ Remembered(pattern, at)

ScanMeans(pattern, name, cs, at) ==
    IF at.fail THEN ~Suffix(pattern, name, cs, 1, 1)
    ELSE Suffix(pattern, name, cs, 1, 1) <=> StillOpen(pattern, name, cs, at)

LEMMA ScanStarted ==
    ASSUME NEW pattern, NEW name, NEW cs, Len(pattern) \in Nat, Len(name) \in Nat
    PROVE  ScanPlaces(pattern, name, scanStart) /\ ScanMeans(pattern, name, cs, scanStart)
  BY DEF ScanPlaces, ScanMeans, StillOpen, scanStart, ScanState

LEMMA ScanStepKeeps ==
    ASSUME NEW pattern, NEW name, NEW cs, Len(pattern) \in Nat, Len(name) \in Nat,
           NEW at, ScanPlaces(pattern, name, at), ScanMeans(pattern, name, cs, at),
           ~scanDone(pattern, name, at)
    PROVE  LET next == scanStep(pattern, name, cs, at) IN
           /\ ScanPlaces(pattern, name, next) /\ ScanMeans(pattern, name, cs, next)
           /\ next.fail \/ (next.p > at.p /\ next.starN >= at.starN) 
                        \/ (next.starN = at.starN + 1 /\ next.p >= 2)
<1> DEFINE P == Len(pattern)  N == Len(name)
           S(i, j) == Suffix(pattern, name, cs, i, j)
<1>n. PICK next : next = scanStep(pattern, name, cs, at)
  OBVIOUS
<1> SUFFICES /\ ScanPlaces(pattern, name, next) /\ ScanMeans(pattern, name, cs, next)
             /\ \/ next.fail
                \/ next.p > at.p /\ next.starN >= at.starN
                \/ next.starN = at.starN + 1 /\ next.p >= 2
  BY <1>n
<1>0. /\ at \in ScanState /\ ~at.fail /\ at.n <= N
      /\ at.p \in 1..(P + 1) /\ at.n \in 1..N
      /\ at.starP \in Nat /\ at.starN \in Nat
      /\ S(1, 1) <=> StillOpen(pattern, name, cs, at)
      /\ (at.starP = 0 /\ at.starN = 0) \/ Remembered(pattern, at)
  BY DEF ScanPlaces, ScanMeans, scanDone, ScanState
\* What follows a match from the last star on, here.
<1>1. ASSUME at.starP # 0, NEW j \in (at.starN + 1)..(N + 1), S(at.starP, j)
      PROVE  \E m \in (at.n + 1)..(N + 1) : S(at.p, m)
  <2>1. Remembered(pattern, at)
    BY <1>0, <1>1
  <2> DEFINE d == at.p - at.starP
  <2>a. at.p \in Nat /\ at.starP \in Nat /\ at.starP >= 2 /\ at.starP <= at.p /\ at.p <= P + 1
    BY <2>1, <1>0 DEF Remembered
  <2>b. d \in Nat /\ at.starP + d = at.p /\ at.starP \in 1..(P + 1) /\ at.starP + d <= P + 1
    BY <2>a
  <2>c. j \in 1..(N + 1)
    <3> HIDE DEF S
    <3> QED  BY <1>0, <1>1
  <2>2. /\ d \in Nat /\ at.starP + d = at.p /\ at.starP \in 1..(P + 1) /\ j \in 1..(N + 1)
        /\ at.starP + d <= P + 1
    BY <2>b, <2>c
  <2>3. \A k \in at.starP..(at.starP + d - 1) : pattern[k] # "*"
    BY SMTT(30), <2>1, <2>2 DEF Remembered
  <2>4. at.n = at.starN + d
    BY <2>1, <1>0 DEF Remembered
  <2> HIDE DEF d
  <2>5. j + d <= N + 1 /\ S(at.starP + d, j + d)
    BY <2>2, <2>3, <1>1, SuffixShift
  <2>6. j + d \in (at.n + 1)..(N + 1)
    BY <2>2, <2>4, <2>5, <1>0, <1>1
  <2> QED  BY <2>2, <2>5, <2>6
<1>a. CASE at.p <= P /\ pattern[at.p] = "*"
  <2>1. PICK p1 \in Nat : p1 = at.p + 1
    BY <1>0
  <2>2. next = [at EXCEPT !.p = p1, !.starP = p1, !.starN = at.n]
    BY <1>n, <1>a, <2>1 DEF scanStep
  <2>3. /\ next \in ScanState /\ next.p = p1 /\ next.n = at.n /\ next.starP = p1
        /\ next.starN = at.n /\ next.fail = FALSE
    BY <2>1, <2>2, <1>0 DEF ScanState
  <2>4. ScanPlaces(pattern, name, next)
    BY SMTT(30), <2>1, <2>3, <1>0, <1>a DEF ScanPlaces, Remembered
  <2>5. at.p \in 1..P /\ at.n \in 1..(N + 1)
    BY <1>0, <1>a
  <2>6. S(at.p, at.n) <=> \E m \in at.n..(N + 1) : S(p1, m)
    BY <2>5, <2>1, <1>a, SuffixStar
  <2>7. StillOpen(pattern, name, cs, next) <=> S(at.p, at.n)
    <3>1. StillOpen(pattern, name, cs, next) <=> S(p1, at.n) \/ \E j \in (at.n + 1)..(N + 1) : S(p1, j)
      <4>1. p1 # 0
        BY <2>1, <1>0
      <4> QED  BY <4>1, <2>3 DEF StillOpen
    <3>2. \A m : m \in at.n..(N + 1) <=> m = at.n \/ m \in (at.n + 1)..(N + 1)
      BY <2>5
    <3> HIDE DEF S
    <3> QED  BY <3>1, <3>2, <2>6
  <2>8. StillOpen(pattern, name, cs, at) <=> S(at.p, at.n)
    <3>1. ASSUME at.starP # 0, NEW j \in (at.starN + 1)..(N + 1), S(at.starP, j)
          PROVE  S(at.p, at.n)
      <4>1. PICK m \in (at.n + 1)..(N + 1) : S(at.p, m)
        BY <1>1, <3>1
      <4>2. m \in 1..(N + 1)
        BY <1>0
      <4>3. PICK k \in m..(N + 1) : S(p1, k)
        BY <4>1, <4>2, <2>1, <2>5, <1>a, SuffixStar
      <4>4. k \in at.n..(N + 1)
        BY <4>1, <4>2, <4>3, <1>0
      <4> QED  BY <4>3, <4>4, <2>6
    <3> QED  BY <3>1 DEF StillOpen
  <2>9. ScanMeans(pattern, name, cs, next)
    BY <2>3, <2>7, <2>8, <1>0 DEF ScanMeans
  <2>10. next.p > at.p /\ next.starN >= at.starN
    BY <2>1, <2>3, <1>0 DEF Remembered
  <2> QED  BY <2>4, <2>9, <2>10
<1>b. CASE ~(at.p <= P /\ pattern[at.p] = "*") /\ at.p <= P /\ Agrees(pattern, name, cs, at.p, at.n)
  <2>1. PICK p1 \in Nat, n1 \in Nat : p1 = at.p + 1 /\ n1 = at.n + 1
    BY <1>0
  <2>2. next = [at EXCEPT !.p = p1, !.n = n1]
    BY <1>n, <1>b, <2>1 DEF scanStep, Agrees
  <2>3. /\ next \in ScanState /\ next.p = p1 /\ next.n = n1 /\ next.starP = at.starP
        /\ next.starN = at.starN /\ next.fail = FALSE
    BY <2>1, <2>2, <1>0 DEF ScanState
  <2>4. ScanPlaces(pattern, name, next)
    <3>1. p1 \in 1..(P + 1) /\ n1 \in 1..(N + 1)
      BY SMTT(30), <2>1, <1>0, <1>b
    <3>2. ASSUME Remembered(pattern, at)  PROVE Remembered(pattern, next)
      <4>1. /\ at.starP \in 2..p1 /\ at.starN \in 1..n1 /\ pattern[at.starP - 1] = "*"
            /\ n1 - at.starN = p1 - at.starP
        <5>1. /\ at.starP \in 2..at.p /\ at.starN \in 1..at.n /\ pattern[at.starP - 1] = "*"
              /\ at.n - at.starN = at.p - at.starP
          BY <3>2 DEF Remembered
        <5>2. at.p \in Nat /\ at.n \in Nat /\ at.starP \in Nat /\ at.starN \in Nat
          BY <1>0
        <5>3. PICK a \in Nat, b \in Nat, c \in Nat, d \in Nat :
                a = at.p /\ b = at.n /\ c = at.starP /\ d = at.starN
          BY <5>2
        <5>4. c \in 2..a /\ d \in 1..b /\ b - d = a - c /\ p1 = a + 1 /\ n1 = b + 1
          BY <5>1, <5>3, <2>1
        <5>5. c \in 2..p1 /\ d \in 1..n1 /\ n1 - d = p1 - c
          BY <5>4
        <5> QED  BY <5>1, <5>3, <5>5
      <4>2. \A k \in at.starP..(p1 - 1) : pattern[k] # "*"
        <5>1. \A k \in at.starP..(p1 - 1) : k = at.p \/ k \in at.starP..(at.p - 1)
          BY <2>1, <1>0
        <5>2. pattern[at.p] # "*" /\ \A k \in at.starP..(at.p - 1) : pattern[k] # "*"
          BY <3>2, <1>b DEF Remembered
        <5> QED  BY <5>1, <5>2
      <4> QED  BY <4>1, <4>2, <2>3 DEF Remembered
    <3> QED  BY <3>1, <3>2, <2>3, <1>0 DEF ScanPlaces
  <2>5. S(at.p, at.n) <=> S(p1, n1)
    <3>1. at.p \in 1..P /\ at.n \in 1..(N + 1) /\ pattern[at.p] # "*"
      BY <1>0, <1>b
    <3> QED  BY <3>1, <2>1, <1>0, <1>b, SuffixRune
  <2>6. ScanMeans(pattern, name, cs, next)
    BY <2>3, <2>5, <1>0 DEF ScanMeans, StillOpen
  <2> QED  BY <2>1, <2>3, <2>4, <2>6, <1>0
<1>c. CASE ~(at.p <= P /\ pattern[at.p] = "*") /\ ~(at.p <= P /\ Agrees(pattern, name, cs, at.p, at.n))
  <2>1. ~S(at.p, at.n)
    <3>1. CASE at.p <= P
      <4>1. at.p \in 1..P /\ at.n \in 1..(N + 1) /\ pattern[at.p] # "*"
        BY <1>0, <1>c, <3>1
      <4> QED  BY <4>1, <1>c, <3>1, SuffixRune
    <3>2. CASE at.p = P + 1
      <4>1. at.n \in 1..(N + 1) /\ at.n # N + 1
        BY <1>0
      <4> QED  BY <4>1, <3>2, SuffixEnd
    <3> QED  BY <3>1, <3>2, <1>0
  <2>2. CASE at.starP = 0
    <3>1. next = [at EXCEPT !.fail = TRUE]
      BY <1>n, <1>c, <2>2 DEF scanStep, Agrees
    <3>2. /\ next \in ScanState /\ next.p = at.p /\ next.n = at.n /\ next.starP = 0
          /\ next.starN = at.starN /\ next.fail = TRUE
      BY <2>2, <3>1, <1>0 DEF ScanState
    <3>3. ScanPlaces(pattern, name, next)
      BY <2>2, <3>2, <1>0 DEF ScanPlaces, Remembered
    <3>4. ScanMeans(pattern, name, cs, next)
      BY <3>2, <2>1, <2>2, <1>0 DEF ScanMeans, StillOpen
    <3> QED  BY <3>2, <3>3, <3>4
  <2>3. CASE at.starP # 0
    <3>0. Remembered(pattern, at)
      BY <2>3, <1>0
    <3>1. PICK n1 \in Nat : n1 = at.starN + 1
      BY <1>0
    <3>2. next = [at EXCEPT !.p = at.starP, !.n = n1, !.starN = n1]
      BY <1>n, <1>c, <2>3, <3>1 DEF scanStep, Agrees
    <3>3. /\ next \in ScanState /\ next.p = at.starP /\ next.n = n1 /\ next.starP = at.starP
          /\ next.starN = n1 /\ next.fail = FALSE
      BY <3>1, <3>2, <1>0 DEF ScanState
    <3>4. ScanPlaces(pattern, name, next)
      <4>1. /\ at.starP \in 1..(P + 1) /\ at.starP \in 2..at.starP /\ at.starN \in Nat
            /\ at.starN >= 1 /\ at.starN <= N /\ pattern[at.starP - 1] = "*"
        BY SMTT(30), <3>0, <1>0 DEF Remembered
      <4>2. n1 \in 1..(N + 1) /\ n1 \in 1..n1 /\ n1 - n1 = at.starP - at.starP
        BY <4>1, <3>1
      <4>3. \A k \in at.starP..(at.starP - 1) : FALSE
        BY <4>1
      <4>4. Remembered(pattern, next)
        BY <4>1, <4>2, <4>3, <3>3 DEF Remembered
      <4> QED  BY <4>1, <4>2, <4>4, <3>3 DEF ScanPlaces
    <3>5. StillOpen(pattern, name, cs, at) <=> \E j \in n1..(N + 1) : S(at.starP, j)
      BY <2>1, <2>3, <3>1 DEF StillOpen
    <3>6. StillOpen(pattern, name, cs, next) <=> \E j \in n1..(N + 1) : S(at.starP, j)
      <4>1. StillOpen(pattern, name, cs, next) <=>
              S(at.starP, n1) \/ \E j \in (n1 + 1)..(N + 1) : S(at.starP, j)
        BY <2>3, <3>3 DEF StillOpen
      <4>2. n1 <= N + 1
        BY <3>0, <3>1, <1>0 DEF Remembered
      <4>3. \A m : m \in n1..(N + 1) <=> m = n1 \/ m \in (n1 + 1)..(N + 1)
        BY <4>2
      <4> HIDE DEF S
      <4> QED  BY <4>1, <4>3
    <3>7. ScanMeans(pattern, name, cs, next)
      BY <3>3, <3>5, <3>6, <1>0 DEF ScanMeans
    <3>8. next.starN = at.starN + 1 /\ next.p >= 2
      BY <3>0, <3>1, <3>3 DEF Remembered
    <3> QED  BY <3>4, <3>7, <3>8
  <2> QED  BY <2>2, <2>3
<1> QED  BY <1>a, <1>b, <1>c

LEMMA Times ==
    ASSUME NEW a \in Nat, NEW b \in Nat, NEW c \in Nat, a <= b
    PROVE  a * c \in Nat /\ b * c \in Nat /\ a * c <= b * c /\ (a + 1) * c = a * c + c
  OBVIOUS

LEMMA ProgressInt ==
    ASSUME NEW pattern, Len(pattern) \in Nat, NEW at, at.starN \in Nat, at.p \in Nat
    PROVE  progress(pattern, at) \in Int
<1>1. PICK a \in Nat, x \in Nat, m \in Nat : a = at.p /\ x = at.starN /\ m = Len(pattern) + 1
  OBVIOUS
<1>2. x * m \in Nat
  BY Times
<1>3. x * m + a - 1 \in Int
  BY <1>2
<1> QED  BY <1>1, <1>3 DEF progress

LEMMA ProgressGrows ==
    ASSUME NEW pattern, NEW name, Len(pattern) \in Nat, Len(name) \in Nat,
           NEW at, NEW next, ScanPlaces(pattern, name, at), ScanPlaces(pattern, name, next),
           \/ next.p > at.p /\ next.starN >= at.starN
           \/ next.starN = at.starN + 1 /\ next.p >= 2
    PROVE  progress(pattern, next) >= progress(pattern, at) + 1
<1> DEFINE M == Len(pattern) + 1
<1>1. PICK a \in Nat, b \in Nat, x \in Nat, y \in Nat : a = at.p /\ b = next.p /\ x = at.starN /\ y = next.starN
  BY DEF ScanPlaces, ScanState
<1>2. a >= 1 /\ a <= M /\ M \in Nat
  BY <1>1 DEF ScanPlaces
<1> HIDE DEF M
<1>3. (b > a /\ y >= x) \/ (y = x + 1 /\ b >= 2)
  BY <1>1
<1>4. y * M + b - 1 >= (x * M + a - 1) + 1
  <2>1. CASE b > a /\ y >= x
    <3>1. x * M \in Nat /\ y * M \in Nat /\ x * M <= y * M
      BY <2>1, <1>2, Times
    <3> DEFINE u == x * M  v == y * M
    <3>2. u \in Nat /\ v \in Nat /\ u <= v
      BY <3>1
    <3> HIDE DEF u, v
    <3>3. v + b - 1 >= (u + a - 1) + 1
      BY <3>2, <2>1
    <3> QED  BY <3>3 DEF u, v
  <2>2. CASE y = x + 1 /\ b >= 2
    <3>1. x * M \in Nat /\ (x + 1) * M = x * M + M
      BY <1>2, Times
    <3> DEFINE u == x * M  v == y * M
    <3>2. u \in Nat /\ v = u + M
      BY <3>1, <2>2
    <3> HIDE DEF u, v
    <3>3. v + b - 1 >= (u + a - 1) + 1
      BY <3>2, <2>2, <1>2
    <3> QED  BY <3>3 DEF u, v
  <2> QED  BY <2>1, <2>2, <1>3
<1> QED  BY <1>1, <1>4 DEF progress, M

LEMMA ProgressBounded ==
    ASSUME NEW pattern, NEW name, Len(pattern) \in Nat, Len(name) \in Nat,
           NEW at, ScanPlaces(pattern, name, at)
    PROVE  progress(pattern, at) < Turns(pattern, name)
<1> DEFINE M == Len(pattern) + 1
           L == Len(name) + 1
<1>1. PICK a \in Nat, x \in Nat : a = at.p /\ x = at.starN
  BY DEF ScanPlaces, ScanState
<1>2. a >= 1 /\ a <= M /\ M \in Nat /\ L \in Nat
  BY <1>1 DEF ScanPlaces
<1>3. x <= L
  BY <1>1 DEF ScanPlaces, Remembered
<1>4. Len(name) + 2 = L + 1
  OBVIOUS
<1> HIDE DEF M, L
<1>5. x * M \in Nat /\ L * M \in Nat /\ x * M <= L * M /\ (L + 1) * M = L * M + M
  BY <1>2, <1>3, Times
<1>6. M * (L + 1) = (L + 1) * M
  BY <1>2
<1> DEFINE u == x * M  v == L * M  w == M * (L + 1)
<1>7. u \in Nat /\ v \in Nat /\ u <= v /\ w = v + M
  BY <1>5, <1>6
<1> HIDE DEF u, v, w
<1>8. u + a - 1 < w
  BY <1>7, <1>2
<1> QED  BY <1>1, <1>4, <1>8 DEF progress, Turns, u, w, M

\* The loop comes to its end within Turns turns, and decides.
LEMMA ScanDecides ==
    ASSUME NEW pattern, NEW name, NEW cs, Len(pattern) \in Nat, Len(name) \in Nat
    PROVE  LET end == scan(pattern, name, cs) IN
           /\ ScanPlaces(pattern, name, end) /\ ScanMeans(pattern, name, cs, end)
           /\ scanDone(pattern, name, end)
<1> DEFINE T == Turns(pattern, name)
           done(at) == scanDone(pattern, name, at)
           fine(at) == ScanPlaces(pattern, name, at) /\ ScanMeans(pattern, name, cs, at)
<1>1. PICK f : ScanRun(pattern, name, cs, f) /\ scan(pattern, name, cs) = f[T]
  BY ScanIsRun
<1> DEFINE D == {t \in Nat : fine(f[t]) /\ (done(f[t]) \/ progress(pattern, f[t]) >= t)}
<1>0. T \in Nat
  BY DEF Turns
<1>2. 0 \in D
  <2>1. f[0] = scanStart
    BY <1>1 DEF ScanRun
  <2>2. fine(scanStart)
    BY ScanStarted
  <2>3. progress(pattern, scanStart) = 0
    BY DEF progress, scanStart
  <2> QED  BY <2>1, <2>2, <2>3
<1>3. ASSUME NEW t \in 0..T, t \in D, t < T  PROVE t + 1 \in D
  <2>1. PICK at : at = f[t]
    OBVIOUS
  <2>2. PICK next : next = f[t + 1]
    OBVIOUS
  <2>3. next = scanTurn(pattern, name, cs, at)
    <3>1. t + 1 \in 1..T /\ (t + 1) - 1 = t
      BY <1>0, <1>3
    <3> QED  BY <3>1, <2>1, <2>2, <1>1 DEF ScanRun
  <2>4. fine(at) /\ (done(at) \/ progress(pattern, at) >= t)
    BY <1>3, <2>1
  <2>5. CASE done(at)
    <3>1. next = at
      BY <2>3, <2>5 DEF scanTurn
    <3> QED  BY <3>1, <2>2, <2>4, <2>5
  <2>6. CASE ~done(at)
    <3>1. next = scanStep(pattern, name, cs, at)
      BY <2>3, <2>6 DEF scanTurn
    <3>2. /\ fine(next)
          /\ \/ next.fail
             \/ next.p > at.p /\ next.starN >= at.starN
             \/ next.starN = at.starN + 1 /\ next.p >= 2
      BY <3>1, <2>4, <2>6, ScanStepKeeps
    <3>3. CASE next.fail
      BY <3>2, <3>3, <2>2 DEF scanDone
    <3>4. CASE ~next.fail
      <4>1. progress(pattern, next) >= progress(pattern, at) + 1
        BY <3>2, <3>4, <2>4, ProgressGrows
      <4>2. progress(pattern, at) \in Int /\ progress(pattern, next) \in Int
        <5>1. at.starN \in Nat /\ at.p \in Nat /\ next.starN \in Nat /\ next.p \in Nat
          BY <2>4, <3>2 DEF ScanPlaces, ScanState
        <5> QED  BY <5>1, ProgressInt
      <4>3. progress(pattern, next) >= t + 1
        BY <4>1, <4>2, <2>4, <2>6
      <4> QED  BY <4>3, <3>2, <2>2
    <3> QED  BY <3>3, <3>4
  <2> QED  BY <2>5, <2>6
<1>4. \A t \in 0..T : t \in D
  <2> HIDE DEF D, T
  <2> QED  BY <1>0, <1>2, <1>3, Induction, Zenon
<1>5. fine(f[T]) /\ (done(f[T]) \/ progress(pattern, f[T]) >= T)
  BY <1>4, <1>0
<1>6. progress(pattern, f[T]) < T /\ progress(pattern, f[T]) \in Int
  <2>1. f[T].starN \in Nat /\ f[T].p \in Nat
    BY <1>5 DEF ScanPlaces, ScanState
  <2>2. progress(pattern, f[T]) \in Int
    BY <2>1, ProgressInt
  <2> QED  BY <2>2, <1>5, ProgressBounded
<1>7. done(f[T])
  <2> HIDE DEF T, done
  <2> QED  BY <1>5, <1>6, <1>0
<1> QED  BY <1>1, <1>5, <1>7

\* matchSMBPattern, with its one place to come back to, decides what a pattern
\* means, for every pattern and every name.
THEOREM MatcherIsCorrect ==
    ASSUME NEW pattern, NEW name, NEW cs, Len(pattern) \in Nat, Len(name) \in Nat
    PROVE  matchSMBPattern(pattern, name, cs) <=> Matches(pattern, name, cs)
<1> DEFINE P == Len(pattern)  N == Len(name)
           S(i, j) == Suffix(pattern, name, cs, i, j)
<1>1. PICK end : end = scan(pattern, name, cs)
  OBVIOUS
<1>2. /\ ScanPlaces(pattern, name, end) /\ ScanMeans(pattern, name, cs, end)
      /\ scanDone(pattern, name, end)
  BY <1>1, ScanDecides
<1>3. end.p \in 1..(P + 1) /\ end.n \in 1..(N + 1) /\ end.starP \in Nat /\ end.starN \in Nat
      /\ ((end.starP = 0 /\ end.starN = 0) \/ Remembered(pattern, end))
  BY <1>2 DEF ScanPlaces, ScanState
<1> DEFINE left == \A i \in end.p..P : pattern[i] = "*"
<1>4. (~end.fail /\ left) <=> S(1, 1)
  <2>1. CASE end.fail
    BY <2>1, <1>2 DEF ScanMeans
  <2>2. CASE ~end.fail /\ end.n > N
    <3>1. end.n = N + 1
      BY <2>2, <1>3
    <3>2. S(end.p, N + 1) <=> left
      BY <1>3, SuffixStars
    <3>3. ASSUME end.starP # 0, NEW j \in (end.starN + 1)..(N + 1), S(end.starP, j)
          PROVE  FALSE
      <4>0. Remembered(pattern, end)
        BY <1>3, <3>3
      <4>1. PICK a \in Nat, b \in Nat, x \in Nat : a = end.p /\ b = end.starP /\ x = end.starN
        BY <1>3
      <4>2. b \in 2..a /\ a \in 1..(P + 1) /\ (N + 1) - x = a - b /\ x \in 1..(N + 1)
            /\ \A k \in b..(a - 1) : pattern[k] # "*"
        BY <4>0, <4>1, <3>1, <1>3 DEF Remembered
      <4>p. PICK d \in Nat : d = a - b
        BY <4>2
      <4>3. b + d = a /\ b \in 1..(P + 1) /\ b + d <= P + 1 /\ d = N + 1 - x
        BY <4>2, <4>p
      <4>4. j \in 1..(N + 1) /\ j >= x + 1
        <5> HIDE DEF S
        <5> QED  BY <3>3, <4>1
      <4>5. \A k \in b..(b + d - 1) : pattern[k] # "*"
        BY <4>2, <4>3
      <4>6. j + d <= N + 1
        BY <4>1, <4>3, <4>4, <4>5, <3>3, SuffixShift
      <4> QED  BY <4>3, <4>4, <4>6
    <3>4. S(1, 1) <=> S(end.p, N + 1)
      BY <3>1, <3>3, <2>2, <1>2 DEF ScanMeans, StillOpen
    <3> QED  BY <3>2, <3>4, <2>2
  <2>3. CASE ~end.fail /\ ~(end.n > N)
    <3>1. end.starP = end.p /\ end.p = P + 1 /\ end.n <= N
      BY <2>3, <1>2, <1>3 DEF scanDone
    <3>2. left
      BY <3>1
    <3>3. end.starN + 1 <= N + 1
      BY <3>1, <1>3 DEF Remembered
    <3>4. N + 1 \in (end.starN + 1)..(N + 1) /\ N + 1 \in 1..(N + 1)
      BY <3>3, <1>3
    <3>5. S(end.starP, N + 1)
      BY <3>1, <3>4, SuffixEnd
    <3>6. end.starP # 0
      BY <3>1
    <3>7. StillOpen(pattern, name, cs, end)
      BY <3>4, <3>5, <3>6 DEF StillOpen
    <3> QED  BY <3>2, <3>7, <2>3, <1>2 DEF ScanMeans
  <2> QED  BY <2>1, <2>2, <2>3
<1>5. pattern = <<"*">> => S(1, 1)
  <2> SUFFICES ASSUME pattern = <<"*">>  PROVE S(1, 1)
    OBVIOUS
  <2>1. P = 1 /\ pattern[1] = "*" /\ 1 \in 1..P /\ 1 \in 1..(N + 1) /\ N + 1 \in 1..(N + 1)
    OBVIOUS
  <2>2. S(P + 1, N + 1)
    BY <2>1, SuffixEnd
  <2>3. S(1, 1) <=> \E m \in 1..(N + 1) : S(1 + 1, m)
    BY <2>1, SuffixStar
  <2> QED  BY <2>1, <2>2, <2>3
<1>6. matchSMBPattern(pattern, name, cs) <=> pattern \in {<<>>, <<"*">>} \/ (~end.fail /\ left)
  BY <1>1, <1>2 DEF matchSMBPattern
<1>7. Matches(pattern, name, cs) <=> pattern = <<>> \/ S(1, 1)
  BY MatchesIsSuffix
<1> HIDE DEF S, left
<1> QED  BY <1>4, <1>5, <1>6, <1>7

-----------------------------------------------------------------------------
(* Sequences of names.                                                     *)

In(a, s) == \E k \in 1..Len(s) : s[k] = a

NoRepeat(s) == \A k, l \in 1..Len(s) : s[k] = s[l] => k = l

LEMMA ToSetIn ==
    ASSUME NEW X, NEW s \in Seq(X), NEW a
    PROVE  a \in ToSet(s) <=> In(a, s)
  BY DEF ToSet, In

\* The loop of only, after i elements.
KeptAt(seq, set, i, s) ==
    /\ \A k \in 1..Len(s) : \E m \in 1..i : s[k] = seq[m] /\ seq[m] \in set
    /\ \A m \in 1..i : seq[m] \in set => In(seq[m], s)
    /\ NoRepeat(seq) => NoRepeat(s)

LEMMA KeptAppend ==
    ASSUME NEW X, NEW seq \in Seq(X), NEW set, NEW i \in 0..Len(seq), i < Len(seq),
           NEW s \in Seq(X), KeptAt(seq, set, i, s), seq[i + 1] \in set
    PROVE  KeptAt(seq, set, i + 1, Append(s, seq[i + 1]))
<1>0. PICK e \in X : e = seq[i + 1]
  OBVIOUS
<1>1. PICK n \in Nat : n = Len(s)
  OBVIOUS
<1>2. PICK r \in Seq(X) : r = Append(s, e)
  <2>1. Append(s, e) \in Seq(X)
    OBVIOUS
  <2> QED  BY <2>1, Zenon
<1>3. Len(r) = n + 1 /\ r[n + 1] = e /\ \A k \in 1..n : r[k] = s[k]
  BY <1>1, <1>2
<1>4. \A k \in 1..(n + 1) : k = n + 1 \/ k \in 1..n
  OBVIOUS
<1>5. \A k \in 1..Len(r) : \E m \in 1..(i + 1) : r[k] = seq[m] /\ seq[m] \in set
  <2> SUFFICES ASSUME NEW k \in 1..(n + 1)
               PROVE  \E m \in 1..(i + 1) : r[k] = seq[m] /\ seq[m] \in set
    BY <1>3
  <2>1. CASE k = n + 1
    BY <2>1, <1>0, <1>3
  <2>2. CASE k \in 1..n
    <3>1. PICK m \in 1..i : s[k] = seq[m] /\ seq[m] \in set
      BY <2>2, <1>1 DEF KeptAt
    <3>2. m \in 1..(i + 1)
      OBVIOUS
    <3> QED  BY <3>1, <3>2, <2>2, <1>3
  <2> QED  BY <2>1, <2>2, <1>4
<1>6. ASSUME NEW m \in 1..(i + 1), seq[m] \in set  PROVE In(seq[m], r)
  <2>1. CASE m = i + 1
    <3>1. n + 1 \in 1..Len(r)
      BY <1>3
    <3> QED  BY <3>1, <2>1, <1>0, <1>3 DEF In
  <2>2. CASE m \in 1..i
    <3>1. PICK k \in 1..n : s[k] = seq[m]
      BY <1>6, <2>2, <1>1 DEF KeptAt, In
    <3>2. k \in 1..Len(r) /\ r[k] = seq[m]
      BY <3>1, <1>3
    <3> QED  BY <3>2 DEF In
  <2> QED  BY <2>1, <2>2
<1>7. ASSUME NoRepeat(seq)  PROVE NoRepeat(r)
  <2>1. \A k \in 1..n : s[k] # e
    <3> SUFFICES ASSUME NEW k \in 1..n, s[k] = e  PROVE FALSE
      OBVIOUS
    <3>1. PICK m \in 1..i : s[k] = seq[m]
      BY <1>1 DEF KeptAt
    <3>2. m \in 1..Len(seq) /\ i + 1 \in 1..Len(seq) /\ m # i + 1
      OBVIOUS
    <3> QED  BY <3>1, <3>2, <1>0, <1>7 DEF NoRepeat
  <2>2. \A k, l \in 1..n : s[k] = s[l] => k = l
    BY <1>1, <1>7 DEF KeptAt, NoRepeat
  <2>3. ASSUME NEW k \in 1..(n + 1), NEW l \in 1..(n + 1), r[k] = r[l]  PROVE k = l
    BY <2>1, <2>2, <2>3, <1>3, <1>4
  <2> QED  BY <2>3, <1>3 DEF NoRepeat
<1>8. KeptAt(seq, set, i + 1, r)
  BY <1>5, <1>6, <1>7 DEF KeptAt
<1> QED  BY <1>0, <1>2, <1>8

LEMMA KeptSame ==
    ASSUME NEW X, NEW seq \in Seq(X), NEW set, NEW i \in 0..Len(seq), i < Len(seq),
           NEW s \in Seq(X), KeptAt(seq, set, i, s), seq[i + 1] \notin set
    PROVE  KeptAt(seq, set, i + 1, s)
<1>1. \A m \in 1..i : m \in 1..(i + 1)
  OBVIOUS
<1>2. \A m \in 1..(i + 1) : seq[m] \in set => m \in 1..i
  OBVIOUS
<1> QED  BY <1>1, <1>2 DEF KeptAt

\* only keeps what is in the set, and nothing else, once each.
LEMMA OnlyKeeps ==
    ASSUME NEW X, NEW seq \in Seq(X), NEW set
    PROVE  /\ only(seq, set) \in Seq(X)
           /\ ToSet(only(seq, set)) = {a \in ToSet(seq) : a \in set}
           /\ NoRepeat(seq) => NoRepeat(only(seq, set))
<1> DEFINE n == Len(seq)
           keep(t, s) == IF seq[t] \in set THEN Append(s, seq[t]) ELSE s
           g == [t \in Nat |-> [s \in Seq(X) |-> IF t \in 1..n THEN keep(t, s) ELSE s]]
           is(f) == f = [t \in 0..n |-> IF t = 0 THEN <<>> ELSE keep(t, f[t - 1])]
<1>0. n \in Nat
  OBVIOUS
<1>1. \A t \in 1..n, s \in Seq(X) : keep(t, s) \in Seq(X)
  OBVIOUS
<1>2. <<>> \in Seq(X)
  OBVIOUS
<1>8. only(seq, set) = (CHOOSE h : is(h))[n]
  BY DEF only
<1> HIDE DEF keep
<1>3. g \in [Nat -> [Seq(X) -> Seq(X)]]
  BY <1>1
<1>4. \A t \in 1..n, s \in Seq(X) : g[t][s] = keep(t, s)
  OBVIOUS
<1> HIDE DEF n, g
<1>5. PICK f : LoopRun(Seq(X), <<>>, g, n, f)
  BY <1>0, <1>2, <1>3, LoopRuns, Zenon
<1>6. ASSUME NEW t \in 0..n  PROVE f[t] = IF t = 0 THEN <<>> ELSE keep(t, f[t - 1])
  <2>1. CASE t = 0
    BY <2>1, <1>5 DEF LoopRun
  <2>2. CASE t # 0
    <3>1. t \in 1..n /\ t - 1 \in 0..n
      BY <1>0, <2>2
    <3>2. f[t] = g[t][f[t - 1]] /\ f[t - 1] \in Seq(X)
      BY <3>1, <2>2, <1>5 DEF LoopRun
    <3> QED  BY <3>1, <3>2, <2>2, <1>4
  <2> QED  BY <2>1, <2>2
<1>7. \E h : is(h)
  <2>1. is(f)
    BY <1>5, <1>6 DEF LoopRun
  <2> QED  BY <2>1, Zenon
<1>9. PICK h : is(h) /\ only(seq, set) = h[n]
  <2> HIDE DEF is
  <2> QED  BY <1>7, <1>8
<1>10. h[0] = <<>> /\ \A t \in 1..n : h[t] = keep(t, h[t - 1])
  BY <1>0, <1>9
<1> HIDE DEF is
<1> DEFINE D == {t \in Nat : h[t] \in Seq(X) /\ KeptAt(seq, set, t, h[t])}
<1>11. 0 \in D
  <2>1. Len(<<>>) = 0 /\ \A k \in 1..0 : FALSE
    OBVIOUS
  <2>2. KeptAt(seq, set, 0, <<>>)
    BY <2>1 DEF KeptAt, NoRepeat
  <2> QED  BY <2>2, <1>10, <1>2
<1>12. ASSUME NEW t \in 0..n, t \in D, t < n  PROVE t + 1 \in D
  <2>1. t + 1 \in 1..n /\ (t + 1) - 1 = t /\ t \in 0..Len(seq) /\ t < Len(seq)
    BY <1>0, <1>12 DEF n
  <2>2. h[t + 1] = keep(t + 1, h[t])
    BY <2>1, <1>10
  <2>3. h[t] \in Seq(X) /\ KeptAt(seq, set, t, h[t])
    BY <1>12
  <2>4. h[t + 1] \in Seq(X)
    BY <2>1, <2>2, <2>3, <1>1
  <2>5. CASE seq[t + 1] \in set
    <3>1. KeptAt(seq, set, t + 1, Append(h[t], seq[t + 1]))
      BY <2>1, <2>3, <2>5, KeptAppend
    <3>2. h[t + 1] = Append(h[t], seq[t + 1])
      BY <2>2, <2>5 DEF keep
    <3>3. KeptAt(seq, set, t + 1, h[t + 1])
      BY <3>1, <3>2, Zenon
    <3> QED  BY <3>3, <2>4
  <2>6. CASE seq[t + 1] \notin set
    <3>1. KeptAt(seq, set, t + 1, h[t])
      BY <2>1, <2>3, <2>6, KeptSame
    <3>2. h[t + 1] = h[t]
      BY <2>2, <2>6 DEF keep
    <3> QED  BY <3>1, <3>2, <2>4
  <2> QED  BY <2>5, <2>6
<1>13. \A t \in 0..n : t \in D
  <2> HIDE DEF D
  <2> QED  BY <1>0, <1>11, <1>12, Induction, Zenon
<1>14. PICK s \in Seq(X) : s = only(seq, set) /\ KeptAt(seq, set, n, s)
  BY <1>13, <1>9, <1>0
<1>15. ASSUME NEW a  PROVE In(a, s) <=> In(a, seq) /\ a \in set
  <2>1. ASSUME In(a, s)  PROVE In(a, seq) /\ a \in set
    <3>1. PICK k \in 1..Len(s) : s[k] = a
      BY <2>1 DEF In
    <3>2. PICK m \in 1..n : s[k] = seq[m] /\ seq[m] \in set
      BY <1>14, <3>1 DEF KeptAt
    <3> QED  BY <3>1, <3>2 DEF In, n
  <2>2. ASSUME In(a, seq), a \in set  PROVE In(a, s)
    <3>1. PICK m \in 1..n : seq[m] = a
      BY <2>2 DEF In, n
    <3> QED  BY <1>14, <3>1, <2>2 DEF KeptAt
  <2> QED  BY <2>1, <2>2
<1>16. ToSet(s) = {a \in ToSet(seq) : a \in set}
  <2>1. \A a : (a \in ToSet(s) <=> In(a, s)) /\ (a \in ToSet(seq) <=> In(a, seq))
    BY <1>14, ToSetIn
  <2> QED  BY <2>1, <1>15
<1> QED  BY <1>14, <1>16 DEF KeptAt

-----------------------------------------------------------------------------
(* The invariant of an enumeration.                                        *)

AllNames == FileNames \cup {Dot, DotDot}

\* The requests that get past the checks of QueryDirectory.
Served == {r \in Queries : supportedDirInfoClass(r.class)}

\* What a request in progress holds, at each of its steps.
QueryRecords ==
    {Idle} \cup [at : {"scan"}, req : Served]
           \cup [at : {"stat"}, req : Served, all : Seq(FileNames), steady : SUBSET FileNames]
           \cup [at : {"serve"}, req : Served]
           \cup [at : {"encode"}, class : DOMAIN FixedSize, max : Nat, out : Nat, limit : Nat,
                 i : Nat, consumed : Nat, batch : Seq(AllNames)]

\* A probe that was not raced and could look found what the file system does.
ProbeInv ==
    /\ fsFolds \in BOOLEAN /\ there \in BOOLEAN /\ raced \in BOOLEAN
    /\ disk \subseteq FileNames
    /\ settled =>
          /\ shareCaseSensitive \in BOOLEAN /\ probe.measured \in BOOLEAN
          /\ probe.measured /\ ~raced => shareCaseSensitive = ~fsFolds
          /\ ~probe.measured => ~shareCaseSensitive

\* A name that never left the directory is in it, and nothing stays in a
\* directory that was moved away.
Stays(names) == names \subseteq disk /\ (~there => names = {})

\* The snapshot: what the client got came from in front of the cursor.
SnapshotInv ==
    /\ got \in Seq(AllNames)
    /\ IF dirEntries = NoScan THEN got = <<>> /\ dirSent = 0 /\ steady = {}
       ELSE /\ dirEntries \in Seq(AllNames) /\ dirSent \in 0..Len(dirEntries)
            /\ EntriesMatch /\ Stays(steady)
            /\ \A k \in 1..Len(got) : \E m \in 1..dirSent : got[k] = dirEntries[m]

\* The request: what it has consumed goes out with the answer or has vanished.
QueryInv ==
    /\ q \in QueryRecords
    /\ q.at = "stat" => NoRepeat(q.all) /\ Stays(q.steady) /\ q.steady \subseteq ToSet(q.all)
    /\ q.at \in {"serve", "encode"} => dirEntries # NoScan
    /\ q.at = "encode" =>
          /\ q.i \in dirSent..Len(dirEntries) /\ q.consumed = q.i - dirSent
          /\ \A k \in 1..Len(q.batch) : \E m \in (dirSent + 1)..q.i : q.batch[k] = dirEntries[m]
          /\ \A m \in (dirSent + 1)..q.i : dirEntries[m] \in steady => In(dirEntries[m], q.batch)

EnumInv == ProbeInv /\ SnapshotInv /\ QueryInv

-----------------------------------------------------------------------------
(* Names, the directory and the filter.                                    *)

LEMMA NameFacts ==
    /\ \A n \in AllNames : Len(n) \in Nat
    /\ \A p \in Patterns : Len(p) \in Nat
    /\ NoScan \notin Seq(AllNames)
    /\ Dot # DotDot /\ Dot \notin FileNames /\ DotDot \notin FileNames
<1>1. \A n \in FileNames : Len(n) \in Nat
  <2> SUFFICES ASSUME NEW n \in FileNames  PROVE Len(n) \in Nat
    OBVIOUS
  <2>1. n \in Seq(Range(n))
    BY EnumerationConstants
  <2> HIDE DEF FileNames
  <2> QED  BY <2>1
<1>2. Len(Dot) = 1 /\ Len(DotDot) = 2
  BY DEF Dot, DotDot
<1>3. Dot # DotDot
  BY <1>2
<1>4. \A p \in Patterns : Len(p) \in Nat
  <2> SUFFICES ASSUME NEW r \in Queries  PROVE Len(r.pattern) \in Nat
    BY DEF Patterns
  <2>1. r.pattern \in Seq(Range(r.pattern))
    BY EnumerationConstants
  <2> QED  BY <2>1
<1>5. <<>> \notin FileNames /\ Dot \notin FileNames /\ DotDot \notin FileNames
  BY EnumerationConstants
<1>6. <<>> # Dot /\ <<>> # DotDot
  BY DEF Dot, DotDot
<1>7. NoScan \notin Seq(AllNames)
  <2> SUFFICES ASSUME NoScan \in Seq(AllNames)  PROVE FALSE
    OBVIOUS
  <2>1. Len(NoScan) = 1 /\ NoScan[1] = <<>>
    BY DEF NoScan
  <2>2. NoScan[1] \in AllNames
    BY <2>1
  <2> QED  BY <2>1, <2>2, <1>5, <1>6 DEF AllNames
<1> QED  BY <1>1, <1>2, <1>3, <1>4, <1>5, <1>7 DEF AllNames

\* The filter keeps what the pattern means.
LEMMA VerdictsAreMatches ==
    ASSUME NEW p \in Patterns, NEW n \in AllNames, NEW cs \in BOOLEAN
    PROVE  <<p, n, cs>> \in Verdicts <=> Matches(p, n, cs)
<1>1. <<p, n, cs>> \in Verdicts <=> matchSMBPattern(p, n, cs)
  BY DEF Verdicts, AllNames
<1>2. Len(p) \in Nat /\ Len(n) \in Nat
  BY NameFacts
<1> QED  BY <1>1, <1>2, MatcherIsCorrect

LEMMA ReadDirFacts ==
    ASSUME disk \subseteq FileNames
    PROVE  ReadDir \in Seq(FileNames) /\ NoRepeat(ReadDir) /\ ToSet(ReadDir) = disk
<1>1. Order \in Seq(FileNames) /\ NoRepeat(Order)
  <2>1. Order \in Seq(Range(Order)) /\ IsInjective(Order)
    BY EnumerationConstants
  <2>2. Range(Order) = FileNames
    BY <2>1 DEF Range, FileNames, ToSet
  <2>3. DOMAIN Order = 1..Len(Order)
    BY <2>1
  <2> QED  BY <2>1, <2>2, <2>3 DEF IsInjective, NoRepeat
<1>2. /\ only(Order, disk) \in Seq(FileNames) /\ NoRepeat(only(Order, disk))
      /\ ToSet(only(Order, disk)) = {a \in ToSet(Order) : a \in disk}
  BY <1>1, OnlyKeeps
<1> QED  BY <1>2 DEF ReadDir, FileNames

LEMMA DotsInFront ==
    ASSUME NEW all \in Seq(FileNames), NoRepeat(all),
           NEW dots \in {<<Dot, DotDot>>, <<DotDot>>, <<>>}
    PROVE  /\ dots \o all \in Seq(AllNames) /\ NoRepeat(dots \o all)
           /\ ToSet(all) \subseteq ToSet(dots \o all)
<1>1. /\ Dot \in AllNames /\ DotDot \in AllNames /\ Dot # DotDot
      /\ Dot \notin FileNames /\ DotDot \notin FileNames /\ FileNames \subseteq AllNames
  BY NameFacts DEF AllNames
<1> HIDE DEF FileNames, Dot, DotDot, AllNames
<1>2. /\ dots \in Seq(AllNames) /\ NoRepeat(dots)
      /\ \A k \in 1..Len(dots) : dots[k] \in {Dot, DotDot}
  <2>1. CASE dots = <<Dot, DotDot>>
    <3>1. dots \in Seq(AllNames) /\ Len(dots) = 2 /\ dots[1] = Dot /\ dots[2] = DotDot
      BY <2>1, <1>1
    <3>2. \A k \in 1..Len(dots) : k = 1 \/ k = 2
      BY <3>1
    <3> QED  BY <3>1, <3>2, <1>1 DEF NoRepeat
  <2>2. CASE dots = <<DotDot>>
    <3>1. dots \in Seq(AllNames) /\ Len(dots) = 1 /\ dots[1] = DotDot
      BY <2>2, <1>1
    <3>2. \A k \in 1..Len(dots) : k = 1
      BY <3>1
    <3> QED  BY <3>1, <3>2 DEF NoRepeat
  <2>3. CASE dots = <<>>
    BY <2>3 DEF NoRepeat
  <2> QED  BY <2>1, <2>2, <2>3
<1>3. all \in Seq(AllNames)
  BY <1>1
<1>4. PICK m \in Nat, n \in Nat : m = Len(dots) /\ n = Len(all)
  BY <1>2
<1>5. PICK s \in Seq(AllNames) : s = dots \o all
  <2>1. dots \o all \in Seq(AllNames)
    BY <1>2, <1>3
  <2> QED  BY <2>1, Zenon
<1>6. /\ Len(s) = m + n
      /\ \A k \in 1..m : s[k] = dots[k]
      /\ \A k \in (m + 1)..(m + n) : s[k] = all[k - m]
  BY <1>2, <1>3, <1>4, <1>5
<1>7. \A k \in 1..(m + n) : k \in 1..m \/ (k \in (m + 1)..(m + n) /\ k - m \in 1..n)
  OBVIOUS
<1>8. \A k \in 1..n : all[k] \in FileNames
  BY <1>4
<1>9. ASSUME NEW k \in 1..(m + n), NEW l \in 1..(m + n), s[k] = s[l]  PROVE k = l
  <2>1. CASE k \in 1..m /\ l \in 1..m
    BY <2>1, <1>2, <1>4, <1>6, <1>9 DEF NoRepeat
  <2>2. CASE k \in 1..m /\ l \notin 1..m
    BY SMTT(30), <2>2, <1>1, <1>2, <1>4, <1>6, <1>7, <1>8, <1>9
  <2>3. CASE k \notin 1..m /\ l \in 1..m
    BY <2>3, <1>1, <1>2, <1>4, <1>6, <1>7, <1>8, <1>9
  <2>4. CASE k \notin 1..m /\ l \notin 1..m
    <3>1. /\ k - m \in 1..n /\ l - m \in 1..n
          /\ s[k] = all[k - m] /\ s[l] = all[l - m]
      BY <2>4, <1>6, <1>7
    <3>2. k - m = l - m
      BY <3>1, <1>4, <1>9 DEF NoRepeat
    <3> QED  BY <3>2
  <2> QED  BY <2>1, <2>2, <2>3, <2>4
<1>10. ASSUME NEW a, In(a, all)  PROVE In(a, s)
  <2>1. PICK k \in 1..n : all[k] = a
    BY <1>10, <1>4 DEF In
  <2>2. k + m \in 1..(m + n) /\ k + m \in (m + 1)..(m + n) /\ (k + m) - m = k
    OBVIOUS
  <2>3. s[k + m] = a
    BY <2>1, <2>2, <1>6
  <2> QED  BY <2>2, <2>3, <1>6 DEF In
<1>11. \A a : (a \in ToSet(all) <=> In(a, all)) /\ (a \in ToSet(s) <=> In(a, s))
  BY <1>3, <1>5, ToSetIn
<1> QED  BY <1>5, <1>6, <1>9, <1>10, <1>11 DEF NoRepeat

\* A new snapshot is what the pattern means among the visible names.
LEMMA FilteredFacts ==
    ASSUME ProbeInv, settled, NEW all \in Seq(FileNames), NoRepeat(all),
           NEW dots \in {<<Dot, DotDot>>, <<DotDot>>, <<>>}, NEW p \in Patterns
    PROVE  LET e == filtered(dots \o all, p) IN
           /\ e \in Seq(AllNames) /\ NoRepeat(e)
           /\ \A k \in 1..Len(e) : Matches(p, e[k], shareCaseSensitive) /\ ~Hidden(e[k])
           /\ \A n \in ToSet(all) :
                 ~Hidden(n) /\ Matches(p, n, shareCaseSensitive) => n \in ToSet(e)
<1>0. shareCaseSensitive \in BOOLEAN
  BY DEF ProbeInv
<1>1. PICK s \in Seq(AllNames) : s = dots \o all /\ NoRepeat(s) /\ ToSet(all) \subseteq ToSet(s)
  BY DotsInFront, Zenon
<1> DEFINE good(n) == ~Hidden(n) /\ <<p, n, shareCaseSensitive>> \in Verdicts
           keep == {n \in ToSet(s) : good(n)}
<1>2. filtered(dots \o all, p) = only(s, keep)
  BY <1>1 DEF filtered
<1>3. \A n \in AllNames : good(n) <=> ~Hidden(n) /\ Matches(p, n, shareCaseSensitive)
  BY <1>0, VerdictsAreMatches
<1> HIDE DEF good
<1>4. PICK e \in Seq(AllNames) : e = only(s, keep) /\ NoRepeat(e) /\ ToSet(e) = {a \in ToSet(s) : a \in keep}
  <2> HIDE DEF keep
  <2>1. /\ only(s, keep) \in Seq(AllNames)
        /\ ToSet(only(s, keep)) = {a \in ToSet(s) : a \in keep}
        /\ NoRepeat(s) => NoRepeat(only(s, keep))
    BY OnlyKeeps
  <2> QED  BY <2>1, <1>1, Zenon
<1>5. \A a : (a \in ToSet(e) <=> In(a, e)) /\ (a \in ToSet(s) <=> In(a, s))
  BY ToSetIn
<1>6. \A a \in ToSet(s) : a \in AllNames
  BY <1>5 DEF In
<1>7. ASSUME NEW k \in 1..Len(e)  PROVE Matches(p, e[k], shareCaseSensitive) /\ ~Hidden(e[k])
  <2>1. e[k] \in ToSet(e)
    BY <1>5 DEF In
  <2>2. e[k] \in ToSet(s) /\ good(e[k])
    BY <2>1, <1>4
  <2> QED  BY <2>2, <1>3, <1>6
<1>8. \A n \in ToSet(all) : ~Hidden(n) /\ Matches(p, n, shareCaseSensitive) => n \in ToSet(e)
  BY <1>1, <1>3, <1>4, <1>6
<1> QED  BY <1>2, <1>4, <1>7, <1>8

-----------------------------------------------------------------------------
(* Every step keeps the invariant.                                         *)

LEMMA EnumStarts == EnumInit => EnumInv
<1> SUFFICES ASSUME EnumInit  PROVE EnumInv
  OBVIOUS
<1>1. ProbeInv
  BY DEF EnumInit, ProbeInv, settled
<1>2. SnapshotInv
  BY DEF EnumInit, SnapshotInv
<1>3. QueryInv
  BY DEF EnumInit, QueryInv, QueryRecords, Idle
<1> QED  BY <1>1, <1>2, <1>3 DEF EnumInv

\* The fields of a request at each step.
LEMMA QueryFields ==
    ASSUME q \in QueryRecords
    PROVE  /\ q.at = "idle" => q = Idle
           /\ q.at = "scan" => q \in [at : {"scan"}, req : Served]
           /\ q.at = "stat" =>
                 q \in [at : {"stat"}, req : Served, all : Seq(FileNames), steady : SUBSET FileNames]
           /\ q.at = "serve" => q \in [at : {"serve"}, req : Served]
           /\ q.at = "encode" =>
                 q \in [at : {"encode"}, class : DOMAIN FixedSize, max : Nat, out : Nat, limit : Nat,
                        i : Nat, consumed : Nat, batch : Seq(AllNames)]
  BY DEF QueryRecords, Idle

LEMMA SnapshotKept ==
    ASSUME SnapshotInv, UNCHANGED <<dirEntries, dirSent, got, listing>>,
           steady' \subseteq steady, Stays(steady)'
    PROVE  SnapshotInv'
<1>1. CASE dirEntries = NoScan
  BY <1>1 DEF SnapshotInv
<1>2. CASE dirEntries # NoScan
  <2>1. EntriesMatch'
    BY <1>2 DEF SnapshotInv, EntriesMatch
  <2> QED  BY <2>1, <1>2 DEF SnapshotInv, EntriesMatch
<1> QED  BY <1>1, <1>2

LEMMA QueryKept ==
    ASSUME QueryInv, q' = q, UNCHANGED <<dirEntries, dirSent>>, steady' \subseteq steady,
           q.at = "stat" => q.steady \subseteq disk' /\ (~there' => q.steady = {})
    PROVE  QueryInv'
  BY DEF QueryInv, Stays

LEMMA DiskStep ==
    ASSUME EnumInv, Environment
    PROVE  EnumInv'
<1> USE DEF EnumInv
<1>1. ASSUME NEW n \in FileNames, AddName(n)  PROVE EnumInv'
  <2>1. UNCHANGED <<fsFolds, there, probe, queryVars>> /\ disk' = disk \cup {n}
        /\ raced' = (raced \/ Disturbs(n))
    BY <1>1 DEF AddName
  <2>2. ProbeInv'
    BY <2>1 DEF ProbeInv, Disturbs, settled, shareCaseSensitive
  <2>3. SnapshotInv'
    <3>1. CASE dirEntries = NoScan
      BY <3>1, <2>1 DEF SnapshotInv, queryVars
    <3>2. CASE dirEntries # NoScan
      <4>1. Stays(steady)'
        BY <3>2, <2>1 DEF SnapshotInv, Stays, queryVars
      <4> QED  BY <4>1, <2>1, SnapshotKept DEF queryVars
    <3> QED  BY <3>1, <3>2
  <2>4. QueryInv'
    <3>1. q.at = "stat" => q.steady \subseteq disk' /\ (~there' => q.steady = {})
      BY <2>1 DEF QueryInv, Stays
    <3> QED  BY <3>1, <2>1, QueryKept DEF queryVars
  <2> QED  BY <2>2, <2>3, <2>4
<1>2. ASSUME NEW n \in FileNames, RemoveName(n)  PROVE EnumInv'
  <2>1. /\ UNCHANGED <<fsFolds, there, probe, dirEntries, dirSent, got, listing>>
        /\ disk' = disk \ {n} /\ steady' = steady \ {n} /\ raced' = (raced \/ Disturbs(n))
        /\ q' = IF q.at = "stat" THEN [q EXCEPT !.steady = @ \ {n}] ELSE q
    BY <1>2 DEF RemoveName
  <2>2. ProbeInv'
    BY <2>1 DEF ProbeInv, Disturbs, settled, shareCaseSensitive
  <2>3. SnapshotInv'
    <3>1. CASE dirEntries = NoScan
      BY <3>1, <2>1 DEF SnapshotInv
    <3>2. CASE dirEntries # NoScan
      <4>1. Stays(steady)'
        BY <3>2, <2>1 DEF SnapshotInv, Stays
      <4> QED  BY <4>1, <2>1, SnapshotKept
    <3> QED  BY <3>1, <3>2
  <2>4. QueryInv'
    <3>1. CASE q.at # "stat"
      BY <3>1, <2>1, QueryKept
    <3>2. CASE q.at = "stat"
      <4>1. q \in [at : {"stat"}, req : Served, all : Seq(FileNames), steady : SUBSET FileNames]
        BY <3>2, QueryFields DEF QueryInv
      <4>2. PICK s \in SUBSET FileNames : s = q.steady \ {n}
        BY <4>1
      <4>3. q' = [q EXCEPT !.steady = s]
        BY <3>2, <4>2, <2>1
      <4>4. /\ q' \in [at : {"stat"}, req : Served, all : Seq(FileNames), steady : SUBSET FileNames]
            /\ q'.at = "stat" /\ q'.all = q.all /\ q'.steady = s
        BY <4>1, <4>3
      <4>5. NoRepeat(q.all) /\ Stays(q.steady) /\ q.steady \subseteq ToSet(q.all)
        BY <3>2 DEF QueryInv
      <4>6. Stays(q.steady)'
        BY <4>2, <4>4, <4>5, <2>1 DEF Stays
      <4> QED  BY <4>2, <4>4, <4>5, <4>6 DEF QueryInv, QueryRecords
    <3> QED  BY <3>1, <3>2
  <2> QED  BY <2>2, <2>3, <2>4
<1>3. ASSUME MoveAway  PROVE EnumInv'
  <2>1. /\ UNCHANGED <<fsFolds, disk, probe, raced, dirEntries, dirSent, got, listing>>
        /\ there' = FALSE /\ steady' = {}
        /\ q' = IF q.at = "stat" THEN [q EXCEPT !.steady = {}] ELSE q
    BY <1>3 DEF MoveAway
  <2>2. ProbeInv'
    BY <2>1 DEF ProbeInv, settled, shareCaseSensitive
  <2>3. SnapshotInv'
    <3>1. Stays(steady)'
      BY <2>1 DEF Stays
    <3> QED  BY <3>1, <2>1, SnapshotKept
  <2>4. QueryInv'
    <3>1. CASE q.at # "stat"
      BY <3>1, <2>1, QueryKept
    <3>2. CASE q.at = "stat"
      <4>1. q \in [at : {"stat"}, req : Served, all : Seq(FileNames), steady : SUBSET FileNames]
        BY <3>2, QueryFields DEF QueryInv
      <4>2. q' = [q EXCEPT !.steady = {}]
        BY <3>2, <2>1
      <4>3. /\ q' \in [at : {"stat"}, req : Served, all : Seq(FileNames), steady : SUBSET FileNames]
            /\ q'.at = "stat" /\ q'.all = q.all /\ q'.steady = {}
        BY <4>1, <4>2
      <4>4. NoRepeat(q.all)
        BY <3>2 DEF QueryInv
      <4> QED  BY <4>3, <4>4 DEF QueryInv, QueryRecords, Stays
    <3> QED  BY <3>1, <3>2
  <2> QED  BY <2>2, <2>3, <2>4
<1> QED  BY <1>1, <1>2, <1>3 DEF Environment

LEMMA ProbeStep ==
    ASSUME EnumInv, Probe
    PROVE  EnumInv'
<1> USE DEF EnumInv
<1>1. UNCHANGED <<diskVars, queryVars>>
  BY DEF Probe, probeCaseByCreate, probeFirst, probeSecond, probeFails
<1>2. ProbeInv'
  <2>1. CASE probeCaseByCreate
    BY <2>1 DEF probeCaseByCreate, answerProbe, ProbeInv, settled, shareCaseSensitive, diskVars
  <2>2. CASE probeFirst
    BY <2>2 DEF probeFirst, ProbeInv, settled, diskVars
  <2>3. CASE probeSecond
    <3>1. PICK s \in BOOLEAN : answerProbe(s, TRUE) /\ (~raced => s = ~fsFolds)
      BY <2>3 DEF probeSecond, ProbeInv
    <3> QED  BY <3>1, <1>1 DEF answerProbe, ProbeInv, settled, shareCaseSensitive, diskVars
  <2>4. CASE probeFails
    BY <2>4 DEF probeFails, answerProbe, ProbeInv, settled, shareCaseSensitive, diskVars
  <2> QED  BY <2>1, <2>2, <2>3, <2>4 DEF Probe
<1>3. SnapshotInv'
  <2>1. CASE dirEntries = NoScan
    BY <2>1, <1>1 DEF SnapshotInv, queryVars
  <2>2. CASE dirEntries # NoScan
    <3>1. Stays(steady)'
      BY <2>2, <1>1 DEF SnapshotInv, Stays, queryVars, diskVars
    <3> QED  BY <3>1, <1>1, SnapshotKept DEF queryVars
  <2> QED  BY <2>1, <2>2
<1>4. QueryInv'
  <2>1. q.at = "stat" => q.steady \subseteq disk' /\ (~there' => q.steady = {})
    BY <1>1 DEF QueryInv, Stays, diskVars
  <2> QED  BY <2>1, <1>1, QueryKept DEF queryVars
<1> QED  BY <1>2, <1>3, <1>4

\* What the steps of the handler leave alone.
Aside == UNCHANGED <<diskVars, probe>>

LEMMA AsideKeeps ==
    ASSUME EnumInv, Aside
    PROVE  /\ ProbeInv'
           /\ UNCHANGED <<dirEntries, dirSent, got, steady, listing>> => SnapshotInv'
<1> USE DEF EnumInv
<1>1. ProbeInv'
  BY DEF Aside, ProbeInv, settled, shareCaseSensitive, diskVars
<1>2. ASSUME UNCHANGED <<dirEntries, dirSent, got, steady, listing>>  PROVE SnapshotInv'
  <2>1. CASE dirEntries = NoScan
    BY <2>1, <1>2 DEF SnapshotInv
  <2>2. CASE dirEntries # NoScan
    <3>1. Stays(steady)'
      BY <2>2, <1>2 DEF SnapshotInv, Stays, Aside, diskVars
    <3> QED  BY <3>1, <1>2, SnapshotKept
  <2> QED  BY <2>1, <2>2
<1> QED  BY <1>1, <1>2

LEMMA IdleKeeps ==
    ASSUME q' = Idle
    PROVE  QueryInv'
  BY DEF QueryInv, QueryRecords, Idle

LEMMA AskStep ==
    ASSUME EnumInv, NEW r \in Queries, QueryDirectory(r)
    PROVE  EnumInv'
<1>1. ProbeInv' /\ SnapshotInv' /\ UNCHANGED dirEntries
  BY AsideKeeps DEF QueryDirectory, Aside
<1>2. \/ q' = Idle
      \/ r \in Served /\ q' = [at |-> "scan", req |-> r]
      \/ r \in Served /\ dirEntries # NoScan /\ q' = [at |-> "serve", req |-> r]
  BY DEF QueryDirectory, answer, Served
<1>3. QueryInv'
  <2>1. CASE q' = Idle
    BY <2>1, IdleKeeps
  <2>2. CASE r \in Served /\ q' = [at |-> "scan", req |-> r]
    BY <2>2 DEF QueryInv, QueryRecords
  <2>3. CASE r \in Served /\ dirEntries # NoScan /\ q' = [at |-> "serve", req |-> r]
    BY <2>3, <1>1 DEF QueryInv, QueryRecords
  <2> QED  BY <1>2, <2>1, <2>2, <2>3
<1> QED  BY <1>1, <1>3 DEF EnumInv

LEMMA ScanStep ==
    ASSUME EnumInv, Scan
    PROVE  EnumInv'
<1>1. ProbeInv' /\ SnapshotInv' /\ Aside
  BY AsideKeeps DEF Scan, Aside
<1>2. QueryInv'
  <2>1. CASE there
    <3>1. /\ q.at = "scan"
          /\ q' = [at |-> "stat", req |-> q.req, all |-> ReadDir, steady |-> disk]
      BY <2>1 DEF Scan
    <3>2. q.req \in Served
      BY <3>1, QueryFields DEF EnumInv, QueryInv
    <3>3. disk \subseteq FileNames
      BY DEF EnumInv, ProbeInv
    <3>4. ReadDir \in Seq(FileNames) /\ NoRepeat(ReadDir) /\ ToSet(ReadDir) = disk
      BY <3>3, ReadDirFacts
    <3>5. /\ q'.at = "stat" /\ q'.all = ReadDir /\ q'.steady = disk
          /\ q' \in [at : {"stat"}, req : Served, all : Seq(FileNames), steady : SUBSET FileNames]
      <4> HIDE DEF ReadDir
      <4> QED  BY <3>1, <3>2, <3>3, <3>4
    <3>6. Stays(q.steady)'
      BY <3>5, <2>1, <1>1 DEF Stays, Aside, diskVars
    <3>7. NoRepeat(q'.all) /\ q'.steady \subseteq ToSet(q'.all)
      BY <3>4, <3>5
    <3> QED  BY <3>5, <3>6, <3>7 DEF QueryInv, QueryRecords
  <2>2. CASE ~there
    BY <2>2, IdleKeeps DEF Scan, answer
  <2> QED  BY <2>1, <2>2
<1> QED  BY <1>1, <1>2 DEF EnumInv

LEMMA FilterStep ==
    ASSUME EnumInv, Filter
    PROVE  EnumInv'
<1>1. ProbeInv' /\ Aside
  BY AsideKeeps DEF Filter, Aside
<1>2. q \in [at : {"stat"}, req : Served, all : Seq(FileNames), steady : SUBSET FileNames]
  BY QueryFields DEF Filter, EnumInv, QueryInv
<1>3. NoRepeat(q.all) /\ Stays(q.steady) /\ q.steady \subseteq ToSet(q.all)
  BY DEF Filter, EnumInv, QueryInv
<1>4. q.req.pattern \in Patterns /\ q.req \in Served
  BY <1>2 DEF Patterns, Served
<1>5. PICK dots \in {<<Dot, DotDot>>, <<DotDot>>, <<>>} : dirEntries' = filtered(dots \o q.all, q.req.pattern)
  BY DEF Filter
<1>6. /\ dirEntries' \in Seq(AllNames) /\ NoRepeat(dirEntries')
      /\ \A k \in 1..Len(dirEntries') :
            Matches(q.req.pattern, dirEntries'[k], shareCaseSensitive) /\ ~Hidden(dirEntries'[k])
      /\ \A n \in ToSet(q.all) :
            ~Hidden(n) /\ Matches(q.req.pattern, n, shareCaseSensitive) => n \in ToSet(dirEntries')
  <2>1. ProbeInv /\ settled
    BY DEF EnumInv, Filter
  <2>2. q.all \in Seq(FileNames)
    BY <1>2
  <2> QED  BY <2>1, <2>2, <1>3, <1>4, <1>5, FilteredFacts
<1>7. /\ dirSent' = 0 /\ got' = <<>> /\ q' = [at |-> "serve", req |-> q.req]
      /\ steady' = {n \in q.steady : ~Hidden(n) /\ Matches(q.req.pattern, n, shareCaseSensitive)}
      /\ listing' = [pattern |-> q.req.pattern, cs |-> shareCaseSensitive]
  BY DEF Filter
<1>8. dirEntries' # NoScan
  BY <1>6, NameFacts
<1>9. EntriesMatch'
  <2>1. \A n \in steady' : n \in ToSet(dirEntries')
    BY <1>3, <1>6, <1>7
  <2>2. listing'.pattern = q.req.pattern /\ listing'.cs = shareCaseSensitive
    BY <1>7
  <2>3. \A k \in 1..Len(dirEntries') : Matches(listing'.pattern, dirEntries'[k], listing'.cs) /\ ~Hidden(dirEntries'[k])
    BY <2>2, <1>6
  <2> QED  BY <2>1, <2>3, <1>6 DEF EntriesMatch, NoRepeat
<1>10. Stays(steady)'
  BY <1>1, <1>3, <1>7 DEF Stays, Aside, diskVars
<1>11. SnapshotInv'
  <2>1. got' \in Seq(AllNames) /\ Len(got') = 0 /\ 0 \in 0..Len(dirEntries')
    BY <1>6, <1>7
  <2> QED  BY <2>1, <1>6, <1>7, <1>8, <1>9, <1>10 DEF SnapshotInv
<1>12. QueryInv'
  BY <1>4, <1>7, <1>8 DEF QueryInv, QueryRecords
<1> QED  BY <1>1, <1>11, <1>12 DEF EnumInv

LEMMA ServeStep ==
    ASSUME EnumInv, Serve
    PROVE  EnumInv'
<1>1. ProbeInv' /\ SnapshotInv' /\ Aside /\ UNCHANGED <<dirEntries, dirSent, steady>>
  BY AsideKeeps DEF Serve, Aside
<1>2. CASE q' = Idle
  BY <1>1, <1>2, IdleKeeps DEF EnumInv
<1>3. CASE q' # Idle
  <2>1. /\ q.at = "serve" /\ dirSent < Len(dirEntries)
        /\ q' = [at |-> "encode", class |-> q.req.class, max |-> q.req.max, out |-> 0,
                   limit |-> IF q.req.single THEN 1 ELSE Len(dirEntries) - dirSent,
                   i |-> dirSent, consumed |-> 0, batch |-> <<>>]
    BY <1>3 DEF Serve, answer
  <2>2. q.req \in Served /\ dirEntries # NoScan
    BY <2>1, QueryFields DEF EnumInv, QueryInv
  <2>3. dirEntries \in Seq(AllNames) /\ dirSent \in 0..Len(dirEntries)
    BY <2>2 DEF EnumInv, SnapshotInv
  <2>4. q.req.class \in DOMAIN FixedSize /\ q.req.max \in Nat
    BY <2>2, EnumerationConstants DEF Served, supportedDirInfoClass
  <2>5. PICK limit \in Nat : limit = IF q.req.single THEN 1 ELSE Len(dirEntries) - dirSent
    <3>1. Len(dirEntries) - dirSent \in Nat
      BY <2>1, <2>3
    <3> QED  BY <3>1, Zenon
  <2>6. q' = [at |-> "encode", class |-> q.req.class, max |-> q.req.max, out |-> 0, limit |-> limit,
              i |-> dirSent, consumed |-> 0, batch |-> <<>>]
    BY <2>1, <2>5
  <2>7. dirSent \in Nat /\ 0 = dirSent - dirSent /\ dirSent \in dirSent..Len(dirEntries)
        /\ \A m \in (dirSent + 1)..dirSent : FALSE
    BY <2>3
  <2>8. /\ q'.at = "encode" /\ q'.i = dirSent /\ q'.consumed = 0 /\ q'.batch = <<>>
        /\ q' \in QueryRecords
    <3>1. <<>> \in Seq(AllNames)
      OBVIOUS
    <3> HIDE DEF AllNames
    <3> QED  BY <3>1, <2>4, <2>6, <2>7 DEF QueryRecords
  <2>9. \A k \in 1..Len(<<>>) : FALSE
    OBVIOUS
  <2>10. QueryInv'
    BY <2>2, <2>7, <2>8, <2>9, <1>1 DEF QueryInv
  <2> QED  BY <2>10, <1>1 DEF EnumInv
<1> QED  BY <1>2, <1>3

\* An entry of the snapshot that stayed in the directory can be stat'ed.
LEMMA SteadyIsStatable ==
    ASSUME EnumInv, dirEntries # NoScan, entry \in steady
    PROVE  statable
<1>1. entry \in disk /\ there
  BY DEF EnumInv, SnapshotInv, Stays
<1> QED  BY <1>1 DEF statable, leafExists, sameFile

\* The cursor of the loop passes one entry; the record it makes, if any, is for it.
LEMMA CursorMoves ==
    ASSUME EnumInv, looping, Aside, UNCHANGED <<dirEntries, dirSent, got, steady, listing>>,
           NEW o \in Nat, NEW b \in Seq(AllNames),
           \/ b = Append(q.batch, entry)
           \/ b = q.batch /\ entry \notin steady,
           q' = [q EXCEPT !.i = q.i + 1, !.out = o, !.batch = b, !.consumed = q.i + 1 - dirSent]
    PROVE  EnumInv'
<1>1. ProbeInv' /\ SnapshotInv'
  BY AsideKeeps
<1>2. q \in [at : {"encode"}, class : DOMAIN FixedSize, max : Nat, out : Nat, limit : Nat,
             i : Nat, consumed : Nat, batch : Seq(AllNames)]
  BY QueryFields DEF EnumInv, QueryInv, looping
<1>3. /\ dirEntries # NoScan /\ q.i \in dirSent..Len(dirEntries)
      /\ \A k \in 1..Len(q.batch) : \E m \in (dirSent + 1)..q.i : q.batch[k] = dirEntries[m]
      /\ \A m \in (dirSent + 1)..q.i : dirEntries[m] \in steady => In(dirEntries[m], q.batch)
  BY DEF EnumInv, QueryInv, looping
<1>4. /\ dirEntries \in Seq(AllNames) /\ dirSent \in 0..Len(dirEntries)
      /\ q.i < Len(dirEntries)
  BY <1>3 DEF EnumInv, SnapshotInv, looping
<1>5. PICK j \in Nat, c \in Nat, old \in Seq(AllNames), n \in Nat :
        j = q.i /\ c = j + 1 - dirSent /\ old = q.batch /\ n = Len(old)
  <2>1. q.i \in Nat /\ q.i + 1 - dirSent \in Nat /\ q.batch \in Seq(AllNames) /\ Len(q.batch) \in Nat
    BY <1>2, <1>3, <1>4
  <2> QED  BY <2>1
<1>6. PICK j1 \in Nat : j1 = j + 1
  OBVIOUS
<1>7. q' = [q EXCEPT !.i = j1, !.out = o, !.batch = b, !.consumed = c]
  BY <1>5, <1>6
<1>8. /\ q'.at = "encode" /\ q'.i = j1 /\ q'.batch = b /\ q'.consumed = c
      /\ q' \in [at : {"encode"}, class : DOMAIN FixedSize, max : Nat, out : Nat, limit : Nat,
                 i : Nat, consumed : Nat, batch : Seq(AllNames)]
  <2> HIDE DEF AllNames
  <2> QED  BY <1>2, <1>7
<1>9. PICK e \in AllNames : e = entry /\ e = dirEntries[j1]
  BY <1>3, <1>4, <1>5, <1>6 DEF entry
<1>10. /\ j1 \in dirSent..Len(dirEntries) /\ c = j1 - dirSent
       /\ j1 \in (dirSent + 1)..j1
       /\ \A m \in (dirSent + 1)..j1 : m = j1 \/ m \in (dirSent + 1)..j
       /\ \A m \in (dirSent + 1)..j : m \in (dirSent + 1)..j1
  <2>1. PICK s \in Nat, k \in Nat : s = dirSent /\ k = Len(dirEntries)
    BY <1>4
  <2>2. s <= j /\ j < k /\ j1 = j + 1 /\ c = j + 1 - s
    BY <2>1, <1>3, <1>4, <1>5, <1>6
  <2>3. j1 \in s..k /\ c = j1 - s /\ j1 \in (s + 1)..j1
    BY SMTT(30), <2>2
  <2>4. \A m \in (s + 1)..j1 : m = j1 \/ m \in (s + 1)..j
    BY <2>2
  <2>5. \A m \in (s + 1)..j : m \in (s + 1)..j1
    BY <2>2
  <2> QED  BY <2>1, <2>3, <2>4, <2>5
<1>11. /\ \A k \in 1..n : \E m \in (dirSent + 1)..j : old[k] = dirEntries[m]
       /\ \A m \in (dirSent + 1)..j : dirEntries[m] \in steady => In(dirEntries[m], old)
  BY <1>3, <1>5
<1>12. /\ \A k \in 1..Len(b) : \E m \in (dirSent + 1)..j1 : b[k] = dirEntries[m]
       /\ \A m \in (dirSent + 1)..j1 : dirEntries[m] \in steady => In(dirEntries[m], b)
  <2>1. CASE b = Append(q.batch, entry)
    <3>1. b = Append(old, e) /\ Len(b) = n + 1 /\ b[n + 1] = e /\ \A k \in 1..n : b[k] = old[k]
      BY <2>1, <1>5, <1>9
    <3>2. \A k \in 1..(n + 1) : k = n + 1 \/ k \in 1..n
      OBVIOUS
    <3>3. \A k \in 1..n : k \in 1..(n + 1)
      OBVIOUS
    <3>4. n + 1 \in 1..(n + 1)
      OBVIOUS
    <3>5. \A k \in 1..Len(b) : \E m \in (dirSent + 1)..j1 : b[k] = dirEntries[m]
      BY <3>1, <3>2, <1>9, <1>10, <1>11
    <3>6. ASSUME NEW m \in (dirSent + 1)..j1, dirEntries[m] \in steady  PROVE In(dirEntries[m], b)
      <4>1. CASE m = j1
        BY <4>1, <3>1, <3>4, <1>9 DEF In
      <4>2. CASE m \in (dirSent + 1)..j
        <5>1. PICK k \in 1..n : old[k] = dirEntries[m]
          BY <4>2, <3>6, <1>5, <1>11 DEF In
        <5> QED  BY <5>1, <3>1, <3>3 DEF In
      <4> QED  BY <4>1, <4>2, <1>10
    <3> QED  BY <3>5, <3>6
  <2>2. CASE b = q.batch /\ entry \notin steady
    BY <2>2, <1>5, <1>9, <1>10, <1>11
  <2> QED  BY <2>1, <2>2
<1>13. QueryInv'
  BY SMTT(30), <1>3, <1>8, <1>10, <1>12 DEF QueryInv, QueryRecords
<1> QED  BY <1>1, <1>13 DEF EnumInv

LEMMA EncodeStep ==
    ASSUME EnumInv, EncodeEntry \/ SkipEntry
    PROVE  EnumInv'
<1>1. looping /\ Aside /\ UNCHANGED <<dirEntries, dirSent, got, steady, listing>>
  BY DEF EncodeEntry, SkipEntry, Aside
<1>2. q \in [at : {"encode"}, class : DOMAIN FixedSize, max : Nat, out : Nat, limit : Nat,
             i : Nat, consumed : Nat, batch : Seq(AllNames)]
  BY <1>1, QueryFields DEF EnumInv, QueryInv, looping
<1>3. dirEntries # NoScan /\ q.i \in dirSent..Len(dirEntries)
  BY <1>1 DEF EnumInv, QueryInv, looping
<1>4. dirEntries \in Seq(AllNames) /\ dirSent \in 0..Len(dirEntries) /\ q.i < Len(dirEntries)
  BY <1>1, <1>3 DEF EnumInv, SnapshotInv, looping
<1>5. entry \in AllNames
  BY <1>3, <1>4 DEF entry
<1>6. CASE EncodeEntry
  <2>1. q.out + price \in Nat
    <3>1. Len(entry) \in Nat
      BY <1>5, NameFacts
    <3>2. FixedSize[q.class] \in Nat
      BY <1>2, EnumerationConstants
    <3> HIDE DEF entry
    <3> QED  BY <1>2, <3>1, <3>2 DEF price
  <2>2. Append(q.batch, entry) \in Seq(AllNames)
    <3> HIDE DEF entry, AllNames
    <3> QED  BY <1>2, <1>5
  <2>3. q' = [q EXCEPT !.i = q.i + 1, !.out = q.out + price, !.batch = Append(q.batch, entry),
                       !.consumed = q.i + 1 - dirSent]
    BY <1>6 DEF EncodeEntry
  <2> HIDE DEF entry, price, looping
  <2> QED  BY <2>1, <2>2, <2>3, <1>1, CursorMoves
<1>7. CASE SkipEntry
  <2>1. entry \notin steady
    BY <1>7, <1>3, SteadyIsStatable DEF SkipEntry
  <2>2. q.out \in Nat /\ q.batch \in Seq(AllNames)
    BY <1>2
  <2>3. q' = [q EXCEPT !.i = q.i + 1, !.consumed = q.i + 1 - dirSent]
    BY <1>7 DEF SkipEntry
  <2>4. q' = [q EXCEPT !.i = q.i + 1, !.out = q.out, !.batch = q.batch, !.consumed = q.i + 1 - dirSent]
    BY <2>3, <1>2
  <2> HIDE DEF entry, looping
  <2> QED  BY <2>1, <2>2, <2>4, <1>1, CursorMoves
<1> QED  BY <1>6, <1>7

\* What is left of a snapshot.
LEMMA RestIs ==
    ASSUME NEW e \in Seq(AllNames), NEW s \in 0..Len(e), NEW a
    PROVE  a \in ToSet(SubSeq(e, s + 1, Len(e))) <=> \E m \in (s + 1)..Len(e) : e[m] = a
<1> DEFINE r == SubSeq(e, s + 1, Len(e))
<1>0. Len(e) \in Nat /\ s \in Nat /\ s <= Len(e)
  OBVIOUS
<1>1. r \in Seq(AllNames) /\ Len(r) = Len(e) - s /\ \A k \in 1..(Len(e) - s) : r[k] = e[k + s]
  <2>1. CASE s + 1 <= Len(e)
    BY <2>1, <1>0, SubSeqProperties
  <2>2. CASE s = Len(e)
    BY <2>2, <1>0, SubSeqProperties
  <2> QED  BY <2>1, <2>2, <1>0
<1> HIDE DEF r
<1>2. a \in ToSet(r) <=> In(a, r)
  BY <1>1, ToSetIn
<1>3. In(a, r) <=> \E k \in 1..(Len(e) - s) : e[k + s] = a
  BY <1>1 DEF In
<1>4. ASSUME NEW k \in 1..(Len(e) - s)  PROVE k + s \in (s + 1)..Len(e)
  BY <1>0
<1>5. ASSUME NEW m \in (s + 1)..Len(e)  PROVE m - s \in 1..(Len(e) - s) /\ (m - s) + s = m
  BY <1>0
<1>6. (\E k \in 1..(Len(e) - s) : e[k + s] = a) <=> (\E m \in (s + 1)..Len(e) : e[m] = a)
  <2>1. ASSUME NEW k \in 1..(Len(e) - s), e[k + s] = a  PROVE \E m \in (s + 1)..Len(e) : e[m] = a
    BY <2>1, <1>4
  <2>2. ASSUME NEW m \in (s + 1)..Len(e), e[m] = a  PROVE \E k \in 1..(Len(e) - s) : e[k + s] = a
    BY <2>2, <1>5
  <2> QED  BY <2>1, <2>2
<1> QED  BY <1>2, <1>3, <1>6 DEF r

\* A request in its loop, by the places of the snapshot.
Batched(sent, upto, batch) ==
    /\ dirEntries # NoScan /\ dirEntries \in Seq(AllNames)
    /\ sent \in 0..Len(dirEntries) /\ upto \in sent..Len(dirEntries) /\ upto \in Nat
    /\ batch \in Seq(AllNames)
    /\ \A k \in 1..Len(batch) : \E m \in (sent + 1)..upto : batch[k] = dirEntries[m]
    /\ \A m \in (sent + 1)..upto : dirEntries[m] \in steady => In(dirEntries[m], batch)
    /\ NoRepeat(dirEntries)
    /\ got \in Seq(AllNames)
    /\ \A k \in 1..Len(got) : \E m \in 1..sent : got[k] = dirEntries[m]

LEMMA EncodeFacts ==
    ASSUME EnumInv, q.at = "encode"
    PROVE  Batched(dirSent, q.i, q.batch) /\ q.consumed = q.i - dirSent
<1>1. q \in [at : {"encode"}, class : DOMAIN FixedSize, max : Nat, out : Nat, limit : Nat,
             i : Nat, consumed : Nat, batch : Seq(AllNames)]
  BY QueryFields DEF EnumInv, QueryInv
<1>2. q.i \in Nat /\ q.batch \in Seq(AllNames)
  BY <1>1
<1>3. /\ dirEntries # NoScan
      /\ q.i \in dirSent..Len(dirEntries) /\ q.consumed = q.i - dirSent
      /\ \A k \in 1..Len(q.batch) : \E m \in (dirSent + 1)..q.i : q.batch[k] = dirEntries[m]
      /\ \A m \in (dirSent + 1)..q.i : dirEntries[m] \in steady => In(dirEntries[m], q.batch)
  BY DEF EnumInv, QueryInv
<1>4. /\ dirEntries \in Seq(AllNames) /\ dirSent \in 0..Len(dirEntries) /\ got \in Seq(AllNames)
      /\ NoRepeat(dirEntries)
      /\ \A k \in 1..Len(got) : \E m \in 1..dirSent : got[k] = dirEntries[m]
  BY <1>3 DEF EnumInv, SnapshotInv, EntriesMatch, NoRepeat
<1> QED  BY <1>2, <1>3, <1>4 DEF Batched

LEMMA AnswerStep ==
    ASSUME EnumInv, AnswerEntries
    PROVE  EnumInv'
<1>1. /\ ProbeInv' /\ Aside /\ UNCHANGED <<dirEntries, steady, listing>>
      /\ q' = Idle /\ got' = got \o q.batch /\ dirSent' = dirSent + q.consumed
  BY AsideKeeps DEF AnswerEntries, Aside, answer, advance
<1>2. Batched(dirSent, q.i, q.batch) /\ q.consumed = q.i - dirSent
  BY EncodeFacts DEF AnswerEntries
<1>3. PICK s \in Nat, j \in Nat, b \in Seq(AllNames), n \in Nat, g \in Nat :
        s = dirSent /\ j = q.i /\ b = q.batch /\ n = Len(b) /\ g = Len(got)
  <2>1. /\ dirSent \in Nat /\ q.i \in Nat /\ q.batch \in Seq(AllNames)
        /\ Len(q.batch) \in Nat /\ Len(got) \in Nat
    BY <1>2 DEF Batched
  <2> QED  BY <2>1, Zenon
<1>4. /\ s \in 0..Len(dirEntries) /\ j \in s..Len(dirEntries) /\ got \in Seq(AllNames)
      /\ \A k \in 1..n : \E m \in (s + 1)..j : b[k] = dirEntries[m]
      /\ \A k \in 1..g : \E m \in 1..s : got[k] = dirEntries[m]
      /\ dirEntries # NoScan /\ dirEntries \in Seq(AllNames)
  BY <1>2, <1>3 DEF Batched
<1>5. dirSent' = j
  <2>1. dirSent' = s + (j - s)
    BY <1>1, <1>2, <1>3
  <2> QED  BY <2>1
<1>6. PICK t \in Seq(AllNames) : t = got \o b
  <2>1. got \o b \in Seq(AllNames)
    BY <1>4
  <2> QED  BY <2>1, Zenon
<1>7. /\ got' = t /\ Len(t) = g + n
      /\ \A k \in 1..g : t[k] = got[k]
      /\ \A k \in (g + 1)..(g + n) : t[k] = b[k - g]
  BY <1>1, <1>3, <1>4, <1>6
<1>8. \A k \in 1..(g + n) : k \in 1..g \/ (k \in (g + 1)..(g + n) /\ k - g \in 1..n)
  OBVIOUS
<1>9. /\ \A m \in 1..s : m \in 1..j
      /\ \A m \in (s + 1)..j : m \in 1..j
      /\ j \in 0..Len(dirEntries)
  BY <1>4
<1>10. ASSUME NEW k \in 1..(g + n)  PROVE \E m \in 1..j : t[k] = dirEntries[m]
  <2>1. CASE k \in 1..g
    BY <2>1, <1>4, <1>7, <1>9
  <2>2. CASE k \in (g + 1)..(g + n) /\ k - g \in 1..n
    <3>1. t[k] = b[k - g]
      BY <2>2, <1>7
    <3>2. PICK m \in (s + 1)..j : b[k - g] = dirEntries[m]
      BY <2>2, <1>4
    <3> QED  BY <3>1, <3>2, <1>9
  <2> QED  BY <2>1, <2>2, <1>8
<1>11. SnapshotInv'
  <2>1. EntriesMatch' /\ Stays(steady)'
    BY <1>1, <1>4 DEF EnumInv, SnapshotInv, EntriesMatch, Stays, Aside, diskVars
  <2>2. /\ dirEntries' # NoScan /\ dirEntries' \in Seq(AllNames)
        /\ dirSent' \in 0..Len(dirEntries') /\ got' \in Seq(AllNames)
    BY <1>1, <1>4, <1>5, <1>7, <1>9
  <2>3. \A k \in 1..Len(got') : \E m \in 1..dirSent' : got'[k] = dirEntries'[m]
    BY <1>1, <1>5, <1>7, <1>10
  <2> QED  BY <2>1, <2>2, <2>3 DEF SnapshotInv
<1>12. QueryInv'
  BY <1>1, IdleKeeps
<1> QED  BY <1>1, <1>11, <1>12 DEF EnumInv

LEMMA EnumKept ==
    ASSUME EnumInv, [EnumNext]_enumVars
    PROVE  EnumInv'
<1>1. CASE Environment
  BY <1>1, DiskStep
<1>2. CASE Probe
  BY <1>2, ProbeStep
<1>3. CASE Query
  BY <1>3, AskStep DEF Query
<1>4. CASE Handler
  BY <1>4, ScanStep, FilterStep, ServeStep, EncodeStep, AnswerStep DEF Handler
<1>5. CASE UNCHANGED enumVars
  <2>1. Aside /\ UNCHANGED <<dirEntries, dirSent, got, steady, listing, q>>
    BY <1>5 DEF enumVars, Aside, diskVars
  <2>2. q.at = "stat" => q.steady \subseteq disk' /\ (~there' => q.steady = {})
    BY <2>1 DEF EnumInv, QueryInv, Stays, Aside, diskVars
  <2>3. QueryInv'
    BY <2>1, <2>2, QueryKept DEF EnumInv
  <2> QED  BY <2>1, <2>3, AsideKeeps DEF EnumInv
<1> QED  BY <1>1, <1>2, <1>3, <1>4, <1>5 DEF EnumNext

\* The inductive invariant of QUERY_DIRECTORY: the snapshot a search has taken,
\* the place its paging has reached and the pattern it was taken with stay of one
\* piece, whatever other handles do to the directory between two requests.
THEOREM EnumInvariant == EnumSpec => []EnumInv
<1>1. EnumInit => EnumInv
  BY EnumStarts
<1>2. EnumInv /\ [EnumNext]_enumVars => EnumInv'
  BY EnumKept
<1> QED  BY <1>1, <1>2, PTL DEF EnumSpec

\* Every entry a search will page out matches the pattern the search was started
\* with, by what the pattern means and not by what the matcher computes
\* (handleQueryDirectory's filter loop, matchSMBPattern and the case probe's
\* answer), for every directory, pattern and name.
THEOREM SnapshotsMatch == EnumSpec => []EntriesMatch
<1>1. EnumInv => EntriesMatch
  BY DEF EnumInv, SnapshotInv, EntriesMatch
<1> QED  BY <1>1, EnumInvariant, PTL

-----------------------------------------------------------------------------
(* The listing a client sees is the one it is promised.                    *)

Pending ==
    IF dirEntries = NoScan THEN {}
    ELSE ToSet(SubSeq(dirEntries, dirSent + 1, Len(dirEntries)))

\* The steps of the promise, in the variables of the model.
StartStep ==
    /\ ToSet(got') = {} /\ ans' # "noMoreFiles"
    /\ steady' \subseteq Pending'

HandOutStep ==
    /\ ans' # "noMoreFiles" /\ steady' = steady
    /\ Pending' \subseteq Pending
    /\ \E batch \in SUBSET (Pending \ Pending') :
          /\ ToSet(got') = ToSet(got) \cup batch
          /\ ToSet(got) \cap batch = {}
          /\ (Pending \ Pending') \cap steady \subseteq batch

VanishStep == steady' \subseteq steady /\ UNCHANGED <<dirEntries, dirSent, got, ans>>

FinishStep ==
    /\ ans' = "noMoreFiles"
    /\ Pending' = {} /\ Pending \cap steady = {}
    /\ UNCHANGED <<got, steady>>

ListStep == StartStep \/ HandOutStep \/ VanishStep \/ FinishStep

LEMMA ListStepIsPromised ==
    ASSUME ListStep
    PROVE  [Promised!Next]_(Promised!lvars)
<1>1. CASE StartStep
  BY <1>1 DEF StartStep, Pending, Promised!Next, Promised!Start
<1>2. CASE HandOutStep
  BY <1>2 DEF HandOutStep, Pending, Promised!Next, Promised!HandOut
<1>3. CASE VanishStep
  BY <1>3 DEF VanishStep, Promised!Next, Promised!Vanish
<1>4. CASE FinishStep
  BY <1>4 DEF FinishStep, Pending, Promised!Next, Promised!Finish
<1> QED  BY <1>1, <1>2, <1>3, <1>4 DEF ListStep

LEMMA PromisedStarts == EnumInit => Promised!Init
<1> SUFFICES ASSUME EnumInit  PROVE Promised!Init
  OBVIOUS
<1>1. ToSet(<<>>) = {}
  BY DEF ToSet
<1> QED  BY <1>1 DEF EnumInit, Promised!Init

LEMMA PendingIs ==
    ASSUME SnapshotInv, dirEntries # NoScan
    PROVE  \A a : a \in Pending <=> \E m \in (dirSent + 1)..Len(dirEntries) : dirEntries[m] = a
<1>1. dirEntries \in Seq(AllNames) /\ dirSent \in 0..Len(dirEntries)
  BY DEF SnapshotInv
<1> QED  BY <1>1, RestIs DEF Pending

\* An answer without records that does not say "no more".
LEMMA EmptyAnswer ==
    ASSUME UNCHANGED <<dirEntries, dirSent, got, steady>>, ans' # "noMoreFiles"
    PROVE  ListStep
<1>1. Pending' = Pending
  BY DEF Pending
<1>2. HandOutStep
  <2>1. {} \in SUBSET (Pending \ Pending') /\ ToSet(got') = ToSet(got) \cup {}
        /\ ToSet(got) \cap {} = {} /\ (Pending \ Pending') \cap steady \subseteq {}
    BY <1>1
  <2> QED  BY <2>1, <1>1, Zenon DEF HandOutStep
<1> QED  BY <1>2 DEF ListStep

LEMMA AnswerIsPromised ==
    ASSUME EnumInv, AnswerEntries
    PROVE  ListStep
<1>1. /\ UNCHANGED <<dirEntries, steady>> /\ q.at = "encode"
      /\ got' = got \o q.batch /\ dirSent' = dirSent + q.consumed
      /\ ans' = IF Len(q.batch) = 0 THEN emptyAnswer ELSE "success"
  BY DEF AnswerEntries, answer, advance, encoded
<1>2. Batched(dirSent, q.i, q.batch) /\ q.consumed = q.i - dirSent
  BY <1>1, EncodeFacts
<1>3. PICK s \in Nat, j \in Nat, b \in Seq(AllNames), n \in Nat :
        s = dirSent /\ j = q.i /\ b = q.batch /\ n = Len(dirEntries)
  <2>1. dirSent \in Nat /\ q.i \in Nat /\ q.batch \in Seq(AllNames) /\ Len(dirEntries) \in Nat
    BY <1>2 DEF Batched
  <2> QED  BY <2>1
<1>4. /\ s \in 0..n /\ j \in s..n /\ got \in Seq(AllNames)
      /\ \A k \in 1..Len(b) : \E m \in (s + 1)..j : b[k] = dirEntries[m]
      /\ \A m \in (s + 1)..j : dirEntries[m] \in steady => In(dirEntries[m], b)
      /\ \A k \in 1..Len(got) : \E m \in 1..s : got[k] = dirEntries[m]
      /\ dirEntries # NoScan /\ dirEntries \in Seq(AllNames)
      /\ \A k, l \in 1..n : dirEntries[k] = dirEntries[l] => k = l
  BY <1>2, <1>3 DEF Batched, NoRepeat
<1>5. dirSent' = j
  <2>1. dirSent' = s + (j - s)
    BY <1>1, <1>2, <1>3
  <2> QED  BY <2>1
<1>6. \A a : a \in Pending <=> \E m \in (s + 1)..n : dirEntries[m] = a
  <2>1. SnapshotInv /\ dirEntries # NoScan
    BY <1>4 DEF EnumInv
  <2>2. \A a : a \in Pending <=> \E m \in (dirSent + 1)..Len(dirEntries) : dirEntries[m] = a
    BY <2>1, PendingIs
  <2> QED  BY <2>2, <1>3
<1>7. \A a : a \in Pending' <=> \E m \in (j + 1)..n : dirEntries[m] = a
  <2>1. j \in 0..Len(dirEntries) /\ Len(dirEntries) = n
    BY <1>3, <1>4
  <2>2. Pending' = ToSet(SubSeq(dirEntries, j + 1, Len(dirEntries)))
    BY <1>1, <1>4, <1>5 DEF Pending
  <2>3. dirEntries \in Seq(AllNames)
    BY <1>4
  <2>4. \A a : a \in Pending' <=> \E m \in (j + 1)..Len(dirEntries) : dirEntries[m] = a
    <3> HIDE DEF Pending
    <3> QED  BY <2>1, <2>2, <2>3, RestIs, Zenon
  <2> QED  BY <2>1, <2>4
<1>8. \A a : (a \in ToSet(b) <=> In(a, b)) /\ (a \in ToSet(got) <=> In(a, got))
  BY <1>4, ToSetIn
<1>9. ToSet(got') = ToSet(got) \cup ToSet(b)
  <2>1. PICK t \in Seq(AllNames) : t = got \o b
    <3>1. got \o b \in Seq(AllNames)
      BY <1>4
    <3> QED  BY <3>1, Zenon
  <2>2. PICK g \in Nat, k \in Nat : g = Len(got) /\ k = Len(b)
    BY <1>4
  <2>3. /\ Len(t) = g + k /\ \A i \in 1..g : t[i] = got[i]
        /\ \A i \in (g + 1)..(g + k) : t[i] = b[i - g]
    BY <1>4, <2>1, <2>2
  <2>4. \A i \in 1..(g + k) : i \in 1..g \/ (i \in (g + 1)..(g + k) /\ i - g \in 1..k)
    OBVIOUS
  <2>5. ASSUME NEW a, In(a, t)  PROVE In(a, got) \/ In(a, b)
    BY <2>2, <2>3, <2>4, <2>5 DEF In
  <2>6. ASSUME NEW a, In(a, got)  PROVE In(a, t)
    <3>1. PICK i \in 1..g : got[i] = a
      BY <2>2, <2>6 DEF In
    <3>2. i \in 1..Len(t) /\ t[i] = a
      BY <3>1, <2>3
    <3> QED  BY <3>2 DEF In
  <2>7. ASSUME NEW a, In(a, b)  PROVE In(a, t)
    <3>1. PICK i \in 1..k : b[i] = a
      BY <2>2, <2>7 DEF In
    <3>2. i + g \in (g + 1)..(g + k) /\ (i + g) - g = i /\ i + g \in 1..(g + k)
      OBVIOUS
    <3>3. t[i + g] = a
      BY <3>1, <3>2, <2>3
    <3> QED  BY <3>2, <3>3, <2>3 DEF In
  <2>8. \A a : a \in ToSet(t) <=> In(a, t)
    BY ToSetIn
  <2>9. got' = t
    BY <1>1, <1>3, <2>1
  <2> QED  BY <2>5, <2>6, <2>7, <2>8, <2>9, <1>8
<1>10. \A m \in (s + 1)..n : m \in (s + 1)..j \/ m \in (j + 1)..n
  BY <1>4
<1>11. \A m \in (j + 1)..n : m \in (s + 1)..n /\ m \in 1..n
  BY <1>4
<1>12. \A m \in (s + 1)..j : m \in (s + 1)..n /\ m \in 1..n /\ m \notin (j + 1)..n /\ m \notin 1..s
  BY <1>4
<1>13. \A m \in 1..s : m \in 1..n
  BY <1>4
<1>14. Pending' \subseteq Pending
  BY <1>6, <1>7, <1>11
<1>15. ToSet(b) \subseteq Pending \ Pending'
  <2> SUFFICES ASSUME NEW a, In(a, b)  PROVE a \in Pending /\ a \notin Pending'
    BY <1>8
  <2>0. PICK k \in 1..Len(b) : b[k] = a
    BY DEF In
  <2>1. PICK m \in (s + 1)..j : a = dirEntries[m]
    BY <2>0, <1>4
  <2>2. a \in Pending
    BY <2>1, <1>6, <1>12
  <2>3. ASSUME NEW l \in (j + 1)..n, dirEntries[l] = a  PROVE FALSE
    BY <2>1, <2>3, <1>4, <1>11, <1>12
  <2> QED  BY <2>2, <2>3, <1>7
<1>16. ToSet(got) \cap ToSet(b) = {}
  <2> SUFFICES ASSUME NEW a, In(a, b), In(a, got)  PROVE FALSE
    BY <1>8
  <2>0. PICK k \in 1..Len(b) : b[k] = a
    BY DEF In
  <2>1. PICK m \in (s + 1)..j : a = dirEntries[m]
    BY <2>0, <1>4
  <2>2. PICK l \in 1..s : a = dirEntries[l]
    BY <1>4 DEF In
  <2> QED  BY <2>1, <2>2, <1>4, <1>12, <1>13
<1>17. (Pending \ Pending') \cap steady \subseteq ToSet(b)
  <2> SUFFICES ASSUME NEW a \in steady, a \in Pending, a \notin Pending'  PROVE In(a, b)
    BY <1>8
  <2>1. PICK m \in (s + 1)..n : dirEntries[m] = a
    BY <1>6
  <2>2. m \in (s + 1)..j
    BY <2>1, <1>7, <1>10
  <2> QED  BY <2>1, <2>2, <1>4
<1>18. CASE ans' # "noMoreFiles"
  <2>1. HandOutStep
    <3> HIDE DEF Pending
    <3> QED  BY <1>1, <1>9, <1>14, <1>15, <1>16, <1>17, <1>18, Zenon DEF HandOutStep
  <2> QED  BY <2>1 DEF ListStep
<1>19. CASE ans' = "noMoreFiles"
  <2>1. Len(b) = 0 /\ emptyAnswer = "noMoreFiles"
    BY <1>1, <1>3, <1>19
  <2>2. dirSent' >= n
    BY <2>1, <1>1, <1>3 DEF emptyAnswer, advance
  <2>3. j = n
    BY <2>2, <1>4, <1>5
  <2>4. Pending' = {}
    <3>1. \A m \in (j + 1)..n : FALSE
      BY <2>3
    <3> QED  BY <3>1, <1>7
  <2>5. ToSet(b) = {}
    <3>1. \A a : ~In(a, b)
      BY <2>1 DEF In
    <3> QED  BY <3>1, <1>8
  <2>6. Pending \cap steady = {}
    BY <2>4, <2>5, <1>17
  <2>7. got' = got
    <3>1. b = <<>>
      BY <2>1
    <3> QED  BY <3>1, <1>1, <1>3, <1>4
  <2>8. FinishStep
    BY <2>4, <2>6, <2>7, <1>1, <1>19 DEF FinishStep
  <2> QED  BY <2>8 DEF ListStep
<1> QED  BY <1>18, <1>19

LEMMA HandlerIsPromised ==
    ASSUME EnumInv, Query \/ Handler
    PROVE  ListStep \/ UNCHANGED <<dirEntries, dirSent, got, steady, ans>>
<1>1. CASE Query
  <2>1. PICK r \in Queries : QueryDirectory(r)
    BY <1>1 DEF Query
  <2>2. UNCHANGED <<dirEntries, dirSent, got, steady>> /\ (ans' = "refused" \/ ans' = ans)
    BY <2>1 DEF QueryDirectory, answer
  <2> QED  BY <2>2, EmptyAnswer
<1>2. CASE Scan
  <2>1. UNCHANGED <<dirEntries, dirSent, got, steady>> /\ (ans' = "gone" \/ ans' = ans)
    BY <1>2 DEF Scan, answer
  <2> QED  BY <2>1, EmptyAnswer
<1>3. CASE Filter
  <2>1. EnumInv'
    BY <1>3, FilterStep
  <2>2. dirSent' = 0 /\ got' = <<>> /\ ans' = "none" /\ q'.at = "serve"
    BY <1>3 DEF Filter
  <2>3. dirEntries' # NoScan
    BY <2>1, <2>2 DEF EnumInv, QueryInv
  <2>4. dirEntries' \in Seq(AllNames) /\ steady' \subseteq ToSet(dirEntries')
    BY <2>1, <2>3 DEF EnumInv, SnapshotInv, EntriesMatch
  <2>5. \A a : a \in Pending' <=> \E m \in (0 + 1)..Len(dirEntries') : dirEntries'[m] = a
    <3>1. 0 \in 0..Len(dirEntries')
      BY <2>4
    <3>2. Pending' = ToSet(SubSeq(dirEntries', 0 + 1, Len(dirEntries')))
      BY <2>2, <2>3 DEF Pending
    <3> QED  BY <3>1, <3>2, <2>4, RestIs
  <2>6. \A a \in ToSet(dirEntries') : In(a, dirEntries')
    BY <2>4, ToSetIn
  <2>7. steady' \subseteq Pending'
    <3>1. 0 + 1 = 1
      OBVIOUS
    <3> HIDE DEF Pending
    <3> QED  BY <3>1, <2>4, <2>5, <2>6 DEF In
  <2>8. ToSet(got') = {}
    BY <2>2 DEF ToSet
  <2> QED  BY <2>2, <2>7, <2>8 DEF ListStep, StartStep
<1>4. CASE Serve
  <2>1. UNCHANGED <<dirEntries, dirSent, got, steady>> /\ q.at = "serve"
    BY <1>4 DEF Serve
  <2>2. CASE ans' = ans \/ ans' # "noMoreFiles"
    BY <2>1, <2>2, EmptyAnswer
  <2>3. CASE ans' # ans /\ ans' = "noMoreFiles"
    <3>1. dirSent >= Len(dirEntries)
      BY <1>4, <2>3 DEF Serve, answer
    <3>2. dirEntries # NoScan /\ SnapshotInv
      BY <2>1 DEF EnumInv, QueryInv
    <3>3. Pending = {}
      <4>1. \A m \in (dirSent + 1)..Len(dirEntries) : FALSE
        BY <3>1, <3>2 DEF SnapshotInv
      <4> QED  BY <4>1, <3>2, PendingIs
    <3>4. Pending' = Pending
      BY <2>1 DEF Pending
    <3> QED  BY <3>3, <3>4, <2>1, <2>3 DEF ListStep, FinishStep
  <2> QED  BY <2>2, <2>3
<1>5. CASE EncodeEntry \/ SkipEntry
  BY <1>5 DEF EncodeEntry, SkipEntry
<1>6. CASE AnswerEntries
  BY <1>6, AnswerIsPromised
<1> QED  BY <1>1, <1>2, <1>3, <1>4, <1>5, <1>6 DEF Handler

LEMMA StepIsPromised ==
    ASSUME EnumInv, [EnumNext]_enumVars
    PROVE  [Promised!Next]_(Promised!lvars)
<1>1. ListStep \/ UNCHANGED <<dirEntries, dirSent, got, steady, ans>>
  <2>1. CASE Environment
    <3>1. ASSUME NEW n \in FileNames, AddName(n) \/ RemoveName(n)
          PROVE  VanishStep
      BY <3>1 DEF AddName, RemoveName, VanishStep, queryVars
    <3>2. ASSUME MoveAway  PROVE VanishStep
      <4>1. steady' = {} /\ UNCHANGED <<dirEntries, dirSent, got, ans>>
        BY <3>2 DEF MoveAway
      <4> QED  BY <4>1 DEF VanishStep
    <3> QED  BY <2>1, <3>1, <3>2 DEF Environment, ListStep
  <2>2. CASE Probe
    BY <2>2 DEF Probe, probeCaseByCreate, probeFirst, probeSecond, probeFails, queryVars
  <2>3. CASE Query \/ Handler
    BY <2>3, HandlerIsPromised
  <2>4. CASE UNCHANGED enumVars
    BY <2>4 DEF enumVars
  <2> QED  BY <2>1, <2>2, <2>3, <2>4 DEF EnumNext
<1>2. CASE ListStep
  BY <1>2, ListStepIsPromised
<1>3. CASE UNCHANGED <<dirEntries, dirSent, got, steady, ans>>
  BY <1>3 DEF Promised!lvars
<1> QED  BY <1>1, <1>2, <1>3

\* The paged listing is what Listing promises: no entry goes out twice, none that
\* stayed in the directory is left out however the responses are cut, and a client
\* that is told STATUS_NO_MORE_FILES has had all of those (handleQueryDirectory:
\* DirSent, RESTART_SCANS, RETURN_SINGLE_ENTRY and the buffer that fills up).
THEOREM ListingIsPromised == EnumSpec => ImplementsListing
<1>1. EnumInit => Promised!Init
  BY PromisedStarts
<1>2. EnumInv /\ [EnumNext]_enumVars => [Promised!Next]_(Promised!lvars)
  BY StepIsPromised
<1> QED  BY <1>1, <1>2, EnumInvariant, PTL DEF EnumSpec, ImplementsListing, Promised!Spec

-----------------------------------------------------------------------------
(* What is listed can be opened.                                           *)

\* A pattern without wildcards means the names that agree rune by rune.
LEMMA LiteralMatch ==
    ASSUME NEW p, NEW n, NEW cs, Len(p) \in Nat, Len(n) \in Nat, p # <<>>, Literal(p),
           Matches(p, n, cs)
    PROVE  Len(p) = Len(n) /\ \A i \in 1..Len(p) : same(p[i], n[i], cs)
<1>1. Suffix(p, n, cs, 1, 1)
  BY MatchesIsSuffix
<1>2. \A i \in 1..Len(p) : p[i] # "*" /\ p[i] # "?"
  BY DEF Literal
<1>3. 1 \in 1..(Len(p) + 1) /\ 1 \in 1..(Len(n) + 1)
  OBVIOUS
<1>4. ASSUME NEW d \in 0..Len(p)
      PROVE  1 + d <= Len(n) + 1 /\ Suffix(p, n, cs, 1 + d, 1 + d)
  <2>1. d \in Nat /\ 1 + d <= Len(p) + 1 /\ \A k \in 1..(1 + d - 1) : p[k] # "*"
    BY <1>2
  <2> QED  BY <2>1, <1>1, <1>3, SuffixShift
<1>5. Len(p) = Len(n)
  <2>1. 1 + Len(p) <= Len(n) + 1 /\ Suffix(p, n, cs, 1 + Len(p), 1 + Len(p))
    BY <1>4
  <2>2. 1 + Len(p) = Len(p) + 1 /\ Len(p) + 1 \in 1..(Len(n) + 1)
    BY <2>1
  <2>3. Len(p) + 1 = Len(n) + 1
    BY <2>1, <2>2, SuffixEnd
  <2> QED  BY <2>3
<1>6. ASSUME NEW i \in 1..Len(p)  PROVE same(p[i], n[i], cs)
  <2>1. i - 1 \in 0..Len(p) /\ 1 + (i - 1) = i /\ i \in 1..(Len(n) + 1)
    BY <1>5
  <2>2. Suffix(p, n, cs, i, i)
    <3>1. Suffix(p, n, cs, 1 + (i - 1), 1 + (i - 1))
      BY <2>1, <1>4
    <3> QED  BY <3>1, <2>1
  <2>3. Agrees(p, n, cs, i, i)
    BY <2>1, <2>2, <1>2, SuffixRune
  <2> QED  BY <2>3, <1>2 DEF Agrees
<1> QED  BY <1>5, <1>6

\* A name that matchSMBPattern lists under some spelling can be opened under that
\* spelling (resolveNorm): matcher and resolver follow the same answer of the case
\* probe, measured or defaulted, where folding and composing agree (FoldsAgree).
THEOREM ListedNamesResolve == FoldsAgree => (EnumSpec => []ListedIsResolvable)
<1> SUFFICES ASSUME FoldsAgree  PROVE EnumSpec => []ListedIsResolvable
  OBVIOUS
<1>1. ASSUME EnumInv  PROVE ListedIsResolvable
  <2> SUFFICES ASSUME settled, ~raced, there, NEW p \in Patterns, p # <<>>, Literal(p),
                      NEW n \in disk, matchSMBPattern(p, n, shareCaseSensitive)
               PROVE  ResolveNorm(p)
    BY DEF ListedIsResolvable
  <2>1. /\ n \in FileNames /\ shareCaseSensitive \in BOOLEAN /\ probe.measured \in BOOLEAN
        /\ probe.measured => shareCaseSensitive = ~fsFolds
        /\ fsFolds \in BOOLEAN
    BY <1>1 DEF EnumInv, ProbeInv
  <2>2. Len(p) \in Nat /\ Len(n) \in Nat
    BY <2>1, NameFacts DEF AllNames
  <2>3. Matches(p, n, shareCaseSensitive)
    BY <2>2, MatcherIsCorrect
  <2>4. Len(p) = Len(n) /\ \A i \in 1..Len(p) : same(p[i], n[i], shareCaseSensitive)
    BY <2>2, <2>3, LiteralMatch
  <2>5. leafExists(p) => ResolveNorm(p)
    BY DEF ResolveNorm
  <2>6. CASE shareCaseSensitive
    <3>1. \A i \in 1..Len(p) : p[i] = n[i]
      BY <2>4, <2>6 DEF same
    <3>2. p \in Seq(Range(p)) /\ n \in Seq(Range(n))
      BY <2>1, EnumerationConstants DEF Patterns
    <3>3. p = n
      BY <3>1, <3>2, <2>4, SeqEqual
    <3> QED  BY <3>3, <2>5 DEF leafExists, sameFile
  <2>7. CASE ~shareCaseSensitive
    <3>1. \A i \in 1..Len(p) : FoldRune(n[i]) = FoldRune(p[i])
      BY <2>4, <2>7 DEF same, foldEqual, FoldRune
    <3>2. FoldName(n) = FoldName(p)
      BY <3>1, <2>4 DEF FoldName
    <3>3. CASE probe.measured
      <4>1. fsFolds
        BY <2>1, <2>7, <3>3
      <4>2. leafExists(p)
        BY <4>1, <3>2 DEF leafExists, sameFile
      <4> QED  BY <4>2, <2>5
    <3>4. CASE ~probe.measured
      <4>1. shareFoldsCase
        BY <2>7, <3>4 DEF shareFoldsCase, shareCaseSensitive
      <4>2. foldKey(n) = foldKey(p)
        BY <3>2, <2>1 DEF FoldsAgree
      <4> QED  BY <4>1, <4>2 DEF ResolveNorm
    <3> QED  BY <3>3, <3>4, <2>1
  <2> QED  BY <2>6, <2>7, <2>1
<1> QED  BY <1>1, EnumInvariant, PTL
=============================================================================
