------------------------------ MODULE Handles ------------------------------
(***************************************************************************)
(* Who owns a file handle, and who disposes of it.                         *)
(*                                                                         *)
(* Every disposal path of the server in one model: CLOSE, TREE_DISCONNECT, *)
(* LOGOFF, a SESSION_SETUP that supersedes a session of another connection,*)
(* the teardown of a connection, and the expiry, replacement and reclaim   *)
(* of a durable handle.  They run on the pool workers of each connection   *)
(* and on its read goroutine, and meet in Session.opens, in Open.mu and in *)
(* the DurableTable.                                                       *)
(*                                                                         *)
(* The share-mode reservation is "held" or "none" here: when a CREATE gets *)
(* one is the business of module ShareModes.  Pipes and named streams own  *)
(* nothing outside the process's memory and are left out.                  *)
(***************************************************************************)
EXTENDS Naturals, FiniteSets

CONSTANTS
    Conns,       \* connections, each with its read goroutine
    Workers,     \* the pool goroutines that run frames
    Sessions,    \* session objects
    HostOf,      \* the connection a session belongs to
    UserOf,      \* the user a session authenticates as
    Trees,       \* tree connects
    Opens,       \* *Open values
    Dirs,        \* those that are directories and have no descriptor
    Keys,        \* durable keys (ClientGuid, CreateGuid)
    MaxOpens,    \* maxOpensPerSession
    None         \* nil

ASSUME ConstantsOK ==
    /\ HostOf \in [Sessions -> Conns]
    /\ Dirs \subseteq Opens
    /\ MaxOpens \in Nat
    /\ None \notin Conns \cup Sessions \cup Trees \cup Opens \cup Keys
    /\ Conns \cap Workers = {}

VARIABLES
    job,     \* what each goroutine is doing
    table,   \* SessionTable.byID of every connection
    idx,     \* SessionIndex.byID
    dead,    \* Session.dead
    trees,   \* Session.trees
    opens,   \* Session.opens
    hnd,     \* the fields of each Open
    entry,   \* DurableTable.entries
    unlocked \* history: whether a request has got a handle without its lock

vars == <<job, table, idx, dead, trees, opens, hnd, entry, unlocked>>
sessVars == <<table, idx, dead, trees, opens>>

Goroutines == Workers \cup Conns

\* lk is what the goroutine holds of the Open.mu of its handle, on.
Job == [at : {"free", "frame", "message", "built", "published", "reclaimed",
              "reopened", "reregister", "lookup", "missed", "locked", "using",
              "closing", "relTree", "relLogoff", "unindex",
              "reading", "auth", "setup", "superseding", "taking", "relSuper",
              "drain", "relConn", "closed"},
        cmd : {"READ", "OTHER", "CLOSE", "none"},
        conn : Conns \cup {None}, sess : Sessions \cup {None}, on : Opens \cup {None},
        tree : Trees \cup {None}, key : Keys \cup {None},
        lk : {"none", "shared", "exclusive"}, batch : SUBSET Opens]

\* A goroutine of connection c with nothing in hand.
Doing(c, at) ==
    [at |-> at, cmd |-> "none", conn |-> c, sess |-> None, on |-> None,
     tree |-> None, key |-> None, lk |-> "none", batch |-> {}]

\* fileID is "known" for a reclaimed handle, which keeps the FileID that its
\* client has from before, and "new" for one no client has heard of yet.
Handle == [fd : {"open", "closed"}, share : {"held", "none"},
           tree : Trees \cup {None}, key : Keys \cup {None},
           fileID : {"new", "known"}]

NoHandle == [fd |-> "closed", share |-> "none", tree |-> None, key |-> None,
             fileID |-> "new"]

NoEntry == [open |-> None, state |-> "none"]

Entry == [open : Opens, state : {"attached", "detached", "expired"}] \cup {NoEntry}

TypeOK ==
    /\ job \in [Goroutines -> Job]
    /\ table \subseteq Sessions /\ idx \subseteq Sessions /\ dead \subseteq Sessions
    /\ trees \in [Sessions -> SUBSET Trees]
    /\ opens \in [Sessions -> SUBSET Opens]
    /\ hnd \in [Opens -> Handle]
    /\ entry \in [Keys -> Entry]
    /\ unlocked \in BOOLEAN

\* No connection has been accepted yet.
Init ==
    /\ job = [g \in Goroutines |->
                IF g \in Conns THEN Doing(g, "closed") ELSE Doing(None, "free")]
    /\ table = {} /\ idx = {} /\ dead = {}
    /\ trees = [s \in Sessions |-> {}]
    /\ opens = [s \in Sessions |-> {}]
    /\ hnd = [o \in Opens |-> NoHandle]
    /\ entry = [k \in Keys |-> NoEntry]
    /\ unlocked = FALSE

-----------------------------------------------------------------------------
(* Helpers.                                                                *)

SessionsOf(c) == {s \in Sessions : HostOf[s] = c}

\* An Open the allocator may hand out: nothing refers to it.
Fresh(o) == hnd[o] = NoHandle /\ \A g \in Goroutines : job[g].on # o

\* A TreeId in no use (the Tree of a handle out of every map is never read).
FreshTree(t) ==
    /\ \A s \in Sessions : t \notin trees[s] /\ \A o \in opens[s] : hnd[o].tree # t
    /\ \A g \in Goroutines : job[g].tree # t

\* Open.mu.
Unheld(o) == \A g \in Goroutines : job[g].on = o => job[g].lk = "none"
NotExclusive(o) == \A g \in Goroutines : job[g].on = o => job[g].lk # "exclusive"

\* Handlers that missed their handle before take it without its lock.
becomes(g, j) ==
    /\ job' = [job EXCEPT ![g] = j]
    /\ unlocked' = (unlocked \/ (job[g].at = "missed" /\ j.at \in {"using", "closing"}))

\* The message is answered; the frame may hold more of them.
answered(w) == becomes(w, Doing(job[w].conn, "frame"))

\* TakeAllOpens, of every session of S.
takeAllOpens(S) ==
    /\ dead' = dead \cup S
    /\ trees' = [s \in Sessions |-> IF s \in S THEN {} ELSE trees[s]]
    /\ opens' = [s \in Sessions |-> IF s \in S THEN {} ELSE opens[s]]

\* Mutant: the durable entry survives the handle.
dispose_KeepsEntry(o) ==
    /\ hnd' = [hnd EXCEPT ![o] = NoHandle]
    /\ UNCHANGED entry

\* What releaseOpens and handleClose do to one handle: the reservation, the
\* durable entry under its key, the descriptor.
dispose(o) ==
    /\ hnd' = [hnd EXCEPT ![o] = NoHandle]
    /\ entry' = [k \in Keys |-> IF hnd[o].key = k THEN NoEntry ELSE entry[k]]

\* releaseOpen: the same without the durable entry.
releaseOpen(o) == hnd' = [hnd EXCEPT ![o] = NoHandle]

\* DurableTable.Register: an attached entry keeps its slot, one whose
\* connection is gone is released and replaced.
Register(o, k) ==
    IF entry[k].state = "attached"
    THEN /\ hnd' = [hnd EXCEPT ![o].key = None]
         /\ UNCHANGED entry
    ELSE /\ hnd' = [p \in Opens |->
                IF p = o THEN [hnd[o] EXCEPT !.key = k]
                ELSE IF p = entry[k].open THEN NoHandle ELSE hnd[p]]
         /\ entry' = [entry EXCEPT ![k] = [open |-> o, state |-> "attached"]]

-----------------------------------------------------------------------------
(* The connection: its read goroutine, its frames, its teardown.           *)

\* A connection begins with an empty SessionTable.
Accept(c) ==
    /\ job[c].at = "closed"
    /\ becomes(c, Doing(c, "reading"))
    /\ table' = table \ SessionsOf(c)
    /\ UNCHANGED <<idx, dead, trees, opens, hnd, entry>>

\* The read loop hands a frame to the pool.
Submit(c, w) ==
    /\ job[c].at = "reading"
    /\ job[w].at = "free"
    /\ becomes(w, Doing(c, "frame"))
    /\ UNCHANGED <<sessVars, hnd, entry>>

\* The chain of the frame is done.
EndFrame(w) ==
    /\ job[w].at = "frame"
    /\ becomes(w, Doing(None, "free"))
    /\ UNCHANGED <<sessVars, hnd, entry>>

\* Dispatch resolves the SessionId at the top of every message.
Dispatch(w, s) ==
    /\ job[w].at = "frame"
    /\ s \in table /\ HostOf[s] = job[w].conn
    /\ becomes(w, [job[w] EXCEPT !.at = "message", !.sess = s])
    /\ UNCHANGED <<sessVars, hnd, entry>>

\* A message that touches no handle, or that is refused before it does.
Answer(w) ==
    /\ job[w].at = "message"
    /\ answered(w)
    /\ UNCHANGED <<sessVars, hnd, entry>>

drained(c) == \A w \in Workers : job[w].conn # c

\* The read loop ends and the connection leaves the index.
LoopEnds(c) ==
    /\ job[c].at = "reading"
    /\ becomes(c, Doing(c, "drain"))
    /\ idx' = idx \ SessionsOf(c)
    /\ UNCHANGED <<table, dead, trees, opens, hnd, entry>>

\* Mutant: the maps are iterated in place.
TakeConnOpens_InPlace(c) ==
    LET mine == SessionsOf(c) \cap table IN
    /\ job[c].at = "drain"
    /\ drained(c)
    /\ becomes(c, [job[c] EXCEPT !.at = "relConn", !.batch = UNION {opens[s] : s \in mine}])
    /\ UNCHANGED <<sessVars, hnd, entry>>

\* releaseConnOpens, once the pool is empty: every handle of every session the
\* connection still lists.
TakeConnOpens(c) ==
    LET mine == SessionsOf(c) \cap table IN
    /\ job[c].at = "drain"
    /\ drained(c)
    /\ becomes(c, [job[c] EXCEPT !.at = "relConn", !.batch = UNION {opens[s] : s \in mine}])
    /\ takeAllOpens(mine)
    /\ UNCHANGED <<table, idx, hnd, entry>>

\* IsDurable and DurableTable.Has.
Has(k) == IF k = None THEN FALSE ELSE entry[k].state \in {"attached", "detached"}

\* One handle of the teardown.  One without a descriptor is passed over (it is
\* garbage, unless the durable table still points at it), a durable one is
\* detached, any other is released.
ReleaseConnOpen(c, o) ==
    /\ job[c].at = "relConn"
    /\ o \in job[c].batch
    /\ Unheld(o)
    /\ becomes(c, [job[c] EXCEPT !.batch = @ \ {o}])
    /\ LET k == hnd[o].key IN
       \/ /\ hnd[o].fd = "closed"
          /\ hnd' = IF k = None THEN [hnd EXCEPT ![o] = NoHandle] ELSE hnd
          /\ UNCHANGED entry
       \/ /\ hnd[o].fd = "open"
          /\ Has(k)
          /\ entry' = [entry EXCEPT ![k].state = "detached"]
          /\ UNCHANGED hnd
       \/ /\ hnd[o].fd = "open"
          /\ ~Has(k)
          /\ releaseOpen(o)
          /\ UNCHANGED entry
    /\ UNCHANGED sessVars

Closed(c) ==
    /\ job[c].at = "relConn"
    /\ job[c].batch = {}
    /\ becomes(c, Doing(c, "closed"))
    /\ UNCHANGED <<sessVars, hnd, entry>>

-----------------------------------------------------------------------------
(* SESSION_SETUP runs on the read goroutine with the pool drained.         *)

\* The final leg of the handshake, for a new session or for one the
\* connection already has.
Authenticate(c, s) ==
    /\ job[c].at = "reading" /\ drained(c)
    /\ HostOf[s] = c
    /\ becomes(c, [job[c] EXCEPT !.at = "auth", !.sess = s])
    /\ \/ /\ s \in table
          /\ UNCHANGED <<table, dead, trees>>
       \/ /\ s \notin table \cup idx
          /\ \A g \in Goroutines : job[g].sess # s
          /\ table' = table \cup {s}
          /\ dead' = dead \ {s}
          /\ trees' = [trees EXCEPT ![s] = {}]
    /\ UNCHANGED <<idx, opens, hnd, entry>>

IndexSession(c) ==
    /\ job[c].at = "auth"
    /\ idx' = idx \cup {job[c].sess}
    /\ becomes(c, [job[c] EXCEPT !.at = "setup"])
    /\ UNCHANGED <<table, dead, trees, opens, hnd, entry>>

\* PreviousSessionId is zero, unknown, somebody else's or the session's own.
NoPreviousSession(c) ==
    /\ job[c].at = "setup"
    /\ becomes(c, Doing(c, "reading"))
    /\ UNCHANGED <<sessVars, hnd, entry>>

maySupersede(prev, by) == prev # by /\ UserOf[prev] = UserOf[by]

\* The lookup, the identity check and the removal under the index lock.
Supersede(c, p) ==
    /\ job[c].at = "setup"
    /\ p \in idx /\ maySupersede(p, job[c].sess)
    /\ idx' = idx \ {p}
    /\ becomes(c, [job[c] EXCEPT !.at = "superseding", !.sess = p])
    /\ UNCHANGED <<table, dead, trees, opens, hnd, entry>>

\* closeSession, step 1: the owning connection forgets the SessionId.
RemoveSuperseded(c) ==
    /\ job[c].at = "superseding"
    /\ table' = table \ {job[c].sess}
    /\ becomes(c, [job[c] EXCEPT !.at = "taking"])
    /\ UNCHANGED <<idx, dead, trees, opens, hnd, entry>>

\* Mutant: the teardown waits for the read goroutine of the owning connection.
TakeSuperseded_AsksOwner(c) ==
    /\ job[c].at = "taking"
    /\ job[HostOf[job[c].sess]].at = "reading"
    /\ takeAllOpens({job[c].sess})
    /\ becomes(c, [job[c] EXCEPT !.at = "relSuper", !.batch = opens[job[c].sess]])
    /\ UNCHANGED <<table, idx, hnd, entry>>

\* Step 2: take its handles.
TakeSuperseded(c) ==
    /\ job[c].at = "taking"
    /\ takeAllOpens({job[c].sess})
    /\ becomes(c, [job[c] EXCEPT !.at = "relSuper", !.batch = opens[job[c].sess]])
    /\ UNCHANGED <<table, idx, hnd, entry>>

\* Mutant: the release does not wait for the handle's lock.
ReleaseOpen_NoLock(g, o) ==
    /\ job[g].at \in {"relTree", "relLogoff", "relSuper"}
    /\ o \in job[g].batch
    /\ dispose(o)
    /\ becomes(g, [job[g] EXCEPT !.batch = @ \ {o}])
    /\ UNCHANGED sessVars

\* releaseOpens, one handle: TREE_DISCONNECT, LOGOFF and a superseded session.
ReleaseOpen(g, o) ==
    /\ job[g].at \in {"relTree", "relLogoff", "relSuper"}
    /\ o \in job[g].batch
    /\ Unheld(o)
    /\ dispose(o)
    /\ becomes(g, [job[g] EXCEPT !.batch = @ \ {o}])
    /\ UNCHANGED sessVars

SetupAnswered(c) ==
    /\ job[c].at = "relSuper"
    /\ job[c].batch = {}
    /\ becomes(c, Doing(c, "reading"))
    /\ UNCHANGED <<sessVars, hnd, entry>>

-----------------------------------------------------------------------------
(* Trees and sessions, on the pool.                                        *)

\* AddTree has no dead test.
TreeConnect(w, t) ==
    /\ job[w].at = "message"
    /\ FreshTree(t)
    /\ trees' = [trees EXCEPT ![job[w].sess] = @ \cup {t}]
    /\ answered(w)
    /\ UNCHANGED <<table, idx, dead, opens, hnd, entry>>

\* RemoveTreeAndOpens.
TreeDisconnect(w, t) ==
    LET s == job[w].sess
        gone == {o \in opens[s] : hnd[o].tree = t} IN
    /\ job[w].at = "message"
    /\ trees' = [trees EXCEPT ![s] = @ \ {t}]
    /\ opens' = [opens EXCEPT ![s] = @ \ gone]
    /\ becomes(w, [job[w] EXCEPT !.at = "relTree", !.batch = gone])
    /\ UNCHANGED <<table, idx, dead, hnd, entry>>

TreeDisconnected(w) ==
    /\ job[w].at = "relTree"
    /\ job[w].batch = {}
    /\ answered(w)
    /\ UNCHANGED <<sessVars, hnd, entry>>

Logoff(w) ==
    LET s == job[w].sess IN
    /\ job[w].at = "message"
    /\ takeAllOpens({s})
    /\ becomes(w, [job[w] EXCEPT !.at = "relLogoff", !.batch = opens[s]])
    /\ UNCHANGED <<table, idx, hnd, entry>>

\* The handles are released and the answer is out; the ids go afterwards.
RemoveLoggedOff(w) ==
    /\ job[w].at = "relLogoff"
    /\ job[w].batch = {}
    /\ table' = table \ {job[w].sess}
    /\ becomes(w, [job[w] EXCEPT !.at = "unindex"])
    /\ UNCHANGED <<idx, dead, trees, opens, hnd, entry>>

Unindex(w) ==
    /\ job[w].at = "unindex"
    /\ idx' = idx \ {job[w].sess}
    /\ answered(w)
    /\ UNCHANGED <<table, dead, trees, opens, hnd, entry>>

-----------------------------------------------------------------------------
(* CREATE.                                                                 *)

\* The tree is resolved, the limit is looked at, the file is opened and its
\* share mode reserved.  The Open is still this goroutine's alone.
BuildOpen(w, o, t) ==
    LET s == job[w].sess IN
    /\ job[w].at = "message"
    /\ t \in trees[s]
    /\ Cardinality(opens[s]) < MaxOpens
    /\ Fresh(o)
    /\ hnd' = [hnd EXCEPT ![o] =
            [NoHandle EXCEPT !.tree = t,
                             !.fd = IF o \in Dirs THEN "closed" ELSE "open",
                             !.share = IF o \in Dirs THEN "none" ELSE "held"]]
    /\ becomes(w, [job[w] EXCEPT !.at = "built", !.on = o, !.tree = t])
    /\ UNCHANGED <<sessVars, entry>>

\* AddOpenToTree.
CanPublish(s, t) == s \notin dead /\ t \in trees[s]

\* Open.mu is taken first, so the handle is never reachable and unheld.
Publish(w) ==
    LET s == job[w].sess
        o == job[w].on IN
    /\ job[w].at = "built"
    /\ \/ /\ CanPublish(s, job[w].tree)
          /\ opens' = [opens EXCEPT ![s] = @ \cup {o}]
          /\ becomes(w, [job[w] EXCEPT !.at = "published", !.lk = "exclusive"])
          /\ UNCHANGED hnd
       \/ /\ ~CanPublish(s, job[w].tree)
          /\ releaseOpen(o)
          /\ answered(w)
          /\ UNCHANGED opens
    /\ UNCHANGED <<table, idx, dead, trees, entry>>

\* The CREATE asked for a durable handle.
GrantDurable(w, k) ==
    /\ job[w].at = "published"
    /\ Register(job[w].on, k)
    /\ answered(w)
    /\ UNCHANGED sessVars

\* It did not.
CreateAnswered(w) ==
    /\ job[w].at = "published"
    /\ answered(w)
    /\ UNCHANGED <<sessVars, hnd, entry>>

-----------------------------------------------------------------------------
(* A message that names a handle.                                          *)

\* lockOpenForMessage finds the handle, and asks for its lock.
Lookup(w, o, cmd) ==
    /\ job[w].at = "message"
    /\ o \in opens[job[w].sess]
    /\ becomes(w, [job[w] EXCEPT !.at = "lookup", !.on = o, !.cmd = cmd])
    /\ UNCHANGED <<sessVars, hnd, entry>>

\* Or finds nothing under that FileID, and takes no lock.
LookupMisses(w, cmd) ==
    /\ job[w].at = "message"
    /\ becomes(w, [job[w] EXCEPT !.at = "missed", !.cmd = cmd])
    /\ UNCHANGED <<sessVars, hnd, entry>>

LockOpen(w) ==
    LET o == job[w].on IN
    /\ job[w].at = "lookup"
    /\ \/ /\ job[w].cmd = "READ" /\ o \notin Dirs
          /\ NotExclusive(o)
          /\ becomes(w, [job[w] EXCEPT !.at = "locked", !.lk = "shared"])
       \/ /\ job[w].cmd # "READ" \/ o \in Dirs
          /\ Unheld(o)
          /\ becomes(w, [job[w] EXCEPT !.at = "locked", !.lk = "exclusive"])
    /\ UNCHANGED <<sessVars, hnd, entry>>

\* The handler looks the FileID up once more, for itself.  A CLOSE takes the
\* handle out of the map, and with it the duty to release it.
Found(w, o) ==
    /\ o \in opens[job[w].sess]
    /\ \/ /\ job[w].cmd # "CLOSE"
          /\ becomes(w, [job[w] EXCEPT !.at = "using", !.on = o])
          /\ UNCHANGED opens
       \/ /\ job[w].cmd = "CLOSE"
          /\ becomes(w, [job[w] EXCEPT !.at = "closing", !.on = o])
          /\ opens' = [opens EXCEPT ![job[w].sess] = @ \ {o}]

HandlerFinds(w) ==
    /\ job[w].at = "locked"
    /\ Found(w, job[w].on)
    /\ UNCHANGED <<table, idx, dead, trees, hnd, entry>>

\* The FileID that missed has been published since.  Only a reclaimed handle
\* has a FileID that a client can name before the CREATE is answered.
HandlerFindsUnlocked(w, o) ==
    /\ job[w].at = "missed"
    /\ hnd[o].fileID = "known"
    /\ Found(w, o)
    /\ UNCHANGED <<table, idx, dead, trees, hnd, entry>>

HandlerFindsNothing(w) ==
    /\ \/ job[w].at = "locked" /\ job[w].on \notin opens[job[w].sess]
       \/ job[w].at = "missed"
    /\ answered(w)
    /\ UNCHANGED <<sessVars, hnd, entry>>

\* READ, WRITE, QUERY_INFO, ... are done with the descriptor.
DoneUsing(w) ==
    /\ job[w].at = "using"
    /\ answered(w)
    /\ UNCHANGED <<sessVars, hnd, entry>>

CloseHandle(w) ==
    /\ job[w].at = "closing"
    /\ dispose(job[w].on)
    /\ answered(w)
    /\ UNCHANGED sessVars

-----------------------------------------------------------------------------
(* Durable handles.                                                        *)

\* reclaimForReconnect of a detached entry; the saved descriptor is closed and
\* the reservation kept.
Reclaim(w, k, t) ==
    LET o == entry[k].open IN
    /\ job[w].at = "message"
    /\ t \in trees[job[w].sess]
    /\ Cardinality(opens[job[w].sess]) < MaxOpens
    /\ entry[k].state = "detached"
    /\ entry' = [entry EXCEPT ![k] = NoEntry]
    /\ hnd' = [hnd EXCEPT ![o].fd = "closed"]
    /\ becomes(w, [job[w] EXCEPT !.at = "reclaimed", !.on = o, !.key = k, !.tree = t])
    /\ UNCHANGED sessVars

\* The deferred release of the saved Open's reservation.
ReopenFails(w) ==
    /\ job[w].at = "reclaimed"
    /\ releaseOpen(job[w].on)
    /\ answered(w)
    /\ UNCHANGED <<sessVars, entry>>

\* The replacement takes over the FileID, the durable key and the reservation.
Reopen(w, n) ==
    LET o == job[w].on IN
    /\ job[w].at = "reclaimed"
    /\ Fresh(n) /\ (n \in Dirs <=> o \in Dirs)
    /\ hnd' = [hnd EXCEPT
            ![o] = NoHandle,
            ![n] = [fd |-> IF n \in Dirs THEN "closed" ELSE "open",
                    share |-> hnd[o].share, tree |-> job[w].tree,
                    key |-> job[w].key, fileID |-> "known"]]
    /\ becomes(w, [job[w] EXCEPT !.at = "reopened", !.on = n])
    /\ UNCHANGED <<sessVars, entry>>

\* Mutant: no look at the session either.
PublishReclaimed_NoDeadTest(w) ==
    /\ job[w].at = "reopened"
    /\ opens' = [opens EXCEPT ![job[w].sess] = @ \cup {job[w].on}]
    /\ becomes(w, [job[w] EXCEPT !.at = "reregister", !.lk = "exclusive"])
    /\ UNCHANGED <<table, idx, dead, trees, hnd, entry>>

\* AddOpen: the session must be alive, the tree is not looked at.
PublishReclaimed(w) ==
    LET s == job[w].sess
        o == job[w].on IN
    /\ job[w].at = "reopened"
    /\ \/ /\ s \notin dead
          /\ opens' = [opens EXCEPT ![s] = @ \cup {o}]
          /\ becomes(w, [job[w] EXCEPT !.at = "reregister", !.lk = "exclusive"])
          /\ UNCHANGED hnd
       \/ /\ s \in dead
          /\ releaseOpen(o)
          /\ answered(w)
          /\ UNCHANGED opens
    /\ UNCHANGED <<table, idx, dead, trees, entry>>

\* Register again; a racer that took the key leaves this handle non-durable.
Reregister(w) ==
    /\ job[w].at = "reregister"
    /\ Register(job[w].on, job[w].key)
    /\ answered(w)
    /\ UNCHANGED sessVars

DeadlinePasses(k) ==
    /\ entry[k].state = "detached"
    /\ entry' = [entry EXCEPT ![k].state = "expired"]
    /\ UNCHANGED <<job, unlocked, sessVars, hnd>>

\* The sweeper, or the lazy eviction of a reclaim that comes too late.
Expire(k) ==
    /\ entry[k].state = "expired"
    /\ releaseOpen(entry[k].open)
    /\ entry' = [entry EXCEPT ![k] = NoEntry]
    /\ UNCHANGED <<job, unlocked, sessVars>>

-----------------------------------------------------------------------------
\* What a pool goroutine does on its own once it has a message.
MessageStep(w) ==
    \/ Answer(w) \/ TreeDisconnected(w) \/ RemoveLoggedOff(w) \/ Unindex(w)
    \/ Publish(w) \/ CreateAnswered(w)
    \/ HandlerFinds(w) \/ HandlerFindsNothing(w) \/ DoneUsing(w) \/ CloseHandle(w)
    \/ ReopenFails(w) \/ PublishReclaimed(w) \/ Reregister(w)

\* What the client chooses.
Request(w) ==
    \/ \E s \in Sessions : Dispatch(w, s)
    \/ \E t \in Trees : TreeConnect(w, t) \/ TreeDisconnect(w, t)
    \/ Logoff(w)
    \/ \E o \in Opens, t \in Trees : BuildOpen(w, o, t)
    \/ \E k \in Keys : GrantDurable(w, k) \/ \E t \in Trees : Reclaim(w, k, t)
    \/ \E cmd \in {"READ", "OTHER", "CLOSE"} :
            \/ LookupMisses(w, cmd)
            \/ \E o \in Opens : Lookup(w, o, cmd)
    \/ \E o \in Opens : HandlerFindsUnlocked(w, o) \/ Reopen(w, o)

\* What a read goroutine does on its own once it is ending or superseding.
TeardownStep(c) ==
    \/ TakeConnOpens(c) \/ Closed(c) \/ \E o \in Opens : ReleaseConnOpen(c, o)
    \/ RemoveSuperseded(c) \/ TakeSuperseded(c) \/ SetupAnswered(c)

Next ==
    \/ \E c \in Conns :
        \/ Accept(c) \/ LoopEnds(c) \/ TeardownStep(c)
        \/ \E w \in Workers : Submit(c, w)
        \/ \E s \in Sessions : Authenticate(c, s) \/ Supersede(c, s)
        \/ IndexSession(c) \/ NoPreviousSession(c)
    \/ \E w \in Workers : Request(w) \/ MessageStep(w) \/ LockOpen(w) \/ EndFrame(w)
    \/ \E g \in Goroutines, o \in Opens : ReleaseOpen(g, o)
    \/ \E k \in Keys : DeadlinePasses(k) \/ Expire(k)

Spec == Init /\ [][Next]_vars

\* Goroutines that can run do; a sync.RWMutex does not starve a waiting writer;
\* the chain of a frame is finite.
Fairness ==
    /\ \A w \in Workers : /\ WF_vars(MessageStep(w)) /\ SF_vars(LockOpen(w))
                          /\ SF_vars(EndFrame(w))
    /\ \A g \in Goroutines : WF_vars(\E o \in Opens : ReleaseOpen(g, o))
    /\ \A c \in Conns : WF_vars(TeardownStep(c))

FairSpec == Spec /\ Fairness

-----------------------------------------------------------------------------
(* Properties.                                                             *)

\* Everything that has the duty to release o: a session's map, a release
\* batch, a goroutine that built it or took it out, the durable table.
Owners(o) ==
    {s \in Sessions : o \in opens[s]}
    \cup {g \in Goroutines : \/ o \in job[g].batch
                             \/ /\ job[g].on = o
                                /\ job[g].at \in {"built", "closing", "reclaimed", "reopened"}}
    \cup {k \in Keys : entry[k].open = o /\ entry[k].state # "attached"}

\* Exactly one party has the duty to release a descriptor or a reservation,
\* and nobody has it for a handle that is gone: neither a leak nor a double
\* release, whichever disposal paths race (sessionindex.go 101-110: "Whoever
\* takes the handle out releases it, exactly once, and nobody else may").  Here
\* and below, as long as no request has got a handle without its lock.
OneOwner ==
    unlocked \/ \A o \in Opens :
        /\ hnd[o].fd = "open" \/ hnd[o].share = "held" => Cardinality(Owners(o)) = 1
        /\ hnd[o] = NoHandle => Owners(o) = {}

\* No descriptor is closed while a request reads or writes through it or a
\* CREATE builds its answer from it (dispatch.go 822-829, session.go 107-116).
\* By itself it does NOT hold: a request that missed a reclaimed handle when it
\* looked for its lock uses the handle without it.
UsedHandlesOpen ==
    \A w \in Workers :
        job[w].at \in {"using", "published", "reregister"} /\ job[w].on \notin Dirs
        => hnd[job[w].on].fd = "open"

\* The same as long as every request that got a handle got it under its lock
\* (dispatch.go 822-829, session.go 107-116).
NoUseAfterClose == unlocked \/ UsedHandlesOpen

\* A session that was torn down stays empty, although a CREATE or a reconnect
\* that resolved it earlier may still be running (session.go 262-273).
DeadSessionEmpty == \A s \in dead : opens[s] = {}

\* An attached entry belongs to a handle some party still owns, so that it is
\* closed or detached one day; and a handle that was granted durability and is
\* not being worked on is in the table (durable.go 228-229, 342-344).
DurableEntriesMatchHandles == unlocked \/
    /\ \A k \in Keys : entry[k].state = "attached" =>
            hnd[entry[k].open].key = k /\ Owners(entry[k].open) # {}
    /\ \A s \in Sessions : \A o \in opens[s] :
            hnd[o].key # None /\ Unheld(o) =>
                entry[hnd[o].key] = [open |-> o, state |-> "attached"]

\* A connection that is gone is out of the index, and what is left of its
\* sessions is about to be taken by a superseding connection.
ClosedConnHoldsNothing ==
    \A c \in Conns : job[c].at = "closed" =>
        \A s \in SessionsOf(c) :
            /\ s \notin idx
            /\ opens[s] # {} => \E d \in Conns : job[d].at = "taking" /\ job[d].sess = s

\* No handle that a CREATE makes is published "onto a tree no request can name
\* again" (session.go 319-328, AddOpenToTree).
CreatedOnConnectedTree ==
    \A s \in Sessions : \A o \in opens[s] :
        hnd[o].fileID = "new" => hnd[o].tree \in trees[s]

\* What is gone holds nothing, whatever was under way when it went: sessions,
\* connections and trees.  (A CLOSE without its lock can remove the durable entry
\* of another handle, and a third one then expires while a session lists it.)
GoneHoldsNothing ==
    /\ DeadSessionEmpty
    /\ ClosedConnHoldsNothing
    /\ unlocked \/ CreatedOnConnectedTree

\* A connection that drops is torn down completely, and a SESSION_SETUP that
\* supersedes a session is answered, whatever requests hold its handles
\* (dispatch.go 867-891: "nothing ever holds Open.mu across an unbounded wait").
TeardownCompletes ==
    \A c \in Conns :
        job[c].at \in {"drain", "superseding"} ~> job[c].at \in {"closed", "reading"}
=============================================================================
