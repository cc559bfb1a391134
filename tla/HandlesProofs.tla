---------------------------- MODULE HandlesProofs ----------------------------
(***************************************************************************)
(* Proofs about module Handles: for any number of connections, workers,    *)
(* sessions, trees, handles and durable keys, every handle that holds      *)
(* something has exactly one owner, none is closed under a request that    *)
(* has its lock, what was torn down holds nothing, and the durable table   *)
(* agrees with the handles.                                                *)
(*                                                                         *)
(* The argument has three layers.  Goes(...) says field by field what one  *)
(* goroutine becomes, so that nothing above it looks into job' again.      *)
(* SessInv, about sessions and connections, is preserved by every step.    *)
(* HandleInv, about handles, is preserved as long as no request has got a  *)
(* handle without its lock: each action is shown to be one of seventeen    *)
(* kinds of step (Takes, Releases, Publishes, ...) and each kind to        *)
(* preserve HandleInv.                                                     *)
(***************************************************************************)
EXTENDS Handles, FiniteSetTheorems, TLAPS

-----------------------------------------------------------------------------
(* The phases of a goroutine, and what it carries in each.                 *)

\* A handle in hand; its lock held; the duty to release it.
OnAts == {"built", "published", "reclaimed", "reopened", "reregister", "lookup",
          "locked", "using", "closing"}
HeldAts == {"published", "reregister", "locked", "using", "closing"}
DutyAts == {"built", "closing", "reclaimed", "reopened"}
RelAts == {"relTree", "relLogoff", "relSuper", "relConn"}

MessageAts == OnAts \cup {"message", "missed", "relTree", "relLogoff", "unindex"}
WorkerAts == MessageAts \cup {"free", "frame"}
SetupAts == {"auth", "setup", "superseding", "taking", "relSuper"}
ConnAts == SetupAts \cup {"reading", "drain", "relConn", "closed"}

\* A pool goroutine: a session of its own connection while it runs a message, a
\* handle, a lock and a batch only in the phases that need them.
WorkerRow(j) ==
    /\ j.at \in WorkerAts
    /\ j.at # "free" => j.conn \in Conns
    /\ j.at = "free" => j.conn = None
    /\ j.at \in MessageAts => j.sess \in Sessions /\ HostOf[j.sess] = j.conn
    /\ j.at \notin MessageAts => j.sess = None
    /\ j.at \in OnAts <=> j.on # None
    /\ j.at \in {"relTree", "relLogoff"} \/ j.batch = {}
    /\ j.at \notin HeldAts => j.lk = "none"
    /\ j.at \in {"built", "reclaimed", "reopened"} => j.tree \in Trees
    /\ j.at \in {"reclaimed", "reopened", "reregister"} => j.key \in Keys

\* The read goroutine of connection c: never a handle in hand.
ConnRow(c, j) ==
    /\ j.at \in ConnAts
    /\ j.conn = c
    /\ j.on = None /\ j.lk = "none"
    /\ j.at \in SetupAts => j.sess \in Sessions
    /\ j.at = "auth" => HostOf[j.sess] = c
    /\ j.at \in {"relSuper", "relConn"} \/ j.batch = {}

Rows ==
    /\ \A w \in Workers : WorkerRow(job[w])
    /\ \A c \in Conns : ConnRow(c, job[c])

Shape == TypeOK /\ Rows

-----------------------------------------------------------------------------
(* The invariant about sessions and connections: where a session that still *)
(* lists handles is known from.                                            *)

Taken(s) == \E d \in Conns : job[d].at = "taking" /\ job[d].sess = s

Tracked ==
    \* A session with handles is in its connection's table, or out of it and
    \* about to be emptied; so is one a message still works for, or it is dead.
    /\ \A s \in Sessions : opens[s] # {} => s \in table \/ Taken(s)
    /\ \A w \in Workers : job[w].sess # None =>
            job[w].sess \in table \cup dead \/ Taken(job[w].sess)
    \* What LOGOFF takes out of the maps was emptied before.
    /\ \A w \in Workers : job[w].at \in {"relLogoff", "unindex"} => job[w].sess \in dead
    \* A connection that ends has left the index, and has no message running
    \* and no live session once its handles are taken.
    /\ \A c \in Conns : job[c].at \in {"drain", "relConn", "closed"} =>
            \A s \in idx : HostOf[s] # c
    /\ \A c \in Conns : job[c].at \in {"relConn", "closed"} =>
            /\ \A w \in Workers : job[w].conn # c
            /\ \A s \in table : HostOf[s] = c => s \in dead

SessInv == Shape /\ DeadSessionEmpty /\ Tracked

-----------------------------------------------------------------------------
(* The invariant about handles, as long as no request went without a lock. *)

\* The three ways to have the duty to release o: a session lists it (opens), a
\* goroutine owes it, a durable entry keeps it for a client that is away.
Owes(g, o) == o \in job[g].batch \/ (job[g].on = o /\ job[g].at \in DutyAts)
Parks(k, o) == entry[k].open = o /\ entry[k].state # "attached"
Owned(o) ==
    \/ \E s \in Sessions : o \in opens[s]
    \/ \E g \in Goroutines : Owes(g, o)
    \/ \E k \in Keys : Parks(k, o)

\* Open.mu: who has it in which phase, and what it excludes.
Locking ==
    /\ \A g \in Goroutines :
        /\ job[g].lk # "none" <=> job[g].at \in HeldAts
        /\ job[g].at \in {"published", "reregister", "closing"} => job[g].lk = "exclusive"
        /\ job[g].at = "locked" /\ job[g].cmd = "CLOSE" => job[g].lk = "exclusive"
    /\ \A g, h \in Goroutines :
        g # h /\ job[g].on # None /\ job[g].on = job[h].on /\ job[g].lk = "exclusive"
        => job[h].lk = "none"

\* Nobody else has a handle in hand that its CREATE or reconnect has not
\* published, that a teardown took after the pool had drained, or that is parked;
\* and a message has in hand handles of its own session.
Apart ==
    /\ \A g, h \in Goroutines :
        job[g].at \in {"built", "reclaimed", "reopened"} /\ job[h].on = job[g].on => g = h
    /\ \A g, h \in Goroutines : job[g].at = "relConn" => job[h].on \notin job[g].batch
    /\ \A k \in Keys, g \in Goroutines :
        entry[k].state \in {"detached", "expired"} => job[g].on # entry[k].open
    /\ \A s \in Sessions, g \in Goroutines : job[g].on \in opens[s] => job[g].sess = s

\* No handle is owned twice.
OwnedOnce ==
    /\ \A o \in Opens, r, s \in Sessions : o \in opens[r] /\ o \in opens[s] => r = s
    /\ \A o \in Opens, s \in Sessions, g \in Goroutines : ~(o \in opens[s] /\ Owes(g, o))
    /\ \A o \in Opens, s \in Sessions, k \in Keys : ~(o \in opens[s] /\ Parks(k, o))
    /\ \A o \in Opens, g, h \in Goroutines : Owes(g, o) /\ Owes(h, o) => g = h
    /\ \A o \in Opens, g \in Goroutines, k \in Keys : ~(Owes(g, o) /\ Parks(k, o))

\* Published, and not yet disposed of.
Listed(o) ==
    \/ \E s \in Sessions : o \in opens[s]
    \/ \E g \in Goroutines : o \in job[g].batch \/ (job[g].on = o /\ job[g].at = "closing")

\* The durable table and the keys of the handles: an entry's handle has its key,
\* and a published handle with a key has its entry, except between the reconnect's
\* AddOpen and its Register; no handle has an entry before its grant.
KeysMatch ==
    /\ \A k \in Keys : entry[k].state # "none" => hnd[entry[k].open].key = k
    /\ \A g \in Goroutines, k \in Keys :
        job[g].at \in {"built", "published", "reclaimed", "reopened", "reregister"}
        => entry[k].open # job[g].on
    /\ \A o \in Opens :
        /\ Listed(o)
        /\ hnd[o].key # None
        /\ \A g \in Goroutines : job[g].at = "reregister" => job[g].on # o
        => entry[hnd[o].key] = [open |-> o, state |-> "attached"]
    /\ \A g \in Goroutines :
        /\ job[g].at \in {"built", "published"} => hnd[job[g].on].key = None
        /\ job[g].at \in {"reopened", "reregister"} => hnd[job[g].on].key = job[g].key

Reclaimed(o) == \E g \in Goroutines : job[g].at = "reclaimed" /\ job[g].on = o

\* What a handle holds: nothing unless it is owned, and its descriptor as long as
\* it is, but for a directory and for a handle being reclaimed.
Holdings ==
    /\ \A o \in Opens : Owned(o) => hnd[o].tree \in Trees
    /\ \A o \in Opens : hnd[o].fd = "open" \/ hnd[o].share = "held" => Owned(o)
    /\ \A o \in Dirs : hnd[o].fd = "closed" /\ hnd[o].share = "none"
    /\ \A o \in Opens \ Dirs : Owned(o) /\ ~Reclaimed(o) => hnd[o].fd = "open"

\* A handle in use is listed or waits in a batch, an attached one is owned, and
\* an unpublished one has the tree it was opened in.
InUse ==
    /\ \A g \in Goroutines : job[g].at \in {"published", "using", "reregister"} =>
        \/ \E s \in Sessions : job[g].on \in opens[s]
        \/ \E h \in Goroutines : job[g].on \in job[h].batch
    /\ \A k \in Keys :
        entry[k].state = "attached" /\ entry[k].open \notin Dirs => Owned(entry[k].open)
    /\ \A g \in Goroutines :
        /\ job[g].at = "built" => hnd[job[g].on].tree = job[g].tree
        /\ job[g].at = "reopened" => hnd[job[g].on].fileID = "known"

HandleInv == Locking /\ Apart /\ OwnedOnce /\ KeysMatch /\ Holdings /\ InUse

-----------------------------------------------------------------------------
(* What one goroutine becomes.                                             *)

JobsTyped == job \in [Goroutines -> Job] /\ unlocked \in BOOLEAN

\* The step changes the job of g alone, to these.
Goes(g, at, c, s, o, l, B) ==
    /\ job'[g].at = at /\ job'[g].conn = c /\ job'[g].sess = s /\ job'[g].on = o
    /\ job'[g].lk = l /\ job'[g].batch = B
    /\ \A h \in Goroutines : h # g => job'[h] = job[h]

\* becomes, for a well-formed job.
LEMMA Update ==
    ASSUME JobsTyped, NEW g \in Goroutines, NEW j \in Job, becomes(g, j)
    PROVE  JobsTyped' /\ job'[g] = j /\ \A h \in Goroutines : h # g => job'[h] = job[h]
<1>1. job' \in [Goroutines -> Job] /\ job'[g] = j /\ \A h \in Goroutines : h # g => job'[h] = job[h]
  BY DEF JobsTyped, becomes
<1>2. unlocked' \in BOOLEAN BY Zenon DEF becomes
<1> QED BY <1>1, <1>2 DEF JobsTyped

\* Two enumerated fields are updated one after the other.
LEMMA JobAt ==
    ASSUME NEW j \in Job, NEW at \in {"published", "reregister", "locked", "missed"}
    PROVE  [j EXCEPT !.at = at] \in Job
  BY DEF Job

\* The same with a handle.
LEMMA JobAtOn ==
    ASSUME NEW j \in Job, NEW o \in Opens
    PROVE  [j EXCEPT !.at = "lookup", !.on = o] \in Job
  BY ZenonT(40) DEF Job

\* What becomes does to the fields of the job, one lemma per form of its argument.
LEMMA GoesDoing ==
    ASSUME JobsTyped, NEW g \in Goroutines, NEW c \in Conns \cup {None},
           NEW at \in {"free", "frame", "reading", "drain", "closed"}, becomes(g, Doing(c, at))
    PROVE  JobsTyped' /\ Goes(g, at, c, None, None, "none", {})
<1> DEFINE n == Doing(c, at)
<1>1. n \in Job BY DEF Job, Doing
<1>2. /\ n.at = at /\ n.conn = c /\ n.sess = None
      /\ n.on = None /\ n.lk = "none" /\ n.batch = {}
    BY DEF Doing
<1> HIDE DEF n
<1>3. becomes(g, n) BY DEF n
<1> QED BY <1>1, <1>2, <1>3, Update DEF Goes

\* becomes, where it sets the fields of At.
LEMMA GoesAt ==
    ASSUME JobsTyped, NEW g \in Goroutines, NEW at \in {"setup", "taking", "unindex"},
           becomes(g, [job[g] EXCEPT !.at = at])
    PROVE  JobsTyped' /\ Goes(g, at, job[g].conn, job[g].sess, job[g].on, job[g].lk,
             job[g].batch)
<1>0. PICK j \in Job : j = job[g] BY DEF JobsTyped
<1> DEFINE n == [j EXCEPT !.at = at]
<1>1. n \in Job BY DEF Job
<1>2. /\ n.at = at /\ n.conn = j.conn /\ n.sess = j.sess
      /\ n.on = j.on /\ n.lk = j.lk /\ n.batch = j.batch
  BY DEF Job
<1> HIDE DEF n
<1>3. becomes(g, n) BY <1>0 DEF n
<1> QED BY <1>0, <1>1, <1>2, <1>3, Update DEF Goes

\* becomes, where it sets the fields of Sess.
LEMMA GoesSess ==
    ASSUME JobsTyped, NEW g \in Goroutines, NEW at \in {"message", "auth", "superseding"},
           NEW s \in Sessions,
           becomes(g, [job[g] EXCEPT !.at = at, !.sess = s])
    PROVE  JobsTyped' /\ Goes(g, at, job[g].conn, s, job[g].on, job[g].lk, job[g].batch)
<1>0. PICK j \in Job : j = job[g] BY DEF JobsTyped
<1> DEFINE n == [j EXCEPT !.at = at, !.sess = s]
<1>1. n \in Job BY ZenonT(40) DEF Job
<1>2. /\ n.at = at /\ n.conn = j.conn /\ n.sess = s
      /\ n.on = j.on /\ n.lk = j.lk /\ n.batch = j.batch
  BY DEF Job
<1> HIDE DEF n
<1>3. becomes(g, n) BY <1>0 DEF n
<1> QED BY <1>0, <1>1, <1>2, <1>3, Update DEF Goes

\* becomes, where it sets the fields of Take.
LEMMA GoesTake ==
    ASSUME JobsTyped, NEW g \in Goroutines,
           NEW at \in {"relConn", "relSuper", "relTree", "relLogoff"}, NEW B \in SUBSET Opens,
           becomes(g, [job[g] EXCEPT !.at = at, !.batch = B])
    PROVE  JobsTyped' /\ Goes(g, at, job[g].conn, job[g].sess, job[g].on, job[g].lk, B)
<1>0. PICK j \in Job : j = job[g] BY DEF JobsTyped
<1> DEFINE n == [j EXCEPT !.at = at, !.batch = B]
<1>1. n \in Job BY ZenonT(40) DEF Job
<1>2. /\ n.at = at /\ n.conn = j.conn /\ n.sess = j.sess
      /\ n.on = j.on /\ n.lk = j.lk /\ n.batch = B
  BY DEF Job
<1> HIDE DEF n
<1>3. becomes(g, n) BY <1>0 DEF n
<1> QED BY <1>0, <1>1, <1>2, <1>3, Update DEF Goes

\* becomes, where it sets the fields of Release.
LEMMA GoesRelease ==
    ASSUME JobsTyped, NEW g \in Goroutines,
           NEW o \in Opens, becomes(g, [job[g] EXCEPT !.batch = @ \ {o}])
    PROVE  JobsTyped' /\ Goes(g, job[g].at, job[g].conn, job[g].sess, job[g].on, job[g].lk,
             job[g].batch \ {o})
<1>0. PICK j \in Job : j = job[g] BY DEF JobsTyped
<1> DEFINE n == [j EXCEPT !.batch = @ \ {o}]
<1>1. n \in Job BY DEF Job
<1>2. /\ n.at = j.at /\ n.conn = j.conn /\ n.sess = j.sess
      /\ n.on = j.on /\ n.lk = j.lk /\ n.batch = j.batch \ {o}
  BY DEF Job
<1> HIDE DEF n
<1>3. becomes(g, n) BY <1>0 DEF n
<1> QED BY <1>0, <1>1, <1>2, <1>3, Update DEF Goes

\* becomes, where it sets the fields of Lock.
LEMMA GoesLock ==
    ASSUME JobsTyped, NEW g \in Goroutines, NEW at \in {"published", "reregister", "locked"},
           NEW l \in {"shared", "exclusive"},
           becomes(g, [job[g] EXCEPT !.at = at, !.lk = l])
    PROVE  /\ JobsTyped' /\ Goes(g, at, job[g].conn, job[g].sess, job[g].on, l, job[g].batch)
           /\ job'[g].key = job[g].key /\ job'[g].cmd = job[g].cmd
<1>0. PICK j \in Job : j = job[g] BY DEF JobsTyped
<1> DEFINE n == [j EXCEPT !.at = at, !.lk = l]
<1>a. [j EXCEPT !.lk = l] \in Job BY DEF Job
<1>b. n = [[j EXCEPT !.lk = l] EXCEPT !.at = at] BY DEF Job
<1>1. n \in Job BY <1>a, <1>b, JobAt
<1>2. /\ n.at = at /\ n.conn = j.conn /\ n.sess = j.sess
      /\ n.on = j.on /\ n.lk = l /\ n.batch = j.batch
  BY DEF Job
<1>4. n.key = j.key /\ n.cmd = j.cmd BY DEF Job
<1> HIDE DEF n
<1>3. becomes(g, n) BY <1>0 DEF n
<1> QED BY <1>0, <1>1, <1>2, <1>3, <1>4, Update DEF Goes

\* becomes, where it sets the fields of On.
LEMMA GoesOn ==
    ASSUME JobsTyped, NEW g \in Goroutines, NEW at \in {"using", "closing", "reopened"},
           NEW o \in Opens,
           becomes(g, [job[g] EXCEPT !.at = at, !.on = o])
    PROVE  /\ JobsTyped' /\ Goes(g, at, job[g].conn, job[g].sess, o, job[g].lk, job[g].batch)
           /\ job'[g].key = job[g].key /\ job'[g].tree = job[g].tree
<1>0. PICK j \in Job : j = job[g] BY DEF JobsTyped
<1> DEFINE n == [j EXCEPT !.at = at, !.on = o]
<1>1. n \in Job BY ZenonT(40) DEF Job
<1>2. /\ n.at = at /\ n.conn = j.conn /\ n.sess = j.sess
      /\ n.on = o /\ n.lk = j.lk /\ n.batch = j.batch
  BY DEF Job
<1>4. n.key = j.key /\ n.tree = j.tree BY DEF Job
<1> HIDE DEF n
<1>3. becomes(g, n) BY <1>0 DEF n
<1> QED BY <1>0, <1>1, <1>2, <1>3, <1>4, Update DEF Goes

\* becomes, where it sets the fields of Built.
LEMMA GoesBuilt ==
    ASSUME JobsTyped, NEW g \in Goroutines, NEW o \in Opens, NEW t \in Trees,
           becomes(g, [job[g] EXCEPT !.at = "built", !.on = o, !.tree = t])
    PROVE  /\ JobsTyped' /\ Goes(g, "built", job[g].conn, job[g].sess, o, job[g].lk,
                job[g].batch)
           /\ job'[g].tree = t
<1>0. PICK j \in Job : j = job[g] BY DEF JobsTyped
<1> DEFINE n == [j EXCEPT !.at = "built", !.on = o, !.tree = t]
<1>1. n \in Job BY ZenonT(40) DEF Job
<1>2. /\ n.at = "built" /\ n.conn = j.conn /\ n.sess = j.sess
      /\ n.on = o /\ n.lk = j.lk /\ n.batch = j.batch
  BY DEF Job
<1>4. n.tree = t BY DEF Job
<1> HIDE DEF n
<1>3. becomes(g, n) BY <1>0 DEF n
<1> QED BY <1>0, <1>1, <1>2, <1>3, <1>4, Update DEF Goes

\* becomes, where it sets the fields of Reclaimed.
LEMMA GoesReclaimed ==
    ASSUME JobsTyped, NEW g \in Goroutines, NEW o \in Opens, NEW k \in Keys, NEW t \in Trees,
           becomes(g, [job[g] EXCEPT !.at = "reclaimed", !.on = o, !.key = k, !.tree = t])
    PROVE  /\ JobsTyped' /\ Goes(g, "reclaimed", job[g].conn, job[g].sess, o, job[g].lk,
                job[g].batch)
           /\ job'[g].tree = t /\ job'[g].key = k
<1>0. PICK j \in Job : j = job[g] BY DEF JobsTyped
<1> DEFINE n == [j EXCEPT !.at = "reclaimed", !.on = o, !.key = k, !.tree = t]
<1>1. n \in Job BY ZenonT(40) DEF Job
<1>2. /\ n.at = "reclaimed" /\ n.conn = j.conn /\ n.sess = j.sess
      /\ n.on = o /\ n.lk = j.lk /\ n.batch = j.batch
  BY DEF Job
<1>4. n.tree = t /\ n.key = k BY DEF Job
<1> HIDE DEF n
<1>3. becomes(g, n) BY <1>0 DEF n
<1> QED BY <1>0, <1>1, <1>2, <1>3, <1>4, Update DEF Goes

\* becomes, where it sets the fields of Lookup.
LEMMA GoesLookup ==
    ASSUME JobsTyped, NEW g \in Goroutines, NEW o \in Opens,
           NEW cmd \in {"READ", "OTHER", "CLOSE"},
           becomes(g, [job[g] EXCEPT !.at = "lookup", !.on = o, !.cmd = cmd])
    PROVE  JobsTyped' /\ Goes(g, "lookup", job[g].conn, job[g].sess, o, job[g].lk, job[g].batch)
<1>0. PICK j \in Job : j = job[g] BY DEF JobsTyped
<1> DEFINE n == [j EXCEPT !.at = "lookup", !.on = o, !.cmd = cmd]
<1>a. [j EXCEPT !.cmd = cmd] \in Job BY DEF Job
<1>b. n = [[j EXCEPT !.cmd = cmd] EXCEPT !.at = "lookup", !.on = o] BY DEF Job
<1>1. n \in Job BY <1>a, <1>b, JobAtOn
<1>2. /\ n.at = "lookup" /\ n.conn = j.conn /\ n.sess = j.sess
      /\ n.on = o /\ n.lk = j.lk /\ n.batch = j.batch
  BY DEF Job
<1> HIDE DEF n
<1>3. becomes(g, n) BY <1>0 DEF n
<1> QED BY <1>0, <1>1, <1>2, <1>3, Update DEF Goes

\* becomes, where it sets the fields of Missed.
LEMMA GoesMissed ==
    ASSUME JobsTyped, NEW g \in Goroutines, NEW cmd \in {"READ", "OTHER", "CLOSE"},
           becomes(g, [job[g] EXCEPT !.at = "missed", !.cmd = cmd])
    PROVE  JobsTyped' /\ Goes(g, "missed", job[g].conn, job[g].sess, job[g].on, job[g].lk,
             job[g].batch)
<1>0. PICK j \in Job : j = job[g] BY DEF JobsTyped
<1> DEFINE n == [j EXCEPT !.at = "missed", !.cmd = cmd]
<1>a. [j EXCEPT !.cmd = cmd] \in Job BY DEF Job
<1>b. n = [[j EXCEPT !.cmd = cmd] EXCEPT !.at = "missed"] BY DEF Job
<1>1. n \in Job BY <1>a, <1>b, JobAt
<1>2. /\ n.at = "missed" /\ n.conn = j.conn /\ n.sess = j.sess
      /\ n.on = j.on /\ n.lk = j.lk /\ n.batch = j.batch
  BY DEF Job
<1> HIDE DEF n
<1>3. becomes(g, n) BY <1>0 DEF n
<1> QED BY <1>0, <1>1, <1>2, <1>3, Update DEF Goes

\* What each action does to the job of the goroutine that takes it.
LEMMA Answered ==
    ASSUME NEW w \in Workers, Shape, job[w].at # "free", answered(w)
    PROVE  JobsTyped' /\ Goes(w, "frame", job[w].conn, None, None, "none", {})
  BY GoesDoing DEF answered, Shape, TypeOK, JobsTyped, Goroutines, Rows, WorkerRow

\* Dispatch, as a step of its goroutine.
LEMMA DispatchGoes ==
    ASSUME NEW w \in Workers, NEW s \in Sessions, Shape, Dispatch(w, s)
    PROVE  /\ JobsTyped'
           /\ Goes(w, "message", job[w].conn, s, None, "none", {})
<1>1. becomes(w, [job[w] EXCEPT !.at = "message", !.sess = s]) BY DEF Dispatch
<1>2. JobsTyped' /\ Goes(w, "message", job[w].conn, s, job[w].on, job[w].lk, job[w].batch)
  BY <1>1, GoesSess DEF Shape, TypeOK, JobsTyped, Goroutines
<1> QED BY <1>2 DEF Dispatch, Shape, Rows, WorkerRow, ConnRow, OnAts, HeldAts, MessageAts

\* TakeConnOpens, as a step of its goroutine.
LEMMA TakeConnOpensGoes ==
    ASSUME NEW c \in Conns, Shape, TakeConnOpens(c)
    PROVE  /\ JobsTyped'
           /\ Goes(c, "relConn", c, job[c].sess, None, "none",
                UNION {opens[s] : s \in SessionsOf(c) \cap table})
<1>0. UNION {opens[s] : s \in SessionsOf(c) \cap table} \in SUBSET Opens
  BY DEF TakeConnOpens, Shape, Rows, ConnRow, WorkerRow, TypeOK, SetupAts, MessageAts
<1>1. becomes(c, [job[c] EXCEPT !.at = "relConn",
        !.batch = UNION {opens[s] : s \in SessionsOf(c) \cap table}]) BY DEF TakeConnOpens
<1>2. JobsTyped' /\ Goes(c, "relConn", job[c].conn, job[c].sess, job[c].on, job[c].lk,
        UNION {opens[s] : s \in SessionsOf(c) \cap table})
  BY <1>0, <1>1, GoesTake DEF Shape, TypeOK, JobsTyped, Goroutines
<1> QED BY <1>0, <1>2 DEF TakeConnOpens, Shape, Rows, WorkerRow, ConnRow, OnAts, HeldAts,
    MessageAts

\* ReleaseConnOpen, as a step of its goroutine.
LEMMA ReleaseConnOpenGoes ==
    ASSUME NEW c \in Conns, NEW o \in Opens, Shape, ReleaseConnOpen(c, o)
    PROVE  /\ JobsTyped'
           /\ Goes(c, "relConn", c, job[c].sess, None, "none", job[c].batch \ {o})
<1>1. becomes(c, [job[c] EXCEPT !.batch = @ \ {o}]) BY DEF ReleaseConnOpen
<1>2. JobsTyped' /\ Goes(c, job[c].at, job[c].conn, job[c].sess, job[c].on, job[c].lk,
        job[c].batch \ {o})
  BY <1>1, GoesRelease DEF Shape, TypeOK, JobsTyped, Goroutines
<1> QED BY <1>2 DEF ReleaseConnOpen, Shape, Rows, WorkerRow, ConnRow, OnAts, HeldAts, MessageAts

\* Authenticate, as a step of its goroutine.
LEMMA AuthenticateGoes ==
    ASSUME NEW c \in Conns, NEW s \in Sessions, Shape, Authenticate(c, s)
    PROVE  /\ JobsTyped'
           /\ Goes(c, "auth", c, s, None, "none", {})
<1>1. becomes(c, [job[c] EXCEPT !.at = "auth", !.sess = s]) BY DEF Authenticate
<1>2. JobsTyped' /\ Goes(c, "auth", job[c].conn, s, job[c].on, job[c].lk, job[c].batch)
  BY <1>1, GoesSess DEF Shape, TypeOK, JobsTyped, Goroutines
<1>3. job[c].at = "reading" BY DEF Authenticate
<1> QED BY <1>2, <1>3 DEF Shape, Rows, ConnRow

\* IndexSession, as a step of its goroutine.
LEMMA IndexSessionGoes ==
    ASSUME NEW c \in Conns, Shape, IndexSession(c)
    PROVE  /\ JobsTyped'
           /\ Goes(c, "setup", c, job[c].sess, None, "none", {})
<1>1. becomes(c, [job[c] EXCEPT !.at = "setup"]) BY DEF IndexSession
<1>2. JobsTyped' /\ Goes(c, "setup", job[c].conn, job[c].sess, job[c].on, job[c].lk,
        job[c].batch)
  BY <1>1, GoesAt DEF Shape, TypeOK, JobsTyped, Goroutines
<1> QED BY <1>2 DEF IndexSession, Shape, Rows, WorkerRow, ConnRow, OnAts, HeldAts, MessageAts

\* Supersede, as a step of its goroutine.
LEMMA SupersedeGoes ==
    ASSUME NEW c \in Conns, NEW s \in Sessions, Shape, Supersede(c, s)
    PROVE  /\ JobsTyped'
           /\ Goes(c, "superseding", c, s, None, "none", {})
<1>1. becomes(c, [job[c] EXCEPT !.at = "superseding", !.sess = s]) BY DEF Supersede
<1>2. JobsTyped' /\ Goes(c, "superseding", job[c].conn, s, job[c].on, job[c].lk, job[c].batch)
  BY <1>1, GoesSess DEF Shape, TypeOK, JobsTyped, Goroutines
<1> QED BY <1>2 DEF Supersede, Shape, Rows, WorkerRow, ConnRow, OnAts, HeldAts, MessageAts

\* RemoveSuperseded, as a step of its goroutine.
LEMMA RemoveSupersededGoes ==
    ASSUME NEW c \in Conns, Shape, RemoveSuperseded(c)
    PROVE  /\ JobsTyped'
           /\ Goes(c, "taking", c, job[c].sess, None, "none", {})
<1>1. becomes(c, [job[c] EXCEPT !.at = "taking"]) BY DEF RemoveSuperseded
<1>2. JobsTyped' /\ Goes(c, "taking", job[c].conn, job[c].sess, job[c].on, job[c].lk,
        job[c].batch)
  BY <1>1, GoesAt DEF Shape, TypeOK, JobsTyped, Goroutines
<1> QED BY <1>2 DEF RemoveSuperseded, Shape, Rows, WorkerRow, ConnRow, OnAts, HeldAts,
    MessageAts

\* TakeSuperseded, as a step of its goroutine.
LEMMA TakeSupersededGoes ==
    ASSUME NEW c \in Conns, Shape, TakeSuperseded(c)
    PROVE  /\ JobsTyped'
           /\ Goes(c, "relSuper", c, job[c].sess, None, "none", opens[job[c].sess])
<1>0. opens[job[c].sess] \in SUBSET Opens
  BY DEF TakeSuperseded, Shape, Rows, ConnRow, WorkerRow, TypeOK, SetupAts, MessageAts
<1>1. becomes(c, [job[c] EXCEPT !.at = "relSuper", !.batch = opens[job[c].sess]])
    BY DEF TakeSuperseded
<1>2. JobsTyped' /\ Goes(c, "relSuper", job[c].conn, job[c].sess, job[c].on, job[c].lk,
        opens[job[c].sess])
  BY <1>0, <1>1, GoesTake DEF Shape, TypeOK, JobsTyped, Goroutines
<1> QED BY <1>0, <1>2 DEF TakeSuperseded, Shape, Rows, WorkerRow, ConnRow, OnAts, HeldAts,
    MessageAts

\* ReleaseOpen, as a step of its goroutine.
LEMMA ReleaseOpenGoes ==
    ASSUME NEW g \in Goroutines, NEW o \in Opens, Shape, ReleaseOpen(g, o)
    PROVE  /\ JobsTyped'
           /\ Goes(g, job[g].at, job[g].conn, job[g].sess, None, "none", job[g].batch \ {o})
<1>1. becomes(g, [job[g] EXCEPT !.batch = @ \ {o}]) BY DEF ReleaseOpen
<1>2. JobsTyped' /\ Goes(g, job[g].at, job[g].conn, job[g].sess, job[g].on, job[g].lk,
        job[g].batch \ {o})
  BY <1>1, GoesRelease DEF Shape, TypeOK, JobsTyped, Goroutines
<1> QED BY <1>2 DEF ReleaseOpen, Shape, Rows, WorkerRow, ConnRow, OnAts, HeldAts, MessageAts,
    Goroutines

\* TreeDisconnect, as a step of its goroutine.
LEMMA TreeDisconnectGoes ==
    ASSUME NEW w \in Workers, NEW t \in Trees, Shape, TreeDisconnect(w, t)
    PROVE  /\ JobsTyped'
           /\ Goes(w, "relTree", job[w].conn, job[w].sess, None, "none",
                {o \in opens[job[w].sess] : hnd[o].tree = t})
<1>0. {o \in opens[job[w].sess] : hnd[o].tree = t} \in SUBSET Opens
  BY DEF TreeDisconnect, Shape, Rows, ConnRow, WorkerRow, TypeOK, SetupAts, MessageAts
<1>1. becomes(w, [job[w] EXCEPT !.at = "relTree",
        !.batch = {o \in opens[job[w].sess] : hnd[o].tree = t}]) BY DEF TreeDisconnect
<1>2. JobsTyped' /\ Goes(w, "relTree", job[w].conn, job[w].sess, job[w].on, job[w].lk,
        {o \in opens[job[w].sess] : hnd[o].tree = t})
  BY <1>0, <1>1, GoesTake DEF Shape, TypeOK, JobsTyped, Goroutines
<1> QED BY <1>0, <1>2 DEF TreeDisconnect, Shape, Rows, WorkerRow, ConnRow, OnAts, HeldAts,
    MessageAts

\* Logoff, as a step of its goroutine.
LEMMA LogoffGoes ==
    ASSUME NEW w \in Workers, Shape, Logoff(w)
    PROVE  /\ JobsTyped'
           /\ Goes(w, "relLogoff", job[w].conn, job[w].sess, None, "none", opens[job[w].sess])
<1>0. opens[job[w].sess] \in SUBSET Opens
  BY DEF Logoff, Shape, Rows, ConnRow, WorkerRow, TypeOK, SetupAts, MessageAts
<1>1. becomes(w, [job[w] EXCEPT !.at = "relLogoff", !.batch = opens[job[w].sess]]) BY DEF Logoff
<1>2. JobsTyped' /\ Goes(w, "relLogoff", job[w].conn, job[w].sess, job[w].on, job[w].lk,
        opens[job[w].sess])
  BY <1>0, <1>1, GoesTake DEF Shape, TypeOK, JobsTyped, Goroutines
<1> QED BY <1>0, <1>2 DEF Logoff, Shape, Rows, WorkerRow, ConnRow, OnAts, HeldAts, MessageAts

\* RemoveLoggedOff, as a step of its goroutine.
LEMMA RemoveLoggedOffGoes ==
    ASSUME NEW w \in Workers, Shape, RemoveLoggedOff(w)
    PROVE  /\ JobsTyped'
           /\ Goes(w, "unindex", job[w].conn, job[w].sess, None, "none", {})
<1>1. becomes(w, [job[w] EXCEPT !.at = "unindex"]) BY DEF RemoveLoggedOff
<1>2. JobsTyped' /\ Goes(w, "unindex", job[w].conn, job[w].sess, job[w].on, job[w].lk,
        job[w].batch)
  BY <1>1, GoesAt DEF Shape, TypeOK, JobsTyped, Goroutines
<1> QED BY <1>2 DEF RemoveLoggedOff, Shape, Rows, WorkerRow, ConnRow, OnAts, HeldAts, MessageAts

\* BuildOpen, as a step of its goroutine.
LEMMA BuildOpenGoes ==
    ASSUME NEW w \in Workers, NEW o \in Opens, NEW t \in Trees, Shape, BuildOpen(w, o, t)
    PROVE  /\ JobsTyped'
           /\ Goes(w, "built", job[w].conn, job[w].sess, o, "none", {}) /\ job'[w].tree = t
<1>1. becomes(w, [job[w] EXCEPT !.at = "built", !.on = o, !.tree = t]) BY DEF BuildOpen
<1>2. JobsTyped' /\ Goes(w, "built", job[w].conn, job[w].sess, o, job[w].lk,
        job[w].batch) /\ job'[w].tree = t
  BY <1>1, GoesBuilt DEF Shape, TypeOK, JobsTyped, Goroutines
<1> QED BY <1>2 DEF BuildOpen, Shape, Rows, WorkerRow, ConnRow, OnAts, HeldAts, MessageAts

\* Lookup, as a step of its goroutine.
LEMMA LookupGoes ==
    ASSUME NEW w \in Workers, NEW o \in Opens, NEW cmd \in {"READ", "OTHER", "CLOSE"}, Shape,
           Lookup(w, o, cmd)
    PROVE  /\ JobsTyped'
           /\ Goes(w, "lookup", job[w].conn, job[w].sess, o, "none", {})
<1>1. becomes(w, [job[w] EXCEPT !.at = "lookup", !.on = o, !.cmd = cmd]) BY DEF Lookup
<1>2. JobsTyped' /\ Goes(w, "lookup", job[w].conn, job[w].sess, o, job[w].lk, job[w].batch)
  BY <1>1, GoesLookup DEF Shape, TypeOK, JobsTyped, Goroutines
<1> QED BY <1>2 DEF Lookup, Shape, Rows, WorkerRow, ConnRow, OnAts, HeldAts, MessageAts

\* LookupMisses, as a step of its goroutine.
LEMMA LookupMissesGoes ==
    ASSUME NEW w \in Workers, NEW cmd \in {"READ", "OTHER", "CLOSE"}, Shape,
           LookupMisses(w, cmd)
    PROVE  /\ JobsTyped'
           /\ Goes(w, "missed", job[w].conn, job[w].sess, None, "none", {})
<1>1. becomes(w, [job[w] EXCEPT !.at = "missed", !.cmd = cmd]) BY DEF LookupMisses
<1>2. JobsTyped' /\ Goes(w, "missed", job[w].conn, job[w].sess, job[w].on, job[w].lk,
        job[w].batch)
  BY <1>1, GoesMissed DEF Shape, TypeOK, JobsTyped, Goroutines
<1> QED BY <1>2 DEF LookupMisses, Shape, Rows, WorkerRow, ConnRow, OnAts, HeldAts, MessageAts

\* Reclaim, as a step of its goroutine.
LEMMA ReclaimGoes ==
    ASSUME NEW w \in Workers, NEW k \in Keys, NEW t \in Trees, Shape, Reclaim(w, k, t)
    PROVE  /\ JobsTyped'
           /\ Goes(w, "reclaimed", job[w].conn, job[w].sess, entry[k].open, "none",
                {}) /\ job'[w].tree = t /\ job'[w].key = k /\ entry[k].open \in Opens
<1>0. entry[k].open \in Opens
  BY DEF Reclaim, Shape, TypeOK, Entry, NoEntry
<1>1. becomes(w, [job[w] EXCEPT !.at = "reclaimed", !.on = entry[k].open, !.key = k,
        !.tree = t]) BY DEF Reclaim
<1>2. JobsTyped' /\ Goes(w, "reclaimed", job[w].conn, job[w].sess, entry[k].open, job[w].lk,
        job[w].batch) /\ job'[w].tree = t /\ job'[w].key = k
  BY ZenonT(40), <1>0, <1>1, GoesReclaimed DEF Shape, TypeOK, JobsTyped, Goroutines
<1> QED BY <1>0, <1>2 DEF Reclaim, Shape, Rows, WorkerRow, ConnRow, OnAts, HeldAts, MessageAts

\* Reopen, as a step of its goroutine.
LEMMA ReopenGoes ==
    ASSUME NEW w \in Workers, NEW o \in Opens, Shape, Reopen(w, o)
    PROVE  /\ JobsTyped'
           /\ Goes(w, "reopened", job[w].conn, job[w].sess, o, "none",
                {}) /\ job'[w].tree = job[w].tree /\ job'[w].key = job[w].key
<1>1. becomes(w, [job[w] EXCEPT !.at = "reopened", !.on = o]) BY DEF Reopen
<1>2. JobsTyped' /\ Goes(w, "reopened", job[w].conn, job[w].sess, o, job[w].lk,
        job[w].batch) /\ job'[w].tree = job[w].tree /\ job'[w].key = job[w].key
  BY <1>1, GoesOn DEF Shape, TypeOK, JobsTyped, Goroutines
<1> QED BY <1>2 DEF Reopen, Shape, Rows, WorkerRow, ConnRow, OnAts, HeldAts, MessageAts

\* Accept, as a step of its goroutine.
LEMMA AcceptGoes ==
    ASSUME NEW c \in Conns, Shape, Accept(c)
    PROVE  /\ JobsTyped'
           /\ Goes(c, "reading", c, None, None, "none", {})
  BY GoesDoing DEF Accept, Shape, TypeOK, JobsTyped, Goroutines

\* Submit, as a step of its goroutine.
LEMMA SubmitGoes ==
    ASSUME NEW c \in Conns, NEW w \in Workers, Shape, Submit(c, w)
    PROVE  /\ JobsTyped'
           /\ Goes(w, "frame", c, None, None, "none", {})
  BY GoesDoing DEF Submit, Shape, TypeOK, JobsTyped, Goroutines

\* EndFrame, as a step of its goroutine.
LEMMA EndFrameGoes ==
    ASSUME NEW w \in Workers, Shape, EndFrame(w)
    PROVE  /\ JobsTyped'
           /\ Goes(w, "free", None, None, None, "none", {})
  BY GoesDoing DEF EndFrame, Shape, TypeOK, JobsTyped, Goroutines

\* Answer, as a step of its goroutine.
LEMMA AnswerGoes ==
    ASSUME NEW w \in Workers, Shape, Answer(w)
    PROVE  /\ JobsTyped'
           /\ Goes(w, "frame", job[w].conn, None, None, "none", {})
  BY Answered DEF Answer, Shape, TypeOK, JobsTyped, Goroutines

\* LoopEnds, as a step of its goroutine.
LEMMA LoopEndsGoes ==
    ASSUME NEW c \in Conns, Shape, LoopEnds(c)
    PROVE  /\ JobsTyped'
           /\ Goes(c, "drain", c, None, None, "none", {})
  BY GoesDoing DEF LoopEnds, Shape, TypeOK, JobsTyped, Goroutines

\* Closed, as a step of its goroutine.
LEMMA ClosedGoes ==
    ASSUME NEW c \in Conns, Shape, Closed(c)
    PROVE  /\ JobsTyped'
           /\ Goes(c, "closed", c, None, None, "none", {})
  BY GoesDoing DEF Closed, Shape, TypeOK, JobsTyped, Goroutines

\* NoPreviousSession, as a step of its goroutine.
LEMMA NoPreviousSessionGoes ==
    ASSUME NEW c \in Conns, Shape, NoPreviousSession(c)
    PROVE  /\ JobsTyped'
           /\ Goes(c, "reading", c, None, None, "none", {})
  BY GoesDoing DEF NoPreviousSession, Shape, TypeOK, JobsTyped, Goroutines

\* SetupAnswered, as a step of its goroutine.
LEMMA SetupAnsweredGoes ==
    ASSUME NEW c \in Conns, Shape, SetupAnswered(c)
    PROVE  /\ JobsTyped'
           /\ Goes(c, "reading", c, None, None, "none", {})
  BY GoesDoing DEF SetupAnswered, Shape, TypeOK, JobsTyped, Goroutines

\* TreeConnect, as a step of its goroutine.
LEMMA TreeConnectGoes ==
    ASSUME NEW w \in Workers, NEW t \in Trees, Shape, TreeConnect(w, t)
    PROVE  /\ JobsTyped'
           /\ Goes(w, "frame", job[w].conn, None, None, "none", {})
  BY Answered DEF TreeConnect, Shape, TypeOK, JobsTyped, Goroutines

\* TreeDisconnected, as a step of its goroutine.
LEMMA TreeDisconnectedGoes ==
    ASSUME NEW w \in Workers, Shape, TreeDisconnected(w)
    PROVE  /\ JobsTyped'
           /\ Goes(w, "frame", job[w].conn, None, None, "none", {})
  BY Answered DEF TreeDisconnected, Shape, TypeOK, JobsTyped, Goroutines

\* Unindex, as a step of its goroutine.
LEMMA UnindexGoes ==
    ASSUME NEW w \in Workers, Shape, Unindex(w)
    PROVE  /\ JobsTyped'
           /\ Goes(w, "frame", job[w].conn, None, None, "none", {})
  BY Answered DEF Unindex, Shape, TypeOK, JobsTyped, Goroutines

\* GrantDurable, as a step of its goroutine.
LEMMA GrantDurableGoes ==
    ASSUME NEW w \in Workers, NEW k \in Keys, Shape, GrantDurable(w, k)
    PROVE  /\ JobsTyped'
           /\ Goes(w, "frame", job[w].conn, None, None, "none", {})
  BY Answered DEF GrantDurable, Shape, TypeOK, JobsTyped, Goroutines

\* CreateAnswered, as a step of its goroutine.
LEMMA CreateAnsweredGoes ==
    ASSUME NEW w \in Workers, Shape, CreateAnswered(w)
    PROVE  /\ JobsTyped'
           /\ Goes(w, "frame", job[w].conn, None, None, "none", {})
  BY Answered DEF CreateAnswered, Shape, TypeOK, JobsTyped, Goroutines

\* HandlerFindsNothing, as a step of its goroutine.
LEMMA HandlerFindsNothingGoes ==
    ASSUME NEW w \in Workers, Shape, HandlerFindsNothing(w)
    PROVE  /\ JobsTyped'
           /\ Goes(w, "frame", job[w].conn, None, None, "none", {})
  BY Answered DEF HandlerFindsNothing, Shape, TypeOK, JobsTyped, Goroutines

\* DoneUsing, as a step of its goroutine.
LEMMA DoneUsingGoes ==
    ASSUME NEW w \in Workers, Shape, DoneUsing(w)
    PROVE  /\ JobsTyped'
           /\ Goes(w, "frame", job[w].conn, None, None, "none", {})
  BY Answered DEF DoneUsing, Shape, TypeOK, JobsTyped, Goroutines

\* CloseHandle, as a step of its goroutine.
LEMMA CloseHandleGoes ==
    ASSUME NEW w \in Workers, Shape, CloseHandle(w)
    PROVE  /\ JobsTyped'
           /\ Goes(w, "frame", job[w].conn, None, None, "none", {})
  BY Answered DEF CloseHandle, Shape, TypeOK, JobsTyped, Goroutines

\* ReopenFails, as a step of its goroutine.
LEMMA ReopenFailsGoes ==
    ASSUME NEW w \in Workers, Shape, ReopenFails(w)
    PROVE  /\ JobsTyped'
           /\ Goes(w, "frame", job[w].conn, None, None, "none", {})
  BY Answered DEF ReopenFails, Shape, TypeOK, JobsTyped, Goroutines

\* Reregister, as a step of its goroutine.
LEMMA ReregisterGoes ==
    ASSUME NEW w \in Workers, Shape, Reregister(w)
    PROVE  /\ JobsTyped'
           /\ Goes(w, "frame", job[w].conn, None, None, "none", {})
  BY Answered DEF Reregister, Shape, TypeOK, JobsTyped, Goroutines

\* Publish, as a step of its goroutine.
LEMMA PublishGoes ==
    ASSUME NEW w \in Workers, Shape, Publish(w)
    PROVE  /\ JobsTyped'
           /\ \/ /\ CanPublish(job[w].sess, job[w].tree)
                 /\ Goes(w, "published", job[w].conn, job[w].sess, job[w].on, "exclusive", {})
                 /\ job'[w].key = job[w].key
                 /\ opens' = [opens EXCEPT ![job[w].sess] = @ \cup {job[w].on}] /\ hnd' = hnd
              \/ /\ Goes(w, "frame", job[w].conn, None, None, "none", {})
                 /\ opens' = opens /\ releaseOpen(job[w].on)
<1>0. job[w].batch = {} /\ job[w].at = "built" BY DEF Publish, Shape, Rows, WorkerRow
<1>1. CASE CanPublish(job[w].sess, job[w].tree)
  <2>1. becomes(w, [job[w] EXCEPT !.at = "published", !.lk = "exclusive"]) BY <1>1 DEF Publish
  <2>2. /\ JobsTyped' /\ Goes(w, "published", job[w].conn, job[w].sess, job[w].on, "exclusive",
             job[w].batch)
        /\ job'[w].key = job[w].key
    BY <2>1, GoesLock DEF Shape, TypeOK, JobsTyped, Goroutines
  <2> QED BY <1>0, <1>1, <2>2 DEF Publish
<1>2. CASE ~CanPublish(job[w].sess, job[w].tree)
  <2>1. answered(w) BY <1>2 DEF Publish
  <2> QED BY <1>0, <1>2, <2>1, Answered DEF Publish
<1> QED BY <1>1, <1>2

\* PublishReclaimed, as a step of its goroutine.
LEMMA PublishReclaimedGoes ==
    ASSUME NEW w \in Workers, Shape, PublishReclaimed(w)
    PROVE  /\ JobsTyped'
           /\ \/ /\ job[w].sess \notin dead
                 /\ Goes(w, "reregister", job[w].conn, job[w].sess, job[w].on, "exclusive", {})
                 /\ job'[w].key = job[w].key
                 /\ opens' = [opens EXCEPT ![job[w].sess] = @ \cup {job[w].on}] /\ hnd' = hnd
              \/ /\ Goes(w, "frame", job[w].conn, None, None, "none", {})
                 /\ opens' = opens /\ releaseOpen(job[w].on)
<1>0. job[w].batch = {} /\ job[w].at = "reopened"
    BY DEF PublishReclaimed, Shape, Rows, WorkerRow
<1>1. CASE job[w].sess \notin dead
  <2>1. becomes(w, [job[w] EXCEPT !.at = "reregister", !.lk = "exclusive"])
      BY <1>1 DEF PublishReclaimed
  <2>2. /\ JobsTyped' /\ Goes(w, "reregister", job[w].conn, job[w].sess, job[w].on,
             "exclusive", job[w].batch)
        /\ job'[w].key = job[w].key
    BY <2>1, GoesLock DEF Shape, TypeOK, JobsTyped, Goroutines
  <2> QED BY <1>0, <1>1, <2>2 DEF PublishReclaimed
<1>2. CASE job[w].sess \in dead
  <2>1. answered(w) BY <1>2 DEF PublishReclaimed
  <2> QED BY <1>0, <1>2, <2>1, Answered DEF PublishReclaimed
<1> QED BY <1>1, <1>2

\* LockOpen, as a step of its goroutine.
LEMMA LockOpenGoes ==
    ASSUME NEW w \in Workers, Shape, LockOpen(w)
    PROVE  \E l \in {"shared", "exclusive"} :
           /\ JobsTyped'
           /\ Goes(w, "locked", job[w].conn, job[w].sess, job[w].on, l, {})
           /\ job'[w].cmd = job[w].cmd
           /\ \/ l = "shared" /\ job[w].cmd = "READ" /\ NotExclusive(job[w].on)
              \/ l = "exclusive" /\ Unheld(job[w].on)
<1>0. job[w].batch = {} BY DEF LockOpen, Shape, Rows, WorkerRow
<1>1. PICK l \in {"shared", "exclusive"} :
           /\ becomes(w, [job[w] EXCEPT !.at = "locked", !.lk = l])
           /\ \/ l = "shared" /\ job[w].cmd = "READ" /\ NotExclusive(job[w].on)
              \/ l = "exclusive" /\ Unheld(job[w].on)
  BY DEF LockOpen
<1>2. /\ JobsTyped' /\ Goes(w, "locked", job[w].conn, job[w].sess, job[w].on, l, job[w].batch)
      /\ job'[w].cmd = job[w].cmd
  BY <1>1, GoesLock DEF Shape, TypeOK, JobsTyped, Goroutines
<1> QED BY <1>0, <1>1, <1>2

\* Found, as a step of its goroutine.
LEMMA FoundGoes ==
    ASSUME NEW w \in Workers, NEW o \in Opens, Shape, job[w].at \in {"locked", "missed"},
           Found(w, o)
    PROVE  /\ JobsTyped'
           /\ o \in opens[job[w].sess]
           /\ \/ /\ Goes(w, "using", job[w].conn, job[w].sess, o, job[w].lk,
                      {}) /\ opens' = opens
              \/ /\ job[w].cmd = "CLOSE"
                 /\ Goes(w, "closing", job[w].conn, job[w].sess, o, job[w].lk, {})
                 /\ opens' = [opens EXCEPT ![job[w].sess] = @ \ {o}]
<1>0. job[w].batch = {} BY DEF Shape, Rows, WorkerRow
<1>1. CASE job[w].cmd # "CLOSE"
  <2>1. becomes(w, [job[w] EXCEPT !.at = "using", !.on = o]) BY <1>1 DEF Found
  <2>2. JobsTyped' /\ Goes(w, "using", job[w].conn, job[w].sess, o, job[w].lk, job[w].batch)
    BY <2>1, GoesOn DEF Shape, TypeOK, JobsTyped, Goroutines
  <2> QED BY <1>0, <1>1, <2>2 DEF Found
<1>2. CASE job[w].cmd = "CLOSE"
  <2>1. becomes(w, [job[w] EXCEPT !.at = "closing", !.on = o]) BY <1>2 DEF Found
  <2>2. JobsTyped' /\ Goes(w, "closing", job[w].conn, job[w].sess, o, job[w].lk, job[w].batch)
    BY <2>1, GoesOn DEF Shape, TypeOK, JobsTyped, Goroutines
  <2> QED BY <1>0, <1>2, <2>2 DEF Found
<1> QED BY <1>1, <1>2
-----------------------------------------------------------------------------
(* The kinds of step a handle can see.  Each action is one of them, or one   *)
(* in each of its branches, and the invariant is shown kind by kind.        *)

SameHandle(o) ==
    /\ hnd'[o].fd = hnd[o].fd /\ hnd'[o].share = hnd[o].share
    /\ hnd'[o].tree = hnd[o].tree /\ hnd'[o].fileID = hnd[o].fileID
OthersKept(o) == \A p \in Opens : p # o => hnd'[p] = hnd[p]
OtherKeysKept(k) == \A l \in Keys : l # k => entry'[l] = entry[l]
HandlesKept == hnd' = hnd /\ entry' = entry

\* A goroutine without a duty goes on, with empty hands.
LetsGo(g, at, c, s) ==
    /\ Goes(g, at, c, s, None, "none", {})
    /\ job[g].batch = {}
    /\ job[g].at \notin DutyAts \cup {"reregister"}
    /\ opens' = opens /\ HandlesKept

\* It takes the handles B out of the sessions, to release them.
Takes(g, at, c, s, B) ==
    /\ Goes(g, at, c, s, None, "none", B)
    /\ job[g].on = None /\ job[g].batch = {}
    /\ B \subseteq Opens /\ \A o \in B : \E r \in Sessions : o \in opens[r]
    /\ \A r \in Sessions : opens'[r] = opens[r] \ B
    /\ at = "relConn" => \A h \in Goroutines : job[h].on \notin B
    /\ HandlesKept

\* It releases o, which it owes, and the durable entry of o with it.
Releases(g, at, c, s, o) ==
    /\ Owes(g, o)
    /\ at = job[g].at \/ job[g].batch = {}
    /\ Goes(g, at, c, s, None, "none", job[g].batch \ {o})
    /\ \A h \in Goroutines : h # g /\ job[h].on = o => job[h].lk = "none"
    /\ hnd'[o] = NoHandle /\ OthersKept(o)
    /\ \A k \in Keys : entry'[k] = IF entry[k].open = o THEN NoEntry ELSE entry[k]
    /\ opens' = opens

\* The sweeper releases the handle of an expired entry.
Expires(k, o) ==
    /\ entry[k].open = o /\ entry[k].state = "expired"
    /\ entry'[k] = NoEntry /\ OtherKeysKept(k)
    /\ hnd'[o] = NoHandle /\ OthersKept(o)
    /\ job' = job /\ opens' = opens

\* The teardown passes over a durable directory.
Abandons(g, s, o) ==
    /\ o \in Dirs
    /\ job[g].at = "relConn" /\ o \in job[g].batch
    /\ Goes(g, "relConn", g, s, None, "none", job[g].batch \ {o})
    /\ opens' = opens /\ HandlesKept

\* The teardown detaches a durable file.
Detaches(g, s, o, k) ==
    /\ job[g].at = "relConn" /\ o \in job[g].batch
    /\ Goes(g, "relConn", g, s, None, "none", job[g].batch \ {o})
    /\ hnd[o].key = k /\ entry[k] = [open |-> o, state |-> "attached"]
    /\ entry'[k].open = o /\ entry'[k].state = "detached" /\ OtherKeysKept(k)
    /\ opens' = opens /\ hnd' = hnd

\* A CREATE opens o.
Builds(w, o, t) ==
    /\ job[w].at = "message" /\ Fresh(o)
    /\ Goes(w, "built", job[w].conn, job[w].sess, o, "none", {})
    /\ job'[w].tree = t
    /\ hnd'[o].tree = t /\ hnd'[o].key = None
    /\ hnd'[o].fd = IF o \in Dirs THEN "closed" ELSE "open"
    /\ hnd'[o].share = IF o \in Dirs THEN "none" ELSE "held"
    /\ OthersKept(o) /\ entry' = entry /\ opens' = opens

\* A reconnect takes o out of the durable table.
Reclaims(w, o, k, t) ==
    /\ job[w].at = "message"
    /\ Goes(w, "reclaimed", job[w].conn, job[w].sess, o, "none", {})
    /\ job'[w].key = k /\ job'[w].tree = t
    /\ entry[k].open = o /\ entry[k].state = "detached"
    /\ entry'[k] = NoEntry /\ OtherKeysKept(k)
    /\ hnd'[o].fd = "closed" /\ hnd'[o].share = hnd[o].share /\ hnd'[o].tree = hnd[o].tree
    /\ hnd'[o].key = hnd[o].key /\ hnd'[o].fileID = hnd[o].fileID
    /\ OthersKept(o) /\ opens' = opens

\* And replaces it by n.
Reopens(w, o, n) ==
    /\ job[w].at = "reclaimed" /\ job[w].on = o /\ job[w].tree \in Trees
    /\ Fresh(n) /\ (n \in Dirs <=> o \in Dirs)
    /\ Goes(w, "reopened", job[w].conn, job[w].sess, n, "none", {})
    /\ job'[w].tree = job[w].tree /\ job'[w].key = job[w].key
    /\ hnd'[o] = NoHandle
    /\ hnd'[n].fd = IF n \in Dirs THEN "closed" ELSE "open"
    /\ hnd'[n].share = hnd[o].share /\ hnd'[n].tree = job[w].tree
    /\ hnd'[n].key = job[w].key /\ hnd'[n].fileID = "known"
    /\ \A p \in Opens : p # o /\ p # n => hnd'[p] = hnd[p]
    /\ entry' = entry /\ opens' = opens

\* The handle is put into the session's map, under its lock.
Publishes(w, at, s, o) ==
    /\ \/ job[w].at = "built" /\ at = "published"
       \/ job[w].at = "reopened" /\ at = "reregister"
    /\ job[w].sess = s /\ job[w].on = o
    /\ Goes(w, at, job[w].conn, s, o, "exclusive", {})
    /\ job'[w].key = job[w].key
    /\ opens'[s] = opens[s] \cup {o}
    /\ \A r \in Sessions : r # s => opens'[r] = opens[r]
    /\ HandlesKept

\* Register, where the key is taken.
StaysPlain(w, o) ==
    /\ job[w].at \in {"published", "reregister"} /\ job[w].on = o
    /\ Goes(w, "frame", job[w].conn, None, None, "none", {})
    /\ hnd'[o].key = None /\ SameHandle(o) /\ OthersKept(o)
    /\ entry' = entry /\ opens' = opens

\* Register, where it is free or its handle is parked.
Registers(w, o, k) ==
    /\ job[w].at \in {"published", "reregister"} /\ job[w].on = o
    /\ Goes(w, "frame", job[w].conn, None, None, "none", {})
    /\ entry[k].state # "attached"
    /\ hnd'[o].key = k /\ SameHandle(o)
    /\ \A p \in Opens : p # o => hnd'[p] = IF p = entry[k].open THEN NoHandle ELSE hnd[p]
    /\ entry'[k] = [open |-> o, state |-> "attached"] /\ OtherKeysKept(k)
    /\ opens' = opens

\* lockOpenForMessage, the handler's lookup, and the lookup of a CLOSE.
LooksUp(w, o) ==
    /\ job[w].at = "message" /\ job[w].sess \in Sessions /\ o \in opens[job[w].sess]
    /\ Goes(w, "lookup", job[w].conn, job[w].sess, o, "none", {})
    /\ opens' = opens /\ HandlesKept

Locks(w, o, l) ==
    /\ job[w].at = "lookup" /\ job[w].on = o
    /\ Goes(w, "locked", job[w].conn, job[w].sess, o, l, {})
    /\ job'[w].cmd = job[w].cmd
    /\ \/ l = "shared" /\ job[w].cmd = "READ" /\ NotExclusive(o)
       \/ l = "exclusive" /\ Unheld(o)
    /\ opens' = opens /\ HandlesKept

Uses(w, o) ==
    /\ job[w].at = "locked" /\ job[w].on = o
    /\ job[w].sess \in Sessions /\ o \in opens[job[w].sess]
    /\ Goes(w, "using", job[w].conn, job[w].sess, o, job[w].lk, {})
    /\ opens' = opens /\ HandlesKept

Closes(w, o, s) ==
    /\ job[w].at = "locked" /\ job[w].on = o /\ job[w].cmd = "CLOSE"
    /\ job[w].sess = s /\ o \in opens[s]
    /\ Goes(w, "closing", job[w].conn, s, o, job[w].lk, {})
    /\ opens'[s] = opens[s] \ {o}
    /\ \A r \in Sessions : r # s => opens'[r] = opens[r]
    /\ HandlesKept

\* The deadline of a detached entry passes.
Lapses(k) ==
    /\ entry[k].state = "detached"
    /\ entry'[k].open = entry[k].open /\ entry'[k].state = "expired" /\ OtherKeysKept(k)
    /\ job' = job /\ opens' = opens /\ hnd' = hnd

\* The types that the lemmas about these steps need.
Fields ==
    /\ \A g \in Goroutines :
        /\ job[g].on \in Opens \cup {None} /\ job[g].batch \subseteq Opens
        /\ job[g].at \in OnAts <=> job[g].on # None
        /\ job[g].at \in RelAts \/ job[g].batch = {}
        /\ job[g].at \in HeldAts \/ job[g].lk = "none"
    /\ \A s \in Sessions : opens[s] \subseteq Opens
    /\ \A o \in Opens : hnd[o].key \in Keys \cup {None} /\ hnd[o].tree \in Trees \cup {None}
    /\ \A k \in Keys :
        \/ entry[k].open \in Opens /\ entry[k].state \in {"attached", "detached", "expired"}
        \/ entry[k].open = None /\ entry[k].state = "none"

NoneApart == None \notin Opens \cup Keys \cup Trees /\ Dirs \subseteq Opens

\* What stays listed keeps its tree.
ListedKept ==
    \A s \in Sessions : \A o \in opens'[s] :
        /\ o \in opens[s]
        /\ hnd'[o].tree = hnd[o].tree /\ hnd'[o].fileID = hnd[o].fileID

\* Each kind of step preserves the invariant, and all but a publication leave in the
\* maps only what was there, on its tree.
LEMMA LetsGoSafe ==
    ASSUME NoneApart, Fields, Fields', HandleInv, NEW g \in Goroutines, NEW at, NEW c, NEW s,
           LetsGo(g, at, c, s)
    PROVE  HandleInv' /\ ListedKept
<1> USE DEF NoneApart, Fields, Owes, Parks, Owned, Goes, NoHandle, NoEntry, OnAts, HeldAts,
    DutyAts, RelAts, LetsGo, HandlesKept
<1>1. Locking' BY DEF HandleInv, Locking
<1>2. Apart' BY DEF HandleInv, Apart
<1>3. OwnedOnce' BY DEF HandleInv, OwnedOnce
<1>4. KeysMatch' BY DEF HandleInv, KeysMatch, Listed
<1>5. Holdings' BY DEF HandleInv, Holdings, Reclaimed
<1>6. InUse' BY DEF HandleInv, InUse
<1>7. ListedKept BY DEF ListedKept
<1> QED BY <1>1, <1>2, <1>3, <1>4, <1>5, <1>6, <1>7 DEF HandleInv

\* Takes preserves the invariant.
LEMMA TakesSafe ==
    ASSUME NoneApart, Fields, Fields', HandleInv, NEW g \in Goroutines, NEW at, NEW c, NEW s,
           NEW B, Takes(g, at, c, s, B)
    PROVE  HandleInv' /\ ListedKept
<1> USE DEF NoneApart, Fields, Owes, Parks, Owned, Goes, NoHandle, NoEntry, OnAts, HeldAts,
    DutyAts, RelAts, Takes, HandlesKept
<1>1. Locking' BY DEF HandleInv, Locking
<1>2. Apart' BY DEF HandleInv, Apart
<1>3. OwnedOnce' BY DEF HandleInv, OwnedOnce
<1>4. KeysMatch' BY DEF HandleInv, KeysMatch, Listed
<1>5. Holdings' BY DEF HandleInv, Holdings, Reclaimed
<1>6. InUse' BY DEF HandleInv, InUse
<1>7. ListedKept BY DEF ListedKept
<1> QED BY <1>1, <1>2, <1>3, <1>4, <1>5, <1>6, <1>7 DEF HandleInv

\* Releases preserves the invariant.
LEMMA ReleasesSafe ==
    ASSUME NoneApart, Fields, Fields', HandleInv, NEW g \in Goroutines, NEW at, NEW c, NEW s,
           NEW o \in Opens, Releases(g, at, c, s, o)
    PROVE  HandleInv' /\ ListedKept
<1> USE DEF NoneApart, Fields, Owes, Parks, Owned, Goes, NoHandle, NoEntry, OnAts, HeldAts,
    DutyAts, RelAts, Releases, OthersKept
<1>1. Locking' BY DEF HandleInv, Locking
<1>2. Apart' BY DEF HandleInv, Apart
<1>3. OwnedOnce' BY DEF HandleInv, OwnedOnce
<1>4. KeysMatch' BY DEF HandleInv, KeysMatch, Locking, OwnedOnce, Listed
<1>5. Holdings' BY DEF HandleInv, Holdings, OwnedOnce, Reclaimed
<1>6. InUse' BY DEF HandleInv, InUse, Locking, OwnedOnce
<1>7. ListedKept BY DEF HandleInv, OwnedOnce, ListedKept
<1> QED BY <1>1, <1>2, <1>3, <1>4, <1>5, <1>6, <1>7 DEF HandleInv

\* Expires preserves the invariant.
LEMMA ExpiresSafe ==
    ASSUME NoneApart, Fields, Fields', HandleInv, NEW k \in Keys, NEW o \in Opens, Expires(k, o)
    PROVE  HandleInv' /\ ListedKept
<1> USE DEF NoneApart, Fields, Owes, Parks, Owned, Goes, NoHandle, NoEntry, OnAts, HeldAts,
    DutyAts, RelAts, Expires, OthersKept, OtherKeysKept
<1>1. Locking' BY DEF HandleInv, Locking
<1>2. Apart' BY DEF HandleInv, Apart
<1>3. OwnedOnce' BY DEF HandleInv, OwnedOnce
<1>4. KeysMatch' BY DEF HandleInv, KeysMatch, Apart, Listed
<1>5. Holdings' BY DEF HandleInv, Holdings, OwnedOnce, KeysMatch, Reclaimed
<1>6. InUse' BY DEF HandleInv, InUse, KeysMatch, Apart
<1>7. ListedKept BY DEF HandleInv, OwnedOnce, ListedKept
<1> QED BY <1>1, <1>2, <1>3, <1>4, <1>5, <1>6, <1>7 DEF HandleInv

\* Abandons preserves the invariant.
LEMMA AbandonsSafe ==
    ASSUME NoneApart, Fields, Fields', HandleInv, NEW g \in Goroutines, NEW s, NEW o \in Opens,
           Abandons(g, s, o)
    PROVE  HandleInv' /\ ListedKept
<1> USE DEF NoneApart, Fields, Owes, Parks, Owned, Goes, NoHandle, NoEntry, OnAts, HeldAts,
    DutyAts, RelAts, Abandons, HandlesKept
<1>1. Locking' BY DEF HandleInv, Locking
<1>2. Apart' BY DEF HandleInv, Apart
<1>3. OwnedOnce' BY DEF HandleInv, OwnedOnce
<1>4. KeysMatch' BY DEF HandleInv, KeysMatch, Listed
<1>5. Holdings' BY DEF HandleInv, Holdings, Reclaimed
<1>6. InUse' BY DEF HandleInv, InUse, Apart
<1>7. ListedKept BY DEF ListedKept
<1> QED BY <1>1, <1>2, <1>3, <1>4, <1>5, <1>6, <1>7 DEF HandleInv

\* Detaches preserves the invariant.
LEMMA DetachesSafe ==
    ASSUME NoneApart, Fields, Fields', HandleInv, NEW g \in Goroutines, NEW s, NEW o \in Opens,
           NEW k \in Keys, Detaches(g, s, o, k)
    PROVE  HandleInv' /\ ListedKept
<1> USE DEF NoneApart, Fields, Owes, Parks, Owned, Goes, NoHandle, NoEntry, OnAts, HeldAts,
    DutyAts, RelAts, Detaches, OtherKeysKept
<1>1. Locking' BY DEF HandleInv, Locking
<1>2. Apart' BY DEF HandleInv, Apart
<1>3. OwnedOnce' BY DEF HandleInv, OwnedOnce
<1>4. KeysMatch' BY DEF HandleInv, KeysMatch, OwnedOnce, Listed
<1>5. Holdings' BY DEF HandleInv, Holdings, Reclaimed
<1>6. InUse' BY DEF HandleInv, InUse, Apart
<1>7. ListedKept BY DEF ListedKept
<1> QED BY <1>1, <1>2, <1>3, <1>4, <1>5, <1>6, <1>7 DEF HandleInv

\* Builds preserves the invariant.
LEMMA BuildsSafe ==
    ASSUME NoneApart, Fields, Fields', HandleInv, NEW w \in Goroutines, NEW o \in Opens,
           NEW t \in Trees, Builds(w, o, t)
    PROVE  HandleInv' /\ ListedKept
<1> USE DEF NoneApart, Fields, Owes, Parks, Owned, Goes, NoHandle, NoEntry, OnAts, HeldAts,
    DutyAts, RelAts, Builds, OthersKept, Fresh
<1>1. Locking' BY DEF HandleInv, Locking
<1>2. Apart' BY DEF HandleInv, Apart, Holdings
<1>3. OwnedOnce' BY DEF HandleInv, OwnedOnce, Holdings
<1>4. KeysMatch' BY DEF HandleInv, KeysMatch, Listed
<1>5. Holdings' BY DEF HandleInv, Holdings, Reclaimed
<1>6. InUse' BY DEF HandleInv, InUse
<1>7. ListedKept BY DEF HandleInv, Holdings, ListedKept
<1> QED BY <1>1, <1>2, <1>3, <1>4, <1>5, <1>6, <1>7 DEF HandleInv

\* Reclaims preserves the invariant.
LEMMA ReclaimsSafe ==
    ASSUME NoneApart, Fields, Fields', HandleInv, NEW w \in Goroutines, NEW o \in Opens,
           NEW k \in Keys, NEW t \in Trees, Reclaims(w, o, k, t)
    PROVE  HandleInv' /\ ListedKept
<1> USE DEF NoneApart, Fields, Owes, Parks, Owned, Goes, NoHandle, NoEntry, OnAts, HeldAts,
    DutyAts, RelAts, Reclaims, OthersKept, OtherKeysKept
<1>1. Locking' BY DEF HandleInv, Locking
<1>2. Apart' BY DEF HandleInv, Apart, OwnedOnce, KeysMatch
<1>3. OwnedOnce' BY SMTT(30) DEF HandleInv, OwnedOnce, KeysMatch
<1>4. KeysMatch' BY SMTT(30) DEF HandleInv, KeysMatch, Listed
<1>5. Holdings' BY DEF HandleInv, Holdings, Reclaimed
<1>6. InUse' BY DEF HandleInv, InUse
<1>7. ListedKept BY DEF ListedKept
<1> QED BY <1>1, <1>2, <1>3, <1>4, <1>5, <1>6, <1>7 DEF HandleInv

\* Reopens preserves the invariant.
LEMMA ReopensSafe ==
    ASSUME NoneApart, Fields, Fields', HandleInv, NEW w \in Goroutines, NEW o \in Opens,
           NEW n \in Opens, Reopens(w, o, n)
    PROVE  HandleInv' /\ ListedKept
<1> USE DEF NoneApart, Fields, Owes, Parks, Owned, Goes, NoHandle, NoEntry, OnAts, HeldAts,
    DutyAts, RelAts, Reopens, Fresh
<1>1. Locking' BY DEF HandleInv, Locking
<1>2. Apart' BY DEF HandleInv, Apart, Holdings
<1>3. OwnedOnce' BY DEF HandleInv, OwnedOnce, Holdings
<1>4. KeysMatch' BY DEF HandleInv, KeysMatch, Holdings, Apart, Listed
<1>5. Holdings' BY DEF HandleInv, Holdings, OwnedOnce, Reclaimed
<1>6. InUse' BY DEF HandleInv, InUse, KeysMatch, Apart
<1>7. ListedKept BY DEF HandleInv, OwnedOnce, Holdings, ListedKept
<1> QED BY <1>1, <1>2, <1>3, <1>4, <1>5, <1>6, <1>7 DEF HandleInv

\* Publishes preserves the invariant.
LEMMA PublishesSafe ==
    ASSUME NoneApart, Fields, Fields', HandleInv, NEW w \in Goroutines, NEW at,
           NEW s \in Sessions, NEW o \in Opens, Publishes(w, at, s, o)
    PROVE  HandleInv'
<1> USE DEF NoneApart, Fields, Owes, Parks, Owned, Goes, NoHandle, NoEntry, OnAts, HeldAts,
    DutyAts, RelAts, Publishes, HandlesKept
<1>1. Locking' BY DEF HandleInv, Locking, Apart
<1>2. Apart' BY DEF HandleInv, Apart, OwnedOnce
<1>3. OwnedOnce' BY DEF HandleInv, OwnedOnce
<1>4. KeysMatch' BY DEF HandleInv, KeysMatch, Listed
<1>5. Holdings' BY DEF HandleInv, Holdings, Reclaimed
<1>6. InUse' BY DEF HandleInv, InUse
<1> QED BY <1>1, <1>2, <1>3, <1>4, <1>5, <1>6 DEF HandleInv

\* StaysPlain preserves the invariant.
LEMMA StaysPlainSafe ==
    ASSUME NoneApart, Fields, Fields', HandleInv, NEW w \in Goroutines, NEW o \in Opens,
           StaysPlain(w, o)
    PROVE  HandleInv' /\ ListedKept
<1> USE DEF NoneApart, Fields, Owes, Parks, Owned, Goes, NoHandle, NoEntry, OnAts, HeldAts,
    DutyAts, RelAts, StaysPlain, OthersKept, SameHandle
<1>1. Locking' BY DEF HandleInv, Locking
<1>2. Apart' BY DEF HandleInv, Apart
<1>3. OwnedOnce' BY DEF HandleInv, OwnedOnce
<1>4. KeysMatch' BY DEF HandleInv, KeysMatch, Apart, Locking, Listed
<1>5. Holdings' BY DEF HandleInv, Holdings, Reclaimed
<1>6. InUse' BY DEF HandleInv, InUse
<1>7. ListedKept BY DEF ListedKept
<1> QED BY <1>1, <1>2, <1>3, <1>4, <1>5, <1>6, <1>7 DEF HandleInv

\* Registers preserves the invariant.
LEMMA RegistersSafe ==
    ASSUME NoneApart, Fields, Fields', HandleInv, NEW w \in Goroutines, NEW o \in Opens,
           NEW k \in Keys, Registers(w, o, k)
    PROVE  HandleInv' /\ ListedKept
<1> USE DEF NoneApart, Fields, Owes, Parks, Owned, Goes, NoHandle, NoEntry, OnAts, HeldAts,
    DutyAts, RelAts, Registers, OtherKeysKept, SameHandle
<1>1. Locking' BY DEF HandleInv, Locking
<1>2. Apart' BY DEF HandleInv, Apart
<1>3. OwnedOnce' BY DEF HandleInv, OwnedOnce
<1>4. KeysMatch' BY SMTT(30) DEF HandleInv, KeysMatch, Apart, Locking, OwnedOnce, Listed
<1>5. Holdings' BY SMTT(30) DEF HandleInv, Holdings, OwnedOnce, KeysMatch, Reclaimed
<1>6. InUse' BY SMTT(30) DEF HandleInv, InUse, KeysMatch, Apart
<1>7. ListedKept BY DEF HandleInv, OwnedOnce, ListedKept
<1> QED BY <1>1, <1>2, <1>3, <1>4, <1>5, <1>6, <1>7 DEF HandleInv

\* LooksUp preserves the invariant.
LEMMA LooksUpSafe ==
    ASSUME NoneApart, Fields, Fields', HandleInv, NEW w \in Goroutines, NEW o \in Opens,
           LooksUp(w, o)
    PROVE  HandleInv' /\ ListedKept
<1> USE DEF NoneApart, Fields, Owes, Parks, Owned, Goes, NoHandle, NoEntry, OnAts, HeldAts,
    DutyAts, RelAts, LooksUp, HandlesKept
<1>1. Locking' BY DEF HandleInv, Locking
<1>2. Apart' BY DEF HandleInv, Apart, OwnedOnce
<1>3. OwnedOnce' BY DEF HandleInv, OwnedOnce
<1>4. KeysMatch' BY DEF HandleInv, KeysMatch, Listed
<1>5. Holdings' BY DEF HandleInv, Holdings, Reclaimed
<1>6. InUse' BY DEF HandleInv, InUse
<1>7. ListedKept BY DEF ListedKept
<1> QED BY <1>1, <1>2, <1>3, <1>4, <1>5, <1>6, <1>7 DEF HandleInv

\* Locks preserves the invariant.
LEMMA LocksSafe ==
    ASSUME NoneApart, Fields, Fields', HandleInv, NEW w \in Goroutines, NEW o \in Opens, NEW l,
           Locks(w, o, l)
    PROVE  HandleInv' /\ ListedKept
<1> USE DEF NoneApart, Fields, Owes, Parks, Owned, Goes, NoHandle, NoEntry, OnAts, HeldAts,
    DutyAts, RelAts, Locks, HandlesKept, Unheld, NotExclusive
<1>1. Locking' BY DEF HandleInv, Locking
<1>2. Apart' BY DEF HandleInv, Apart
<1>3. OwnedOnce' BY DEF HandleInv, OwnedOnce
<1>4. KeysMatch' BY DEF HandleInv, KeysMatch, Listed
<1>5. Holdings' BY DEF HandleInv, Holdings, Reclaimed
<1>6. InUse' BY DEF HandleInv, InUse
<1>7. ListedKept BY DEF ListedKept
<1> QED BY <1>1, <1>2, <1>3, <1>4, <1>5, <1>6, <1>7 DEF HandleInv

\* Uses preserves the invariant.
LEMMA UsesSafe ==
    ASSUME NoneApart, Fields, Fields', HandleInv, NEW w \in Goroutines, NEW o \in Opens,
           Uses(w, o)
    PROVE  HandleInv' /\ ListedKept
<1> USE DEF NoneApart, Fields, Owes, Parks, Owned, Goes, NoHandle, NoEntry, OnAts, HeldAts,
    DutyAts, RelAts, Uses, HandlesKept
<1>1. Locking' BY DEF HandleInv, Locking
<1>2. Apart' BY DEF HandleInv, Apart
<1>3. OwnedOnce' BY DEF HandleInv, OwnedOnce
<1>4. KeysMatch' BY DEF HandleInv, KeysMatch, Listed
<1>5. Holdings' BY DEF HandleInv, Holdings, Reclaimed
<1>6. InUse' BY DEF HandleInv, InUse
<1>7. ListedKept BY DEF ListedKept
<1> QED BY <1>1, <1>2, <1>3, <1>4, <1>5, <1>6, <1>7 DEF HandleInv

\* Closes preserves the invariant.
LEMMA ClosesSafe ==
    ASSUME NoneApart, Fields, Fields', HandleInv, NEW w \in Goroutines, NEW o \in Opens,
           NEW s \in Sessions, Closes(w, o, s)
    PROVE  HandleInv' /\ ListedKept
<1> USE DEF NoneApart, Fields, Owes, Parks, Owned, Goes, NoHandle, NoEntry, OnAts, HeldAts,
    DutyAts, RelAts, Closes, HandlesKept
<1>1. Locking' BY DEF HandleInv, Locking
<1>2. Apart' BY DEF HandleInv, Apart
<1>3. OwnedOnce' BY DEF HandleInv, OwnedOnce
<1>4. KeysMatch' BY DEF HandleInv, KeysMatch, Listed
<1>5. Holdings' BY DEF HandleInv, Holdings, Reclaimed
<1>6. InUse' BY DEF HandleInv, InUse, Locking
<1>7. ListedKept BY DEF ListedKept
<1> QED BY <1>1, <1>2, <1>3, <1>4, <1>5, <1>6, <1>7 DEF HandleInv

\* Lapses preserves the invariant.
LEMMA LapsesSafe ==
    ASSUME NoneApart, Fields, Fields', HandleInv, NEW k \in Keys, Lapses(k)
    PROVE  HandleInv' /\ ListedKept
<1> USE DEF NoneApart, Fields, Owes, Parks, Owned, Goes, NoHandle, NoEntry, OnAts, HeldAts,
    DutyAts, RelAts, Lapses, OtherKeysKept
<1>1. Locking' BY DEF HandleInv, Locking
<1>2. Apart' BY DEF HandleInv, Apart
<1>3. OwnedOnce' BY DEF HandleInv, OwnedOnce
<1>4. KeysMatch' BY DEF HandleInv, KeysMatch, Listed
<1>5. Holdings' BY DEF HandleInv, Holdings, Reclaimed
<1>6. InUse' BY DEF HandleInv, InUse
<1>7. ListedKept BY DEF ListedKept
<1> QED BY <1>1, <1>2, <1>3, <1>4, <1>5, <1>6, <1>7 DEF HandleInv

-----------------------------------------------------------------------------
(* Types and rows.                                                         *)

VarsTyped ==
    /\ table \subseteq Sessions /\ idx \subseteq Sessions /\ dead \subseteq Sessions
    /\ trees \in [Sessions -> SUBSET Trees]
    /\ opens \in [Sessions -> SUBSET Opens]
    /\ hnd \in [Opens -> Handle]
    /\ entry \in [Keys -> Entry]

\* One goroutine moves: the rows of the others stay.
LEMMA WorkerMoves ==
    ASSUME Shape, NEW w \in Workers, WorkerRow(job'[w]),
           \A h \in Goroutines : h # w => job'[h] = job[h]
    PROVE  Rows'
  BY ConstantsOK DEF Shape, Rows, Goroutines

\* The same for a read goroutine.
LEMMA ConnMoves ==
    ASSUME Shape, NEW c \in Conns, ConnRow(c, job'[c]),
           \A h \in Goroutines : h # c => job'[h] = job[h]
    PROVE  Rows'
  BY ConstantsOK DEF Shape, Rows, Goroutines

\* A phase with a handle in hand has one.
LEMMA OnTyped ==
    ASSUME Shape, NEW w \in Workers, job[w].at \in OnAts
    PROVE  job[w].on \in Opens
  BY DEF Shape, TypeOK, Job, Goroutines, Rows, WorkerRow

\* Every action leaves a goroutine in a phase of its kind with the fields of that phase.
LEMMA RowsStep ==
    ASSUME Shape, Next
    PROVE  Rows' /\ JobsTyped'
<1>1. ASSUME NEW c \in Conns, Accept(c)
      PROVE  Rows' /\ JobsTyped'
  <2>1. ConnRow(c, job'[c]) /\ JobsTyped' /\ \A h \in Goroutines : h # c => job'[h] = job[h]
    BY <1>1, AcceptGoes, ConstantsOK DEF Accept, Goes, Shape, Rows, ConnRow, OnAts, HeldAts,
        MessageAts, WorkerAts, SetupAts, ConnAts
  <2> QED BY <2>1, ConnMoves
<1>2. ASSUME NEW c \in Conns, NEW w \in Workers, Submit(c, w)
      PROVE  Rows' /\ JobsTyped'
  <2>1. WorkerRow(job'[w]) /\ JobsTyped' /\ \A h \in Goroutines : h # w => job'[h] = job[h]
    BY <1>2, SubmitGoes, ConstantsOK DEF Submit, Goes, Shape, Rows, WorkerRow, OnAts, HeldAts,
        MessageAts, WorkerAts, SetupAts, ConnAts
  <2> QED BY <2>1, WorkerMoves
<1>3. ASSUME NEW w \in Workers, EndFrame(w)
      PROVE  Rows' /\ JobsTyped'
  <2>1. WorkerRow(job'[w]) /\ JobsTyped' /\ \A h \in Goroutines : h # w => job'[h] = job[h]
    BY <1>3, EndFrameGoes, ConstantsOK DEF EndFrame, Goes, Shape, Rows, WorkerRow, OnAts,
        HeldAts, MessageAts, WorkerAts, SetupAts, ConnAts
  <2> QED BY <2>1, WorkerMoves
<1>4. ASSUME NEW w \in Workers, NEW s \in Sessions, Dispatch(w, s)
      PROVE  Rows' /\ JobsTyped'
  <2>1. job[w].at = "frame" /\ HostOf[s] = job[w].conn BY <1>4 DEF Dispatch
  <2>2. WorkerRow(job[w]) BY DEF Shape, Rows
  <2>3. WorkerRow(job'[w]) /\ JobsTyped' /\ \A h \in Goroutines : h # w => job'[h] = job[h]
    BY <1>4, <2>1, <2>2, DispatchGoes, ConstantsOK DEF Goes, WorkerRow, OnAts, HeldAts,
        MessageAts, WorkerAts, SetupAts, ConnAts
  <2> QED BY <2>3, WorkerMoves
<1>5. ASSUME NEW w \in Workers, Answer(w)
      PROVE  Rows' /\ JobsTyped'
  <2>1. WorkerRow(job'[w]) /\ JobsTyped' /\ \A h \in Goroutines : h # w => job'[h] = job[h]
    BY <1>5, AnswerGoes, ConstantsOK DEF Answer, Goes, Shape, Rows, WorkerRow, OnAts, HeldAts,
        MessageAts, WorkerAts, SetupAts, ConnAts
  <2> QED BY <2>1, WorkerMoves
<1>6. ASSUME NEW c \in Conns, LoopEnds(c)
      PROVE  Rows' /\ JobsTyped'
  <2>1. ConnRow(c, job'[c]) /\ JobsTyped' /\ \A h \in Goroutines : h # c => job'[h] = job[h]
    BY <1>6, LoopEndsGoes, ConstantsOK DEF LoopEnds, Goes, Shape, Rows, ConnRow, OnAts,
        HeldAts, MessageAts, WorkerAts, SetupAts, ConnAts
  <2> QED BY <2>1, ConnMoves
<1>7. ASSUME NEW c \in Conns, TakeConnOpens(c)
      PROVE  Rows' /\ JobsTyped'
  <2>1. ConnRow(c, job'[c]) /\ JobsTyped' /\ \A h \in Goroutines : h # c => job'[h] = job[h]
    BY <1>7, TakeConnOpensGoes, ConstantsOK DEF TakeConnOpens, Goes, Shape, Rows, ConnRow,
        OnAts, HeldAts, MessageAts, WorkerAts, SetupAts, ConnAts
  <2> QED BY <2>1, ConnMoves
<1>8. ASSUME NEW c \in Conns, NEW o \in Opens, ReleaseConnOpen(c, o)
      PROVE  Rows' /\ JobsTyped'
  <2>1. ConnRow(c, job'[c]) /\ JobsTyped' /\ \A h \in Goroutines : h # c => job'[h] = job[h]
    BY <1>8, ReleaseConnOpenGoes, ConstantsOK DEF ReleaseConnOpen, Goes, Shape, Rows, ConnRow,
        OnAts, HeldAts, MessageAts, WorkerAts, SetupAts, ConnAts
  <2> QED BY <2>1, ConnMoves
<1>9. ASSUME NEW c \in Conns, Closed(c)
      PROVE  Rows' /\ JobsTyped'
  <2>1. ConnRow(c, job'[c]) /\ JobsTyped' /\ \A h \in Goroutines : h # c => job'[h] = job[h]
    BY <1>9, ClosedGoes, ConstantsOK DEF Closed, Goes, Shape, Rows, ConnRow, OnAts, HeldAts,
        MessageAts, WorkerAts, SetupAts, ConnAts
  <2> QED BY <2>1, ConnMoves
<1>10. ASSUME NEW c \in Conns, NEW s \in Sessions, Authenticate(c, s)
      PROVE  Rows' /\ JobsTyped'
  <2>1. job[c].at = "reading" /\ HostOf[s] = c BY <1>10 DEF Authenticate
  <2>2. ConnRow(c, job[c]) BY DEF Shape, Rows
  <2>3. ConnRow(c, job'[c]) /\ JobsTyped' /\ \A h \in Goroutines : h # c => job'[h] = job[h]
    BY <1>10, <2>1, <2>2, AuthenticateGoes, ConstantsOK DEF Goes, ConnRow, OnAts, HeldAts,
        MessageAts, WorkerAts, SetupAts, ConnAts
  <2> QED BY <2>3, ConnMoves
<1>11. ASSUME NEW c \in Conns, IndexSession(c)
      PROVE  Rows' /\ JobsTyped'
  <2>1. ConnRow(c, job'[c]) /\ JobsTyped' /\ \A h \in Goroutines : h # c => job'[h] = job[h]
    BY <1>11, IndexSessionGoes, ConstantsOK DEF IndexSession, Goes, Shape, Rows, ConnRow,
        OnAts, HeldAts, MessageAts, WorkerAts, SetupAts, ConnAts
  <2> QED BY <2>1, ConnMoves
<1>12. ASSUME NEW c \in Conns, NoPreviousSession(c)
      PROVE  Rows' /\ JobsTyped'
  <2>1. ConnRow(c, job'[c]) /\ JobsTyped' /\ \A h \in Goroutines : h # c => job'[h] = job[h]
    BY <1>12, NoPreviousSessionGoes, ConstantsOK DEF NoPreviousSession, Goes, Shape, Rows,
        ConnRow, OnAts, HeldAts, MessageAts, WorkerAts, SetupAts, ConnAts
  <2> QED BY <2>1, ConnMoves
<1>13. ASSUME NEW c \in Conns, NEW s \in Sessions, Supersede(c, s)
      PROVE  Rows' /\ JobsTyped'
  <2>1. job[c].at = "setup" BY <1>13 DEF Supersede
  <2>2. ConnRow(c, job[c]) BY DEF Shape, Rows
  <2>3. ConnRow(c, job'[c]) /\ JobsTyped' /\ \A h \in Goroutines : h # c => job'[h] = job[h]
    BY <1>13, <2>1, <2>2, SupersedeGoes, ConstantsOK DEF Goes, ConnRow, OnAts, HeldAts,
        MessageAts, WorkerAts, SetupAts, ConnAts
  <2> QED BY <2>3, ConnMoves
<1>14. ASSUME NEW c \in Conns, RemoveSuperseded(c)
      PROVE  Rows' /\ JobsTyped'
  <2>1. ConnRow(c, job'[c]) /\ JobsTyped' /\ \A h \in Goroutines : h # c => job'[h] = job[h]
    BY <1>14, RemoveSupersededGoes, ConstantsOK DEF RemoveSuperseded, Goes, Shape, Rows,
        ConnRow, OnAts, HeldAts, MessageAts, WorkerAts, SetupAts, ConnAts
  <2> QED BY <2>1, ConnMoves
<1>15. ASSUME NEW c \in Conns, TakeSuperseded(c)
      PROVE  Rows' /\ JobsTyped'
  <2>1. ConnRow(c, job'[c]) /\ JobsTyped' /\ \A h \in Goroutines : h # c => job'[h] = job[h]
    BY <1>15, TakeSupersededGoes, ConstantsOK DEF TakeSuperseded, Goes, Shape, Rows, ConnRow,
        OnAts, HeldAts, MessageAts, WorkerAts, SetupAts, ConnAts
  <2> QED BY <2>1, ConnMoves
<1>16. ASSUME NEW g \in Goroutines, NEW o \in Opens, ReleaseOpen(g, o)
      PROVE  Rows' /\ JobsTyped'
  <2>1. JobsTyped' /\ Goes(g, job[g].at, job[g].conn, job[g].sess, None, "none",
          job[g].batch \ {o})
    BY <1>16, ReleaseOpenGoes
  <2>2. CASE g \in Workers
    <3>1. WorkerRow(job'[g])
      BY <1>16, <2>1, <2>2 DEF ReleaseOpen, Goes, Shape, Rows, WorkerRow, OnAts, HeldAts,
          MessageAts, WorkerAts, SetupAts, ConnAts
    <3> QED BY <2>1, <2>2, <3>1, WorkerMoves DEF Goes
  <2>3. CASE g \in Conns
    <3>1. ConnRow(g, job'[g])
      BY <1>16, <2>1, <2>3 DEF ReleaseOpen, Goes, Shape, Rows, ConnRow, OnAts, HeldAts,
          MessageAts, WorkerAts, SetupAts, ConnAts
    <3> QED BY <2>1, <2>3, <3>1, ConnMoves DEF Goes
  <2> QED BY <2>2, <2>3 DEF Goroutines
<1>17. ASSUME NEW c \in Conns, SetupAnswered(c)
      PROVE  Rows' /\ JobsTyped'
  <2>1. ConnRow(c, job'[c]) /\ JobsTyped' /\ \A h \in Goroutines : h # c => job'[h] = job[h]
    BY <1>17, SetupAnsweredGoes, ConstantsOK DEF SetupAnswered, Goes, Shape, Rows, ConnRow,
        OnAts, HeldAts, MessageAts, WorkerAts, SetupAts, ConnAts
  <2> QED BY <2>1, ConnMoves
<1>18. ASSUME NEW w \in Workers, NEW t \in Trees, TreeConnect(w, t)
      PROVE  Rows' /\ JobsTyped'
  <2>1. WorkerRow(job'[w]) /\ JobsTyped' /\ \A h \in Goroutines : h # w => job'[h] = job[h]
    BY <1>18, TreeConnectGoes, ConstantsOK DEF TreeConnect, Goes, Shape, Rows, WorkerRow,
        OnAts, HeldAts, MessageAts, WorkerAts, SetupAts, ConnAts
  <2> QED BY <2>1, WorkerMoves
<1>19. ASSUME NEW w \in Workers, NEW t \in Trees, TreeDisconnect(w, t)
      PROVE  Rows' /\ JobsTyped'
  <2>1. WorkerRow(job'[w]) /\ JobsTyped' /\ \A h \in Goroutines : h # w => job'[h] = job[h]
    BY <1>19, TreeDisconnectGoes, ConstantsOK DEF TreeDisconnect, Goes, Shape, Rows, WorkerRow,
        OnAts, HeldAts, MessageAts, WorkerAts, SetupAts, ConnAts
  <2> QED BY <2>1, WorkerMoves
<1>20. ASSUME NEW w \in Workers, TreeDisconnected(w)
      PROVE  Rows' /\ JobsTyped'
  <2>1. WorkerRow(job'[w]) /\ JobsTyped' /\ \A h \in Goroutines : h # w => job'[h] = job[h]
    BY <1>20, TreeDisconnectedGoes, ConstantsOK DEF TreeDisconnected, Goes, Shape, Rows,
        WorkerRow, OnAts, HeldAts, MessageAts, WorkerAts, SetupAts, ConnAts
  <2> QED BY <2>1, WorkerMoves
<1>21. ASSUME NEW w \in Workers, Logoff(w)
      PROVE  Rows' /\ JobsTyped'
  <2>1. WorkerRow(job'[w]) /\ JobsTyped' /\ \A h \in Goroutines : h # w => job'[h] = job[h]
    BY <1>21, LogoffGoes, ConstantsOK DEF Logoff, Goes, Shape, Rows, WorkerRow, OnAts, HeldAts,
        MessageAts, WorkerAts, SetupAts, ConnAts
  <2> QED BY <2>1, WorkerMoves
<1>22. ASSUME NEW w \in Workers, RemoveLoggedOff(w)
      PROVE  Rows' /\ JobsTyped'
  <2>1. WorkerRow(job'[w]) /\ JobsTyped' /\ \A h \in Goroutines : h # w => job'[h] = job[h]
    BY <1>22, RemoveLoggedOffGoes, ConstantsOK DEF RemoveLoggedOff, Goes, Shape, Rows,
        WorkerRow, OnAts, HeldAts, MessageAts, WorkerAts, SetupAts, ConnAts
  <2> QED BY <2>1, WorkerMoves
<1>23. ASSUME NEW w \in Workers, Unindex(w)
      PROVE  Rows' /\ JobsTyped'
  <2>1. WorkerRow(job'[w]) /\ JobsTyped' /\ \A h \in Goroutines : h # w => job'[h] = job[h]
    BY <1>23, UnindexGoes, ConstantsOK DEF Unindex, Goes, Shape, Rows, WorkerRow, OnAts,
        HeldAts, MessageAts, WorkerAts, SetupAts, ConnAts
  <2> QED BY <2>1, WorkerMoves
<1>24. ASSUME NEW w \in Workers, NEW o \in Opens, NEW t \in Trees, BuildOpen(w, o, t)
      PROVE  Rows' /\ JobsTyped'
  <2>1. job[w].at = "message" BY <1>24 DEF BuildOpen
  <2>2. WorkerRow(job[w]) BY DEF Shape, Rows
  <2>3. WorkerRow(job'[w]) /\ JobsTyped' /\ \A h \in Goroutines : h # w => job'[h] = job[h]
    BY <1>24, <2>1, <2>2, BuildOpenGoes, ConstantsOK DEF Goes, WorkerRow, OnAts, HeldAts,
        MessageAts, WorkerAts, SetupAts, ConnAts
  <2> QED BY <2>3, WorkerMoves
<1>25. ASSUME NEW w \in Workers, Publish(w)
      PROVE  Rows' /\ JobsTyped'
  <2>1. WorkerRow(job'[w]) /\ JobsTyped' /\ \A h \in Goroutines : h # w => job'[h] = job[h]
    BY <1>25, PublishGoes, ConstantsOK DEF Publish, Goes, Shape, Rows, WorkerRow, OnAts,
        HeldAts, MessageAts, WorkerAts, SetupAts, ConnAts
  <2> QED BY <2>1, WorkerMoves
<1>26. ASSUME NEW w \in Workers, NEW k \in Keys, GrantDurable(w, k)
      PROVE  Rows' /\ JobsTyped'
  <2>1. WorkerRow(job'[w]) /\ JobsTyped' /\ \A h \in Goroutines : h # w => job'[h] = job[h]
    BY <1>26, GrantDurableGoes, ConstantsOK DEF GrantDurable, Goes, Shape, Rows, WorkerRow,
        OnAts, HeldAts, MessageAts, WorkerAts, SetupAts, ConnAts
  <2> QED BY <2>1, WorkerMoves
<1>27. ASSUME NEW w \in Workers, CreateAnswered(w)
      PROVE  Rows' /\ JobsTyped'
  <2>1. WorkerRow(job'[w]) /\ JobsTyped' /\ \A h \in Goroutines : h # w => job'[h] = job[h]
    BY <1>27, CreateAnsweredGoes, ConstantsOK DEF CreateAnswered, Goes, Shape, Rows, WorkerRow,
        OnAts, HeldAts, MessageAts, WorkerAts, SetupAts, ConnAts
  <2> QED BY <2>1, WorkerMoves
<1>28. ASSUME NEW w \in Workers, NEW o \in Opens, NEW cmd \in {"READ", "OTHER", "CLOSE"},
    Lookup(w, o, cmd)
      PROVE  Rows' /\ JobsTyped'
  <2>1. job[w].at = "message" BY <1>28 DEF Lookup
  <2>2. WorkerRow(job[w]) BY DEF Shape, Rows
  <2>3. WorkerRow(job'[w]) /\ JobsTyped' /\ \A h \in Goroutines : h # w => job'[h] = job[h]
    BY <1>28, <2>1, <2>2, LookupGoes, ConstantsOK DEF Goes, WorkerRow, OnAts, HeldAts,
        MessageAts, WorkerAts, SetupAts, ConnAts
  <2> QED BY <2>3, WorkerMoves
<1>29. ASSUME NEW w \in Workers, NEW cmd \in {"READ", "OTHER", "CLOSE"}, LookupMisses(w, cmd)
      PROVE  Rows' /\ JobsTyped'
  <2>1. WorkerRow(job'[w]) /\ JobsTyped' /\ \A h \in Goroutines : h # w => job'[h] = job[h]
    BY ZenonT(40), <1>29, LookupMissesGoes, ConstantsOK DEF LookupMisses, Goes, Shape, Rows, WorkerRow,
        OnAts, HeldAts, MessageAts, WorkerAts, SetupAts, ConnAts
  <2> QED BY <2>1, WorkerMoves
<1>30. ASSUME NEW w \in Workers, LockOpen(w)
      PROVE  Rows' /\ JobsTyped'
  <2>1. WorkerRow(job'[w]) /\ JobsTyped' /\ \A h \in Goroutines : h # w => job'[h] = job[h]
    BY ZenonT(40), <1>30, LockOpenGoes, ConstantsOK DEF LockOpen, Goes, Shape, Rows, WorkerRow, OnAts,
        HeldAts, MessageAts, WorkerAts, SetupAts, ConnAts
  <2> QED BY <2>1, WorkerMoves
<1>31. ASSUME NEW w \in Workers, HandlerFinds(w)
      PROVE  Rows' /\ JobsTyped'
  <2>1. job[w].at = "locked" /\ Found(w, job[w].on) BY <1>31 DEF HandlerFinds
  <2>2. WorkerRow(job[w]) /\ job[w].on \in Opens BY <2>1, OnTyped DEF Shape, Rows, OnAts
  <2>3. WorkerRow(job'[w]) /\ JobsTyped' /\ \A h \in Goroutines : h # w => job'[h] = job[h]
    BY <2>1, <2>2, FoundGoes, ConstantsOK DEF Goes, WorkerRow, OnAts, HeldAts, MessageAts,
        WorkerAts, SetupAts, ConnAts
  <2> QED BY <2>3, WorkerMoves
<1>32. ASSUME NEW w \in Workers, NEW o \in Opens, HandlerFindsUnlocked(w, o)
      PROVE  Rows' /\ JobsTyped'
  <2>1. job[w].at = "missed" /\ Found(w, o) BY <1>32 DEF HandlerFindsUnlocked
  <2>2. WorkerRow(job[w]) BY <2>1 DEF Shape, Rows, OnAts
  <2>3. WorkerRow(job'[w]) /\ JobsTyped' /\ \A h \in Goroutines : h # w => job'[h] = job[h]
    BY <2>1, <2>2, FoundGoes, ConstantsOK DEF Goes, WorkerRow, OnAts, HeldAts, MessageAts,
        WorkerAts, SetupAts, ConnAts
  <2> QED BY <2>3, WorkerMoves
<1>33. ASSUME NEW w \in Workers, HandlerFindsNothing(w)
      PROVE  Rows' /\ JobsTyped'
  <2>1. WorkerRow(job'[w]) /\ JobsTyped' /\ \A h \in Goroutines : h # w => job'[h] = job[h]
    BY <1>33, HandlerFindsNothingGoes, ConstantsOK DEF HandlerFindsNothing, Goes, Shape, Rows,
        WorkerRow, OnAts, HeldAts, MessageAts, WorkerAts, SetupAts, ConnAts
  <2> QED BY <2>1, WorkerMoves
<1>34. ASSUME NEW w \in Workers, DoneUsing(w)
      PROVE  Rows' /\ JobsTyped'
  <2>1. WorkerRow(job'[w]) /\ JobsTyped' /\ \A h \in Goroutines : h # w => job'[h] = job[h]
    BY <1>34, DoneUsingGoes, ConstantsOK DEF DoneUsing, Goes, Shape, Rows, WorkerRow, OnAts,
        HeldAts, MessageAts, WorkerAts, SetupAts, ConnAts
  <2> QED BY <2>1, WorkerMoves
<1>35. ASSUME NEW w \in Workers, CloseHandle(w)
      PROVE  Rows' /\ JobsTyped'
  <2>1. WorkerRow(job'[w]) /\ JobsTyped' /\ \A h \in Goroutines : h # w => job'[h] = job[h]
    BY <1>35, CloseHandleGoes, ConstantsOK DEF CloseHandle, Goes, Shape, Rows, WorkerRow,
        OnAts, HeldAts, MessageAts, WorkerAts, SetupAts, ConnAts
  <2> QED BY <2>1, WorkerMoves
<1>36. ASSUME NEW w \in Workers, NEW k \in Keys, NEW t \in Trees, Reclaim(w, k, t)
      PROVE  Rows' /\ JobsTyped'
  <2>1. job[w].at = "message" BY <1>36 DEF Reclaim
  <2>2. WorkerRow(job[w]) BY DEF Shape, Rows
  <2>3. WorkerRow(job'[w]) /\ JobsTyped' /\ \A h \in Goroutines : h # w => job'[h] = job[h]
    BY <1>36, <2>1, <2>2, ReclaimGoes, ConstantsOK DEF Goes, WorkerRow, OnAts, HeldAts,
        MessageAts, WorkerAts, SetupAts, ConnAts
  <2> QED BY <2>3, WorkerMoves
<1>37. ASSUME NEW w \in Workers, ReopenFails(w)
      PROVE  Rows' /\ JobsTyped'
  <2>1. WorkerRow(job'[w]) /\ JobsTyped' /\ \A h \in Goroutines : h # w => job'[h] = job[h]
    BY <1>37, ReopenFailsGoes, ConstantsOK DEF ReopenFails, Goes, Shape, Rows, WorkerRow,
        OnAts, HeldAts, MessageAts, WorkerAts, SetupAts, ConnAts
  <2> QED BY <2>1, WorkerMoves
<1>38. ASSUME NEW w \in Workers, NEW o \in Opens, Reopen(w, o)
      PROVE  Rows' /\ JobsTyped'
  <2>1. job[w].at = "reclaimed" BY <1>38 DEF Reopen
  <2>2. WorkerRow(job[w]) BY DEF Shape, Rows
  <2>3. WorkerRow(job'[w]) /\ JobsTyped' /\ \A h \in Goroutines : h # w => job'[h] = job[h]
    BY <1>38, <2>1, <2>2, ReopenGoes, ConstantsOK DEF Goes, WorkerRow, OnAts, HeldAts,
        MessageAts, WorkerAts, SetupAts, ConnAts
  <2> QED BY <2>3, WorkerMoves
<1>39. ASSUME NEW w \in Workers, PublishReclaimed(w)
      PROVE  Rows' /\ JobsTyped'
  <2>1. WorkerRow(job'[w]) /\ JobsTyped' /\ \A h \in Goroutines : h # w => job'[h] = job[h]
    BY ZenonT(40), <1>39, PublishReclaimedGoes, ConstantsOK DEF PublishReclaimed, Goes, Shape, Rows,
        WorkerRow, OnAts, HeldAts, MessageAts, WorkerAts, SetupAts, ConnAts
  <2> QED BY <2>1, WorkerMoves
<1>40. ASSUME NEW w \in Workers, Reregister(w)
      PROVE  Rows' /\ JobsTyped'
  <2>1. WorkerRow(job'[w]) /\ JobsTyped' /\ \A h \in Goroutines : h # w => job'[h] = job[h]
    BY <1>40, ReregisterGoes, ConstantsOK DEF Reregister, Goes, Shape, Rows, WorkerRow, OnAts,
        HeldAts, MessageAts, WorkerAts, SetupAts, ConnAts
  <2> QED BY <2>1, WorkerMoves
<1>41. ASSUME NEW k \in Keys, DeadlinePasses(k)
      PROVE  Rows' /\ JobsTyped'
  BY <1>41 DEF DeadlinePasses, Shape, TypeOK, JobsTyped, Rows
<1>42. ASSUME NEW k \in Keys, Expire(k)
      PROVE  Rows' /\ JobsTyped'
  BY <1>42 DEF Expire, Shape, TypeOK, JobsTyped, Rows
<1> QED BY <1>1, <1>2, <1>3, <1>4, <1>5, <1>6, <1>7, <1>8, <1>9, <1>10, <1>11, <1>12,
    <1>13, <1>14, <1>15, <1>16, <1>17, <1>18, <1>19, <1>20, <1>21, <1>22, <1>23,
    <1>24, <1>25, <1>26, <1>27, <1>28, <1>29, <1>30, <1>31, <1>32, <1>33, <1>34,
    <1>35, <1>36, <1>37, <1>38, <1>39, <1>40, <1>41, <1>42
    DEF Next, Request, MessageStep, TeardownStep

\* DurableTable.Register keeps the types.
LEMMA RegisterTyped ==
    ASSUME VarsTyped, NEW o \in Opens, NEW k \in Keys, Register(o, k), UNCHANGED sessVars
    PROVE  VarsTyped'
<1>1. hnd' \in [Opens -> Handle] BY DEF VarsTyped, Register, Handle, NoHandle
<1>2. entry' \in [Keys -> Entry] BY DEF VarsTyped, Register, Entry
<1> QED BY <1>1, <1>2 DEF VarsTyped, sessVars

\* Every action keeps the types of the other variables.
LEMMA VarsStep ==
    ASSUME Shape, Next
    PROVE  VarsTyped'
<1> USE ConstantsOK DEF VarsTyped, sessVars, Shape, TypeOK, Rows, WorkerRow, ConnRow,
    MessageAts,
    SetupAts, OnAts
<1>1. ASSUME NEW c \in Conns, Accept(c) PROVE  VarsTyped'
  BY <1>1 DEF Accept
<1>2. ASSUME NEW c \in Conns, NEW w \in Workers, Submit(c, w) PROVE  VarsTyped'
  BY <1>2 DEF Submit
<1>3. ASSUME NEW w \in Workers, EndFrame(w) PROVE  VarsTyped'
  BY <1>3 DEF EndFrame
<1>4. ASSUME NEW w \in Workers, NEW s \in Sessions, Dispatch(w, s) PROVE  VarsTyped'
  BY <1>4 DEF Dispatch
<1>5. ASSUME NEW w \in Workers, Answer(w) PROVE  VarsTyped'
  BY <1>5 DEF Answer
<1>6. ASSUME NEW c \in Conns, LoopEnds(c) PROVE  VarsTyped'
  BY <1>6 DEF LoopEnds
<1>7. ASSUME NEW c \in Conns, TakeConnOpens(c) PROVE  VarsTyped'
  BY <1>7 DEF TakeConnOpens, takeAllOpens
<1>8. ASSUME NEW c \in Conns, NEW o \in Opens, ReleaseConnOpen(c, o)
      PROVE  VarsTyped'
  <2>1. hnd' \in [Opens -> Handle] BY SMTT(30), <1>8 DEF ReleaseConnOpen, releaseOpen, Handle, NoHandle
  <2>2. entry' \in [Keys -> Entry] BY <1>8 DEF ReleaseConnOpen, Has, Handle, Entry, NoEntry
  <2> QED BY <1>8, <2>1, <2>2 DEF ReleaseConnOpen
<1>9. ASSUME NEW c \in Conns, Closed(c) PROVE  VarsTyped'
  BY <1>9 DEF Closed
<1>10. ASSUME NEW c \in Conns, NEW s \in Sessions, Authenticate(c, s) PROVE  VarsTyped'
  BY <1>10 DEF Authenticate
<1>11. ASSUME NEW c \in Conns, IndexSession(c) PROVE  VarsTyped'
  BY <1>11 DEF IndexSession
<1>12. ASSUME NEW c \in Conns, NoPreviousSession(c) PROVE  VarsTyped'
  BY <1>12 DEF NoPreviousSession
<1>13. ASSUME NEW c \in Conns, NEW s \in Sessions, Supersede(c, s) PROVE  VarsTyped'
  BY <1>13 DEF Supersede
<1>14. ASSUME NEW c \in Conns, RemoveSuperseded(c) PROVE  VarsTyped'
  BY <1>14 DEF RemoveSuperseded
<1>15. ASSUME NEW c \in Conns, TakeSuperseded(c) PROVE  VarsTyped'
  BY <1>15 DEF TakeSuperseded, takeAllOpens
<1>16. ASSUME NEW g \in Goroutines, NEW o \in Opens, ReleaseOpen(g, o) PROVE  VarsTyped'
  BY <1>16 DEF ReleaseOpen, dispose, Handle, NoHandle, Entry, NoEntry
<1>17. ASSUME NEW c \in Conns, SetupAnswered(c) PROVE  VarsTyped'
  BY <1>17 DEF SetupAnswered
<1>18. ASSUME NEW w \in Workers, NEW t \in Trees, TreeConnect(w, t) PROVE  VarsTyped'
  BY <1>18 DEF TreeConnect
<1>19. ASSUME NEW w \in Workers, NEW t \in Trees, TreeDisconnect(w, t) PROVE  VarsTyped'
  BY <1>19 DEF TreeDisconnect
<1>20. ASSUME NEW w \in Workers, TreeDisconnected(w) PROVE  VarsTyped'
  BY <1>20 DEF TreeDisconnected
<1>21. ASSUME NEW w \in Workers, Logoff(w) PROVE  VarsTyped'
  BY <1>21 DEF Logoff, takeAllOpens
<1>22. ASSUME NEW w \in Workers, RemoveLoggedOff(w) PROVE  VarsTyped'
  BY <1>22 DEF RemoveLoggedOff
<1>23. ASSUME NEW w \in Workers, Unindex(w) PROVE  VarsTyped'
  BY <1>23 DEF Unindex
<1>24. ASSUME NEW w \in Workers, NEW o \in Opens, NEW t \in Trees,
    BuildOpen(w, o, t) PROVE  VarsTyped'
  BY <1>24 DEF BuildOpen, Handle, NoHandle
<1>25. ASSUME NEW w \in Workers, Publish(w)
      PROVE  VarsTyped'
  <2>1. job[w].on \in Opens /\ job[w].sess \in Sessions BY <1>25, OnTyped DEF Publish
  <2>2. opens' \in [Sessions -> SUBSET Opens] BY <1>25, <2>1 DEF Publish
  <2>3. hnd' \in [Opens -> Handle] BY <1>25, <2>1 DEF Publish, releaseOpen, Handle, NoHandle
  <2> QED BY <1>25, <2>2, <2>3 DEF Publish
<1>26. ASSUME NEW w \in Workers, NEW k \in Keys, GrantDurable(w, k)
      PROVE  VarsTyped'
  <2>1. job[w].on \in Opens /\ k \in Keys BY <1>26, OnTyped DEF GrantDurable
  <2>2. Register(job[w].on, k) /\ UNCHANGED sessVars BY <1>26 DEF GrantDurable
  <2> QED BY <2>1, <2>2, RegisterTyped
<1>27. ASSUME NEW w \in Workers, CreateAnswered(w) PROVE  VarsTyped'
  BY <1>27 DEF CreateAnswered
<1>28. ASSUME NEW w \in Workers, NEW o \in Opens, NEW cmd \in {"READ", "OTHER", "CLOSE"},
    Lookup(w, o, cmd) PROVE  VarsTyped'
  BY <1>28 DEF Lookup
<1>29. ASSUME NEW w \in Workers, NEW cmd \in {"READ", "OTHER", "CLOSE"},
    LookupMisses(w, cmd) PROVE  VarsTyped'
  BY <1>29 DEF LookupMisses
<1>30. ASSUME NEW w \in Workers, LockOpen(w) PROVE  VarsTyped'
  BY <1>30 DEF LockOpen
<1>31. ASSUME NEW w \in Workers, HandlerFinds(w) PROVE  VarsTyped'
  BY <1>31 DEF HandlerFinds, Found
<1>32. ASSUME NEW w \in Workers, NEW o \in Opens, HandlerFindsUnlocked(w, o) PROVE  VarsTyped'
  BY <1>32 DEF HandlerFindsUnlocked, Found
<1>33. ASSUME NEW w \in Workers, HandlerFindsNothing(w) PROVE  VarsTyped'
  BY <1>33 DEF HandlerFindsNothing
<1>34. ASSUME NEW w \in Workers, DoneUsing(w) PROVE  VarsTyped'
  BY <1>34 DEF DoneUsing
<1>35. ASSUME NEW w \in Workers, CloseHandle(w) PROVE  VarsTyped'
  BY <1>35 DEF CloseHandle, dispose, Handle, NoHandle, Entry, NoEntry
<1>36. ASSUME NEW w \in Workers, NEW k \in Keys, NEW t \in Trees, Reclaim(w, k, t)
      PROVE  VarsTyped'
  <2>1. entry[k].open \in Opens BY <1>36 DEF Reclaim, Entry, NoEntry
  <2>a. PICK h \in Handle : h = hnd[entry[k].open] BY <2>1
  <2>b. [h EXCEPT !.fd = "closed"] \in Handle BY DEF Handle
  <2>2. hnd' \in [Opens -> Handle] BY <1>36, <2>1, <2>a, <2>b DEF Reclaim
  <2> QED BY <1>36, <2>2 DEF Reclaim, Entry, NoEntry
<1>37. ASSUME NEW w \in Workers, ReopenFails(w) PROVE  VarsTyped'
  BY <1>37 DEF ReopenFails, releaseOpen, Handle, NoHandle
<1>38. ASSUME NEW w \in Workers, NEW o \in Opens, Reopen(w, o)
      PROVE  VarsTyped'
  <2>1. job[w].on \in Opens /\ job[w].tree \in Trees /\ job[w].key \in Keys
      BY <1>38, OnTyped DEF Reopen
  <2>2. hnd' \in [Opens -> Handle] BY <1>38, <2>1 DEF Reopen, Handle, NoHandle
  <2> QED BY <1>38, <2>2 DEF Reopen
<1>39. ASSUME NEW w \in Workers, PublishReclaimed(w)
      PROVE  VarsTyped'
  <2>1. job[w].on \in Opens /\ job[w].sess \in Sessions BY <1>39, OnTyped DEF PublishReclaimed
  <2>2. opens' \in [Sessions -> SUBSET Opens] BY <1>39, <2>1 DEF PublishReclaimed
  <2>3. hnd' \in [Opens -> Handle]
      BY <1>39, <2>1 DEF PublishReclaimed, releaseOpen, Handle, NoHandle
  <2> QED BY <1>39, <2>2, <2>3 DEF PublishReclaimed
<1>40. ASSUME NEW w \in Workers, Reregister(w)
      PROVE  VarsTyped'
  <2>1. job[w].on \in Opens /\ job[w].key \in Keys BY <1>40, OnTyped DEF Reregister
  <2>2. Register(job[w].on, job[w].key) /\ UNCHANGED sessVars BY <1>40 DEF Reregister
  <2> QED BY <2>1, <2>2, RegisterTyped
<1>41. ASSUME NEW k \in Keys, DeadlinePasses(k) PROVE  VarsTyped'
  BY <1>41 DEF DeadlinePasses, Entry, NoEntry
<1>42. ASSUME NEW k \in Keys, Expire(k) PROVE  VarsTyped'
  BY <1>42 DEF Expire, releaseOpen, Handle, NoHandle, Entry, NoEntry
<1> QED BY <1>1, <1>2, <1>3, <1>4, <1>5, <1>6, <1>7, <1>8, <1>9, <1>10, <1>11, <1>12,
    <1>13, <1>14, <1>15, <1>16, <1>17, <1>18, <1>19, <1>20, <1>21, <1>22, <1>23,
    <1>24, <1>25, <1>26, <1>27, <1>28, <1>29, <1>30, <1>31, <1>32, <1>33, <1>34,
    <1>35, <1>36, <1>37, <1>38, <1>39, <1>40, <1>41, <1>42
    DEF Next, Request, MessageStep, TeardownStep

\* Hence every step does.
LEMMA ShapeStep ==
    ASSUME Shape, [Next]_vars
    PROVE  Shape'
<1>1. CASE Next BY <1>1, RowsStep, VarsStep DEF Shape, TypeOK, JobsTyped, VarsTyped
<1>2. CASE UNCHANGED vars BY <1>2 DEF vars, Shape, TypeOK, Rows
<1> QED BY <1>1, <1>2

\* And they hold before the first connection.
LEMMA ShapeInit == Init => Shape
<1> SUFFICES ASSUME Init PROVE Shape
  OBVIOUS
<1>1. \A c \in Conns \cup {None} : Doing(c, "closed") \in Job /\ Doing(c, "free") \in Job
  BY DEF Doing, Job
<1>2. /\ \A c \in Conns : job[c] = Doing(c, "closed")
      /\ \A w \in Workers : job[w] = Doing(None, "free")
  BY ConstantsOK DEF Init, Goroutines
<1>3. job \in [Goroutines -> Job] BY <1>1 DEF Init
<1>a. WorkerRow(Doing(None, "free"))
  BY ConstantsOK DEF WorkerRow, Doing, OnAts, HeldAts, MessageAts, WorkerAts
<1>b. \A c \in Conns : ConnRow(c, Doing(c, "closed")) BY DEF ConnRow, Doing, SetupAts, ConnAts
<1>4. Rows BY <1>2, <1>a, <1>b DEF Rows
<1>5. NoHandle \in Handle /\ NoEntry \in Entry BY DEF NoHandle, Handle, NoEntry, Entry
<1> QED BY <1>3, <1>4, <1>5 DEF Shape, TypeOK, Init

-----------------------------------------------------------------------------
(* Sessions and connections.                                               *)

\* The part of the rows that this needs.
Routed ==
    /\ opens \in [Sessions -> SUBSET Opens]
    /\ table \subseteq Sessions /\ idx \subseteq Sessions /\ dead \subseteq Sessions
    /\ \A w \in Workers :
        /\ job[w].sess = None \/ (job[w].sess \in Sessions /\ HostOf[job[w].sess] = job[w].conn)
        /\ job[w].at \in {"message", "built", "reopened", "locked", "missed", "relLogoff",
             "unindex"}
           => job[w].sess # None
        /\ job[w].at = "free" => job[w].conn = None
    /\ \A c \in Conns :
        /\ job[c].at = "auth" => job[c].sess \in Sessions /\ HostOf[job[c].sess] = c
        /\ job[c].at \in {"superseding", "taking"} => job[c].sess \in Sessions

\* It follows from the rows.
LEMMA RoutedNow == Shape => Routed
  BY ConstantsOK DEF Shape, Rows, WorkerRow, ConnRow, TypeOK, Routed, OnAts, MessageAts,
      SetupAts

\* After the step too.
LEMMA RoutedNext == Shape' => Routed'
  BY ConstantsOK DEF Shape, Rows, WorkerRow, ConnRow, TypeOK, Routed, OnAts, MessageAts,
      SetupAts

\* Every action keeps dead sessions empty and sessions with handles tracked.
LEMMA TrackedStep ==
    ASSUME SessInv, Shape', Next
    PROVE  DeadSessionEmpty' /\ Tracked'
<1> USE DEF DeadSessionEmpty, Tracked
<1>0. Shape /\ DeadSessionEmpty /\ Tracked /\ Routed /\ Routed'
    BY RoutedNow, RoutedNext DEF SessInv
<1>c. /\ None \notin Sessions /\ None \notin Conns /\ Conns \cap Workers = {}
      /\ HostOf \in [Sessions -> Conns]
  BY ConstantsOK
<1> USE <1>0, <1>c DEF Routed, Taken, sessVars, Goroutines
<1>1. ASSUME NEW c \in Conns, Accept(c)
      PROVE  DeadSessionEmpty' /\ Tracked'
  BY <1>1, AcceptGoes DEF Accept, Goes, SessionsOf
<1>2. ASSUME NEW c \in Conns, NEW w \in Workers, Submit(c, w)
      PROVE  DeadSessionEmpty' /\ Tracked'
  BY <1>2, SubmitGoes DEF Submit, Goes
<1>3. ASSUME NEW w \in Workers, EndFrame(w)
      PROVE  DeadSessionEmpty' /\ Tracked'
  BY <1>3, EndFrameGoes DEF EndFrame, Goes
<1>4. ASSUME NEW w \in Workers, NEW s \in Sessions, Dispatch(w, s)
      PROVE  DeadSessionEmpty' /\ Tracked'
  <2>1. Goes(w, "message", job[w].conn, s, None, "none", {})
    BY <1>4, DispatchGoes
  <2> QED BY <1>4, <2>1 DEF Dispatch, Goes
<1>5. ASSUME NEW w \in Workers, Answer(w)
      PROVE  DeadSessionEmpty' /\ Tracked'
  BY <1>5, AnswerGoes DEF Answer, Goes
<1>6. ASSUME NEW c \in Conns, LoopEnds(c)
      PROVE  DeadSessionEmpty' /\ Tracked'
  BY <1>6, LoopEndsGoes DEF LoopEnds, Goes, SessionsOf
<1>7. ASSUME NEW c \in Conns, TakeConnOpens(c)
      PROVE  DeadSessionEmpty' /\ Tracked'
  <2>1. Goes(c, "relConn", c, job[c].sess, None, "none",
          UNION {opens[s] : s \in SessionsOf(c) \cap table})
    BY <1>7, TakeConnOpensGoes
  <2> QED BY <1>7, <2>1 DEF TakeConnOpens, Goes, SessionsOf, takeAllOpens, drained
<1>8. ASSUME NEW c \in Conns, NEW o \in Opens, ReleaseConnOpen(c, o)
      PROVE  DeadSessionEmpty' /\ Tracked'
  BY <1>8, ReleaseConnOpenGoes DEF ReleaseConnOpen, Goes
<1>9. ASSUME NEW c \in Conns, Closed(c)
      PROVE  DeadSessionEmpty' /\ Tracked'
  BY <1>9, ClosedGoes DEF Closed, Goes
<1>10. ASSUME NEW c \in Conns, NEW s \in Sessions, Authenticate(c, s)
      PROVE  DeadSessionEmpty' /\ Tracked'
  <2>1. Goes(c, "auth", c, s, None, "none", {})
    BY <1>10, AuthenticateGoes
  <2> QED BY <1>10, <2>1 DEF Authenticate, Goes, drained
<1>11. ASSUME NEW c \in Conns, IndexSession(c)
      PROVE  DeadSessionEmpty' /\ Tracked'
  BY <1>11, IndexSessionGoes DEF IndexSession, Goes
<1>12. ASSUME NEW c \in Conns, NoPreviousSession(c)
      PROVE  DeadSessionEmpty' /\ Tracked'
  BY <1>12, NoPreviousSessionGoes DEF NoPreviousSession, Goes
<1>13. ASSUME NEW c \in Conns, NEW s \in Sessions, Supersede(c, s)
      PROVE  DeadSessionEmpty' /\ Tracked'
  <2>1. Goes(c, "superseding", c, s, None, "none", {})
    BY <1>13, SupersedeGoes
  <2> QED BY <1>13, <2>1 DEF Supersede, Goes
<1>14. ASSUME NEW c \in Conns, RemoveSuperseded(c)
      PROVE  DeadSessionEmpty' /\ Tracked'
  BY <1>14, RemoveSupersededGoes DEF RemoveSuperseded, Goes
<1>15. ASSUME NEW c \in Conns, TakeSuperseded(c)
      PROVE  DeadSessionEmpty' /\ Tracked'
  <2>1. Goes(c, "relSuper", c, job[c].sess, None, "none", opens[job[c].sess])
    BY <1>15, TakeSupersededGoes
  <2> QED BY <1>15, <2>1 DEF TakeSuperseded, Goes, takeAllOpens
<1>16. ASSUME NEW g \in Goroutines, NEW o \in Opens, ReleaseOpen(g, o)
      PROVE  DeadSessionEmpty' /\ Tracked'
  BY <1>16, ReleaseOpenGoes DEF ReleaseOpen, Goes
<1>17. ASSUME NEW c \in Conns, SetupAnswered(c)
      PROVE  DeadSessionEmpty' /\ Tracked'
  BY <1>17, SetupAnsweredGoes DEF SetupAnswered, Goes
<1>18. ASSUME NEW w \in Workers, NEW t \in Trees, TreeConnect(w, t)
      PROVE  DeadSessionEmpty' /\ Tracked'
  <2>1. Goes(w, "frame", job[w].conn, None, None, "none", {})
    BY <1>18, TreeConnectGoes
  <2> QED BY <1>18, <2>1 DEF TreeConnect, Goes
<1>19. ASSUME NEW w \in Workers, NEW t \in Trees, TreeDisconnect(w, t)
      PROVE  DeadSessionEmpty' /\ Tracked'
  <2>1. \E B : Goes(w, "relTree", job[w].conn, job[w].sess, None, "none", B)
    BY <1>19, TreeDisconnectGoes
  <2> QED BY <1>19, <2>1 DEF TreeDisconnect, Goes
<1>20. ASSUME NEW w \in Workers, TreeDisconnected(w)
      PROVE  DeadSessionEmpty' /\ Tracked'
  BY <1>20, TreeDisconnectedGoes DEF TreeDisconnected, Goes
<1>21. ASSUME NEW w \in Workers, Logoff(w)
      PROVE  DeadSessionEmpty' /\ Tracked'
  <2>1. Goes(w, "relLogoff", job[w].conn, job[w].sess, None, "none", opens[job[w].sess])
    BY <1>21, LogoffGoes
  <2> QED BY <1>21, <2>1 DEF Logoff, Goes, takeAllOpens
<1>22. ASSUME NEW w \in Workers, RemoveLoggedOff(w)
      PROVE  DeadSessionEmpty' /\ Tracked'
  BY <1>22, RemoveLoggedOffGoes DEF RemoveLoggedOff, Goes
<1>23. ASSUME NEW w \in Workers, Unindex(w)
      PROVE  DeadSessionEmpty' /\ Tracked'
  BY <1>23, UnindexGoes DEF Unindex, Goes
<1>24. ASSUME NEW w \in Workers, NEW o \in Opens, NEW t \in Trees, BuildOpen(w, o, t)
      PROVE  DeadSessionEmpty' /\ Tracked'
  <2>1. Goes(w, "built", job[w].conn, job[w].sess, o, "none", {})
    BY <1>24, BuildOpenGoes
  <2> QED BY <1>24, <2>1 DEF BuildOpen, Goes
<1>25. ASSUME NEW w \in Workers, Publish(w)
      PROVE  DeadSessionEmpty' /\ Tracked'
  <2>1. \/ /\ job[w].sess \notin dead /\ opens' = [opens EXCEPT ![job[w].sess] = @ \cup {job[w].on}]
           /\ Goes(w, "published", job[w].conn, job[w].sess, job[w].on, "exclusive", {})
        \/ opens' = opens /\ Goes(w, "frame", job[w].conn, None, None, "none", {})
    BY <1>25, PublishGoes DEF CanPublish
  <2> QED BY <1>25, <2>1 DEF Publish, Goes, CanPublish
<1>26. ASSUME NEW w \in Workers, NEW k \in Keys, GrantDurable(w, k)
      PROVE  DeadSessionEmpty' /\ Tracked'
  BY <1>26, GrantDurableGoes DEF GrantDurable, Goes
<1>27. ASSUME NEW w \in Workers, CreateAnswered(w)
      PROVE  DeadSessionEmpty' /\ Tracked'
  BY <1>27, CreateAnsweredGoes DEF CreateAnswered, Goes
<1>28. ASSUME NEW w \in Workers, NEW o \in Opens, NEW cmd \in {"READ", "OTHER", "CLOSE"},
    Lookup(w, o, cmd)
      PROVE  DeadSessionEmpty' /\ Tracked'
  <2>1. Goes(w, "lookup", job[w].conn, job[w].sess, o, "none", {})
    BY <1>28, LookupGoes
  <2> QED BY <1>28, <2>1 DEF Lookup, Goes
<1>29. ASSUME NEW w \in Workers, NEW cmd \in {"READ", "OTHER", "CLOSE"}, LookupMisses(w, cmd)
      PROVE  DeadSessionEmpty' /\ Tracked'
  <2>1. Goes(w, "missed", job[w].conn, job[w].sess, None, "none", {})
    BY <1>29, LookupMissesGoes
  <2> QED BY <1>29, <2>1 DEF LookupMisses, Goes
<1>30. ASSUME NEW w \in Workers, LockOpen(w)
      PROVE  DeadSessionEmpty' /\ Tracked'
  <2>1. \E l : Goes(w, "locked", job[w].conn, job[w].sess, job[w].on, l, {})
    BY <1>30, LockOpenGoes
  <2> QED BY <1>30, <2>1 DEF LockOpen, Goes
<1>31. ASSUME NEW w \in Workers, HandlerFinds(w)
      PROVE  DeadSessionEmpty' /\ Tracked'
  <2>1. job[w].at = "locked" /\ Found(w, job[w].on) BY <1>31 DEF HandlerFinds
  <2>2. job[w].on \in Opens BY <2>1, OnTyped DEF OnAts
  <2> QED BY <1>31, <2>1, <2>2, FoundGoes DEF HandlerFinds, Goes
<1>32. ASSUME NEW w \in Workers, NEW o \in Opens, HandlerFindsUnlocked(w, o)
      PROVE  DeadSessionEmpty' /\ Tracked'
  <2>1. job[w].at = "missed" /\ Found(w, o) BY <1>32 DEF HandlerFindsUnlocked
  <2> QED BY <1>32, <2>1, FoundGoes DEF HandlerFindsUnlocked, Goes
<1>33. ASSUME NEW w \in Workers, HandlerFindsNothing(w)
      PROVE  DeadSessionEmpty' /\ Tracked'
  BY <1>33, HandlerFindsNothingGoes DEF HandlerFindsNothing, Goes
<1>34. ASSUME NEW w \in Workers, DoneUsing(w)
      PROVE  DeadSessionEmpty' /\ Tracked'
  BY <1>34, DoneUsingGoes DEF DoneUsing, Goes
<1>35. ASSUME NEW w \in Workers, CloseHandle(w)
      PROVE  DeadSessionEmpty' /\ Tracked'
  BY <1>35, CloseHandleGoes DEF CloseHandle, Goes
<1>36. ASSUME NEW w \in Workers, NEW k \in Keys, NEW t \in Trees, Reclaim(w, k, t)
      PROVE  DeadSessionEmpty' /\ Tracked'
  <2>1. Goes(w, "reclaimed", job[w].conn, job[w].sess, entry[k].open, "none", {})
    BY <1>36, ReclaimGoes
  <2> QED BY SMTT(30), <1>36, <2>1 DEF Reclaim, Goes
<1>37. ASSUME NEW w \in Workers, ReopenFails(w)
      PROVE  DeadSessionEmpty' /\ Tracked'
  BY <1>37, ReopenFailsGoes DEF ReopenFails, Goes
<1>38. ASSUME NEW w \in Workers, NEW o \in Opens, Reopen(w, o)
      PROVE  DeadSessionEmpty' /\ Tracked'
  <2>1. Goes(w, "reopened", job[w].conn, job[w].sess, o, "none", {})
    BY <1>38, ReopenGoes
  <2> QED BY <1>38, <2>1 DEF Reopen, Goes
<1>39. ASSUME NEW w \in Workers, PublishReclaimed(w)
      PROVE  DeadSessionEmpty' /\ Tracked'
  <2>1. \/ /\ job[w].sess \notin dead /\ opens' = [opens EXCEPT ![job[w].sess] = @ \cup {job[w].on}]
           /\ Goes(w, "reregister", job[w].conn, job[w].sess, job[w].on, "exclusive", {})
        \/ opens' = opens /\ Goes(w, "frame", job[w].conn, None, None, "none", {})
    BY <1>39, PublishReclaimedGoes
  <2> QED BY <1>39, <2>1 DEF PublishReclaimed, Goes
<1>40. ASSUME NEW w \in Workers, Reregister(w)
      PROVE  DeadSessionEmpty' /\ Tracked'
  BY <1>40, ReregisterGoes DEF Reregister, Goes
<1>41. ASSUME NEW k \in Keys, DeadlinePasses(k)
      PROVE  DeadSessionEmpty' /\ Tracked'
  BY <1>41 DEF DeadlinePasses, Goes
<1>42. ASSUME NEW k \in Keys, Expire(k)
      PROVE  DeadSessionEmpty' /\ Tracked'
  BY <1>42 DEF Expire, Goes
<1> HIDE <1>0, <1>c DEF DeadSessionEmpty, Tracked, Routed, Taken, sessVars
<1> QED BY <1>1, <1>2, <1>3, <1>4, <1>5, <1>6, <1>7, <1>8, <1>9, <1>10, <1>11, <1>12,
    <1>13, <1>14, <1>15, <1>16, <1>17, <1>18, <1>19, <1>20, <1>21, <1>22, <1>23,
    <1>24, <1>25, <1>26, <1>27, <1>28, <1>29, <1>30, <1>31, <1>32, <1>33, <1>34,
    <1>35, <1>36, <1>37, <1>38, <1>39, <1>40, <1>41, <1>42
    DEF Next, Request, MessageStep, TeardownStep, Goroutines

\* Hence every step does.
LEMMA SessStep ==
    ASSUME SessInv, [Next]_vars
    PROVE  SessInv'
<1>1. Shape' BY ShapeStep DEF SessInv
<1>2. CASE Next BY <1>1, <1>2, TrackedStep DEF SessInv
<1>3. CASE UNCHANGED vars BY <1>1, <1>3 DEF vars, SessInv, DeadSessionEmpty, Tracked, Taken
<1> QED BY <1>2, <1>3

\* And so it is before the first connection.
LEMMA SessInit == Init => SessInv
  BY ShapeInit, ConstantsOK DEF SessInv, Init, DeadSessionEmpty, Tracked, Doing, Goroutines

-----------------------------------------------------------------------------
(* Which kind of step each action is.                                      *)

\* The types of the fields, in this state.
LEMMA FieldsNow == Shape => Fields
<1> SUFFICES ASSUME Shape PROVE Fields
  OBVIOUS
<1>1. ASSUME NEW g \in Goroutines
      PROVE  job[g].on \in Opens \cup {None} /\ job[g].batch \subseteq Opens
  BY DEF Shape, TypeOK, Job
<1>2. ASSUME NEW g \in Goroutines
      PROVE  /\ job[g].at \in OnAts <=> job[g].on # None
             /\ job[g].at \in RelAts \/ job[g].batch = {}
             /\ job[g].at \in HeldAts \/ job[g].lk = "none"
  BY DEF Shape, Rows, WorkerRow, ConnRow, Goroutines, OnAts, HeldAts, RelAts, SetupAts, ConnAts
<1>3. /\ \A s \in Sessions : opens[s] \subseteq Opens
      /\ \A o \in Opens : hnd[o].key \in Keys \cup {None} /\ hnd[o].tree \in Trees \cup {None}
      /\ \A k \in Keys :
          \/ entry[k].open \in Opens /\ entry[k].state \in {"attached", "detached", "expired"}
          \/ entry[k].open = None /\ entry[k].state = "none"
  BY DEF Shape, TypeOK, Handle, Entry, NoEntry
<1> QED BY <1>1, <1>2, <1>3 DEF Fields

\* And in the next.
LEMMA FieldsNext == Shape' => Fields'
<1> SUFFICES ASSUME Shape' PROVE Fields'
  OBVIOUS
<1>1. ASSUME NEW g \in Goroutines
      PROVE  job'[g].on \in Opens \cup {None} /\ job'[g].batch \subseteq Opens
  BY DEF Shape, TypeOK, Job
<1>2. ASSUME NEW g \in Goroutines
      PROVE  /\ job'[g].at \in OnAts <=> job'[g].on # None
             /\ job'[g].at \in RelAts \/ job'[g].batch = {}
             /\ job'[g].at \in HeldAts \/ job'[g].lk = "none"
  BY DEF Shape, Rows, WorkerRow, ConnRow, Goroutines, OnAts, HeldAts, RelAts, SetupAts, ConnAts
<1>3. /\ \A s \in Sessions : opens'[s] \subseteq Opens
      /\ \A o \in Opens : hnd'[o].key \in Keys \cup {None} /\ hnd'[o].tree \in Trees \cup {None}
      /\ \A k \in Keys :
          \/ entry'[k].open \in Opens /\ entry'[k].state \in {"attached", "detached", "expired"}
          \/ entry'[k].open = None /\ entry'[k].state = "none"
  BY DEF Shape, TypeOK, Handle, Entry, NoEntry
<1> QED BY <1>1, <1>2, <1>3 DEF Fields

\* nil is nobody.
LEMMA NonesApart == NoneApart
  BY ConstantsOK DEF NoneApart

\* The handles of a session, taken by the one that ends it.
LEMMA TakeConnOpensIs ==
    ASSUME SessInv, HandleInv, NEW c \in Conns, TakeConnOpens(c)
    PROVE  Takes(c, "relConn", c, job[c].sess,
             UNION {opens[s] : s \in SessionsOf(c) \cap table})
<1> DEFINE B == UNION {opens[s] : s \in SessionsOf(c) \cap table}
<1>0. Shape /\ Fields BY FieldsNow DEF SessInv
<1>1. Goes(c, "relConn", c, job[c].sess, None, "none", B) BY <1>0, TakeConnOpensGoes
<1>2. job[c].on = None /\ job[c].batch = {} BY <1>0 DEF TakeConnOpens, Shape, Rows, ConnRow
<1>3. B \subseteq Opens /\ \A o \in B : \E r \in Sessions : o \in opens[r]
  BY <1>0 DEF Fields, SessionsOf
<1>4. \A r \in Sessions : opens'[r] = opens[r] \ B
  <2>1. SUFFICES ASSUME NEW r \in Sessions PROVE opens'[r] = opens[r] \ B
    OBVIOUS
  <2>2. opens'[r] = IF r \in SessionsOf(c) \cap table THEN {} ELSE opens[r]
    BY DEF TakeConnOpens, takeAllOpens
  <2>3. \A o \in opens[r], s \in SessionsOf(c) \cap table : o \in opens[s] => r = s
    BY <1>0 DEF HandleInv, OwnedOnce, Fields, SessionsOf
  <2> QED BY <2>2, <2>3
<1>5. \A h \in Goroutines : job[h].on \notin B
  <2>1. SUFFICES ASSUME NEW h \in Goroutines,
      NEW s \in SessionsOf(c), job[h].on \in opens[s] PROVE FALSE
    OBVIOUS
  <2>2. job[h].sess = s /\ job[h].on # None
    BY <1>0, <2>1, ConstantsOK DEF HandleInv, Apart, Fields, SessionsOf
  <2>3. h \in Workers BY <1>0, <2>2 DEF Goroutines, Shape, Rows, ConnRow
  <2>4. job[h].conn = c
    BY <1>0, <2>2, <2>3, ConstantsOK DEF Shape, Rows, WorkerRow, SessionsOf
  <2> QED BY <2>3, <2>4 DEF TakeConnOpens, drained
<1>6. HandlesKept BY DEF TakeConnOpens, HandlesKept
<1> QED BY <1>1, <1>2, <1>3, <1>4, <1>5, <1>6 DEF Takes

\* The kind of TakeSuperseded.
LEMMA TakeSupersededIs ==
    ASSUME SessInv, HandleInv, NEW c \in Conns, TakeSuperseded(c)
    PROVE  Takes(c, "relSuper", c, job[c].sess, opens[job[c].sess])
<1> DEFINE s == job[c].sess
<1>0. Shape /\ Fields BY FieldsNow DEF SessInv
<1>1. Goes(c, "relSuper", c, s, None, "none", opens[s]) BY <1>0, TakeSupersededGoes
<1>2. job[c].on = None /\ job[c].batch = {} /\ s \in Sessions
  BY <1>0 DEF TakeSuperseded, Shape, Rows, ConnRow, SetupAts
<1>3. opens[s] \subseteq Opens BY <1>0, <1>2 DEF Fields
<1>4. \A r \in Sessions : opens'[r] = opens[r] \ opens[s]
  BY <1>0, <1>2 DEF TakeSuperseded, takeAllOpens, HandleInv, OwnedOnce, Fields
<1>5. HandlesKept BY DEF TakeSuperseded, HandlesKept
<1> QED BY <1>1, <1>2, <1>3, <1>4, <1>5 DEF Takes

\* The kind of Logoff.
LEMMA LogoffIs ==
    ASSUME SessInv, HandleInv, NEW w \in Workers, Logoff(w)
    PROVE  Takes(w, "relLogoff", job[w].conn, job[w].sess, opens[job[w].sess])
<1> DEFINE s == job[w].sess
<1>0. Shape /\ Fields BY FieldsNow DEF SessInv
<1>1. Goes(w, "relLogoff", job[w].conn, s, None, "none", opens[s]) BY <1>0, LogoffGoes
<1>2. job[w].on = None /\ job[w].batch = {} /\ s \in Sessions
  BY <1>0 DEF Logoff, Shape, Rows, WorkerRow, OnAts, MessageAts
<1>3. opens[s] \subseteq Opens BY <1>0, <1>2 DEF Fields
<1>4. \A r \in Sessions : opens'[r] = opens[r] \ opens[s]
  BY <1>0, <1>2 DEF Logoff, takeAllOpens, HandleInv, OwnedOnce, Fields
<1>5. HandlesKept BY DEF Logoff, HandlesKept
<1> QED BY <1>1, <1>2, <1>3, <1>4, <1>5 DEF Takes

\* The kind of TreeDisconnect.
LEMMA TreeDisconnectIs ==
    ASSUME SessInv, HandleInv, NEW w \in Workers, NEW t \in Trees, TreeDisconnect(w, t)
    PROVE  Takes(w, "relTree", job[w].conn, job[w].sess,
             {o \in opens[job[w].sess] : hnd[o].tree = t})
<1> DEFINE s == job[w].sess
           B == {o \in opens[s] : hnd[o].tree = t}
<1>0. Shape /\ Fields BY FieldsNow DEF SessInv
<1>1. Goes(w, "relTree", job[w].conn, s, None, "none", B) BY <1>0, TreeDisconnectGoes
<1>2. job[w].on = None /\ job[w].batch = {} /\ s \in Sessions
  BY <1>0 DEF TreeDisconnect, Shape, Rows, WorkerRow, OnAts, MessageAts
<1>3. B \subseteq Opens BY <1>0, <1>2 DEF Fields
<1>4. opens' = [opens EXCEPT ![s] = @ \ B] BY DEF TreeDisconnect
<1>5. \A r \in Sessions : r # s => opens[r] \cap B = {}
  BY <1>0, <1>2, <1>3 DEF HandleInv, OwnedOnce
<1>6. \A r \in Sessions : opens'[r] = opens[r] \ B
  BY <1>0, <1>2, <1>4, <1>5 DEF Shape, TypeOK
<1>7. HandlesKept BY DEF TreeDisconnect, HandlesKept
<1> QED BY <1>1, <1>2, <1>3, <1>6, <1>7 DEF Takes

\* A handle that is listed and whose lock nobody holds has its key's entry, or no
\* key; so has one that is being closed.
LEMMA EntryIsOwn ==
    ASSUME Shape, HandleInv, NEW o \in Opens, Listed(o),
           \A g \in Goroutines : job[g].at = "reregister" => job[g].on # o
    PROVE  /\ hnd[o].key # None => hnd[o].key \in Keys /\ entry[hnd[o].key] = [open |-> o,
                state |-> "attached"]
           /\ \A k \in Keys : entry[k].open = o <=> hnd[o].key = k
<1>0. Fields BY FieldsNow
<1>1. hnd[o].key # None => hnd[o].key \in Keys /\ entry[hnd[o].key] = [open |-> o,
        state |-> "attached"]
  BY <1>0 DEF HandleInv, KeysMatch, Fields
<1>2. \A k \in Keys : entry[k].open = o => hnd[o].key = k
  BY <1>0, NonesApart DEF HandleInv, KeysMatch, Fields, NoneApart
<1>3. \A k \in Keys : hnd[o].key = k => entry[k].open = o BY <1>1, NonesApart DEF NoneApart
<1> QED BY <1>1, <1>2, <1>3

\* The kind of ReleaseOpen.
LEMMA ReleaseOpenIs ==
    ASSUME SessInv, HandleInv, NEW g \in Goroutines, NEW o \in Opens, ReleaseOpen(g, o)
    PROVE  Releases(g, job[g].at, job[g].conn, job[g].sess, o)
<1>0. Shape BY DEF SessInv
<1>1. Goes(g, job[g].at, job[g].conn, job[g].sess, None, "none", job[g].batch \ {o})
  BY <1>0, ReleaseOpenGoes
<1>2. Owes(g, o) BY DEF ReleaseOpen, Owes
<1>3. \A h \in Goroutines : job[h].on = o => job[h].lk = "none" BY DEF ReleaseOpen, Unheld
<1>4. \A h \in Goroutines : job[h].at = "reregister" => job[h].on # o
  BY <1>3 DEF HandleInv, Locking
<1>5. Listed(o) BY DEF ReleaseOpen, Listed
<1>6. \A k \in Keys : entry[k].open = o <=> hnd[o].key = k BY <1>0, <1>4, <1>5, EntryIsOwn
<1>7. \A k \in Keys : entry'[k] = IF entry[k].open = o THEN NoEntry ELSE entry[k]
  BY <1>6 DEF ReleaseOpen, dispose
<1>8. hnd'[o] = NoHandle /\ OthersKept(o)
    BY <1>0 DEF ReleaseOpen, dispose, OthersKept, Shape, TypeOK
<1>9. opens' = opens BY DEF ReleaseOpen, sessVars
<1> QED BY <1>1, <1>2, <1>3, <1>7, <1>8, <1>9 DEF Releases

\* The kind of CloseHandle.
LEMMA CloseHandleIs ==
    ASSUME SessInv, HandleInv, NEW w \in Workers, CloseHandle(w)
    PROVE  /\ Releases(w, "frame", job[w].conn, None, job[w].on)
           /\ job[w].on \in Opens /\ w \in Goroutines
<1> DEFINE o == job[w].on
<1>0. Shape /\ w \in Goroutines /\ job[w].at = "closing" BY DEF SessInv, Goroutines, CloseHandle
<1>1. o \in Opens /\ job[w].batch = {} BY <1>0, OnTyped DEF OnAts, Shape, Rows, WorkerRow
<1>2. Goes(w, "frame", job[w].conn, None, None, "none", {}) BY <1>0, CloseHandleGoes
<1>3. Owes(w, o) /\ Listed(o) BY <1>0 DEF Owes, Listed, DutyAts
<1>4. \A h \in Goroutines : h # w /\ job[h].on = o => job[h].lk = "none"
  BY <1>0, <1>1, NonesApart DEF HandleInv, Locking, NoneApart
<1>5. \A h \in Goroutines : job[h].at = "reregister" => job[h].on # o
  BY <1>0, <1>4 DEF HandleInv, Locking
<1>6. \A k \in Keys : entry[k].open = o <=> hnd[o].key = k BY <1>0, <1>1, <1>3, <1>5, EntryIsOwn
<1>7. \A k \in Keys : entry'[k] = IF entry[k].open = o THEN NoEntry ELSE entry[k]
  BY <1>6 DEF CloseHandle, dispose
<1>8. hnd'[o] = NoHandle /\ OthersKept(o)
  BY <1>0, <1>1 DEF CloseHandle, dispose, OthersKept, Shape, TypeOK
<1>9. opens' = opens BY DEF CloseHandle, sessVars
<1> QED BY <1>0, <1>1, <1>2, <1>3, <1>4, <1>7, <1>8, <1>9 DEF Releases

\* A handle that never was published, or was reclaimed, is released by the
\* goroutine that has it, and has no entry.
LEMMA PrivateReleased ==
    ASSUME SessInv, HandleInv, NEW w \in Workers, NEW o \in Opens, job[w].on = o,
           job[w].at \in {"built", "reclaimed", "reopened"},
           Goes(w, "frame", job[w].conn, None, None, "none", {}),
           releaseOpen(o), entry' = entry, opens' = opens
    PROVE  Releases(w, "frame", job[w].conn, None, o)
<1>0. Shape /\ w \in Goroutines BY DEF SessInv, Goroutines
<1>1. job[w].batch = {} BY <1>0 DEF Shape, Rows, WorkerRow
<1>2. Owes(w, o) BY DEF Owes, DutyAts
<1>3. \A h \in Goroutines : job[h].on = o => h = w BY <1>0 DEF HandleInv, Apart
<1>4. \A k \in Keys : entry[k].open # o BY <1>0 DEF HandleInv, KeysMatch
<1>5. hnd'[o] = NoHandle /\ OthersKept(o) BY <1>0 DEF releaseOpen, OthersKept, Shape, TypeOK
<1> QED BY <1>1, <1>2, <1>3, <1>4, <1>5 DEF Releases

\* The kind of ReleaseConnOpen.
LEMMA ReleaseConnOpenIs ==
    ASSUME SessInv, HandleInv, NEW c \in Conns, NEW o \in Opens, ReleaseConnOpen(c, o)
    PROVE  \/ Releases(c, "relConn", c, job[c].sess, o)
           \/ o \in Dirs /\ Abandons(c, job[c].sess, o)
           \/ \E k \in Keys : Detaches(c, job[c].sess, o, k)
<1> DEFINE k == hnd[o].key
<1>0. Shape /\ c \in Goroutines /\ job[c].at = "relConn" /\ o \in job[c].batch
  BY DEF SessInv, Goroutines, ReleaseConnOpen
<1>1. Goes(c, "relConn", c, job[c].sess, None, "none", job[c].batch \ {o})
  BY <1>0, ReleaseConnOpenGoes
<1>2. Owes(c, o) /\ Listed(o) BY <1>0 DEF Owes, Listed
<1>3. \A h \in Goroutines : job[h].on = o => job[h].lk = "none" BY DEF ReleaseConnOpen, Unheld
<1>4. \A h \in Goroutines : job[h].at = "reregister" => job[h].on # o
  BY <1>3 DEF HandleInv, Locking
<1>5. /\ k # None => k \in Keys /\ entry[k] = [open |-> o, state |-> "attached"]
      /\ \A l \in Keys : entry[l].open = o <=> k = l
  BY <1>0, <1>2, <1>4, EntryIsOwn
<1>6. opens' = opens BY DEF ReleaseConnOpen, sessVars
<1>7. CASE k = None
  <2>1. hnd' = [hnd EXCEPT ![o] = NoHandle] /\ entry' = entry
    BY <1>7 DEF ReleaseConnOpen, Has, releaseOpen
  <2>2. hnd'[o] = NoHandle /\ OthersKept(o) BY <1>0, <2>1 DEF OthersKept, Shape, TypeOK
  <2>3. \A l \in Keys : entry[l].open # o BY <1>5, <1>7, NonesApart DEF NoneApart
  <2> QED BY <1>0, <1>1, <1>2, <1>3, <1>6, <2>1, <2>2, <2>3 DEF Releases
<1>8. CASE k # None /\ hnd[o].fd = "closed"
  <2>1. ~Reclaimed(o) BY <1>0, <1>2 DEF HandleInv, OwnedOnce, Reclaimed, Owes, DutyAts
  <2>2. o \in Dirs BY <1>0, <1>2, <1>8, <2>1 DEF HandleInv, Holdings, Owned
  <2>3. HandlesKept BY <1>8 DEF ReleaseConnOpen, HandlesKept
  <2> QED BY <1>0, <1>1, <1>6, <2>2, <2>3 DEF Abandons
<1>9. CASE k # None /\ hnd[o].fd = "open"
  <2>1. Has(k) BY <1>5, <1>9 DEF Has
  <2>2. entry' = [entry EXCEPT ![k].state = "detached"] /\ hnd' = hnd
    BY <1>9, <2>1 DEF ReleaseConnOpen
  <2>3. entry'[k].open = o /\ entry'[k].state = "detached" /\ OtherKeysKept(k)
    BY <1>0, <1>5, <1>9, <2>2 DEF OtherKeysKept, Shape, TypeOK
  <2> QED BY <1>0, <1>1, <1>5, <1>6, <1>9, <2>2, <2>3 DEF Detaches
<1>10. hnd[o].fd \in {"open", "closed"} BY <1>0 DEF Shape, TypeOK, Handle
<1> QED BY <1>7, <1>8, <1>9, <1>10

\* CREATE and reconnect.
LEMMA BuildOpenIs ==
    ASSUME SessInv, NEW w \in Workers, NEW o \in Opens, NEW t \in Trees, BuildOpen(w, o, t)
    PROVE  Builds(w, o, t)
<1>0. Shape /\ job[w].at = "message" /\ Fresh(o) BY DEF SessInv, BuildOpen
<1>1. Goes(w, "built", job[w].conn, job[w].sess, o, "none", {}) /\ job'[w].tree = t
  BY <1>0, BuildOpenGoes
<1>2. hnd \in [Opens -> Handle] BY <1>0 DEF Shape, TypeOK
<1>3. /\ hnd'[o] = [NoHandle EXCEPT !.tree = t,
                                    !.fd = IF o \in Dirs THEN "closed" ELSE "open",
                                    !.share = IF o \in Dirs THEN "none" ELSE "held"]
      /\ OthersKept(o)
  BY <1>2 DEF BuildOpen, OthersKept
<1>4. /\ hnd'[o].tree = t /\ hnd'[o].key = None
      /\ hnd'[o].fd = IF o \in Dirs THEN "closed" ELSE "open"
      /\ hnd'[o].share = IF o \in Dirs THEN "none" ELSE "held"
  BY <1>3 DEF NoHandle
<1>5. entry' = entry /\ opens' = opens BY DEF BuildOpen, sessVars
<1> QED BY <1>0, <1>1, <1>3, <1>4, <1>5 DEF Builds

\* The kind of Reclaim.
LEMMA ReclaimIs ==
    ASSUME SessInv, NEW w \in Workers, NEW k \in Keys, NEW t \in Trees, Reclaim(w, k, t)
    PROVE  entry[k].open \in Opens /\ Reclaims(w, entry[k].open, k, t)
<1> DEFINE o == entry[k].open
<1>0. Shape /\ job[w].at = "message" /\ entry[k].state = "detached" BY DEF SessInv, Reclaim
<1>1. /\ Goes(w, "reclaimed", job[w].conn, job[w].sess, o, "none", {})
      /\ job'[w].tree = t /\ job'[w].key = k /\ o \in Opens
  BY <1>0, ReclaimGoes
<1>2. entry'[k] = NoEntry /\ OtherKeysKept(k)
  BY <1>0 DEF Reclaim, OtherKeysKept, Shape, TypeOK
<1>3. hnd' = [hnd EXCEPT ![o].fd = "closed"] BY DEF Reclaim
<1>4. /\ hnd'[o].fd = "closed" /\ hnd'[o].share = hnd[o].share /\ hnd'[o].tree = hnd[o].tree
      /\ hnd'[o].key = hnd[o].key /\ hnd'[o].fileID = hnd[o].fileID
      /\ OthersKept(o)
  BY <1>0, <1>1, <1>3 DEF OthersKept, Shape, TypeOK, Handle
<1>5. opens' = opens BY DEF Reclaim, sessVars
<1> QED BY <1>0, <1>1, <1>2, <1>4, <1>5 DEF Reclaims

\* The kind of Reopen.
LEMMA ReopenIs ==
    ASSUME SessInv, NEW w \in Workers, NEW n \in Opens, Reopen(w, n)
    PROVE  job[w].on \in Opens /\ Reopens(w, job[w].on, n)
<1> DEFINE o == job[w].on
<1>0. Shape /\ job[w].at = "reclaimed" /\ Fresh(n) /\ (n \in Dirs <=> o \in Dirs)
  BY DEF SessInv, Reopen
<1>1. /\ Goes(w, "reopened", job[w].conn, job[w].sess, n, "none", {})
      /\ job'[w].tree = job[w].tree /\ job'[w].key = job[w].key
  BY <1>0, ReopenGoes
<1>2. o \in Opens /\ o # n /\ job[w].tree \in Trees
  BY <1>0, OnTyped DEF OnAts, Fresh, Shape, Rows, WorkerRow, Goroutines
<1>3. hnd \in [Opens -> Handle] BY <1>0 DEF Shape, TypeOK
<1>4. hnd'[o] = NoHandle BY <1>2, <1>3 DEF Reopen
<1>5. hnd'[n] = [fd |-> IF n \in Dirs THEN "closed" ELSE "open", share |-> hnd[o].share,
                 tree |-> job[w].tree, key |-> job[w].key, fileID |-> "known"]
  BY <1>2, <1>3 DEF Reopen
<1>6. \A p \in Opens : p # o /\ p # n => hnd'[p] = hnd[p] BY <1>2, <1>3 DEF Reopen
<1>7. /\ hnd'[n].fd = IF n \in Dirs THEN "closed" ELSE "open"
      /\ hnd'[n].share = hnd[o].share /\ hnd'[n].tree = job[w].tree
      /\ hnd'[n].key = job[w].key /\ hnd'[n].fileID = "known"
  BY <1>5
<1>8. entry' = entry /\ opens' = opens BY DEF Reopen, sessVars
<1> QED BY <1>0, <1>1, <1>2, <1>4, <1>6, <1>7, <1>8 DEF Reopens

\* The kind of ReopenFails.
LEMMA ReopenFailsIs ==
    ASSUME SessInv, HandleInv, NEW w \in Workers, ReopenFails(w)
    PROVE  job[w].on \in Opens /\ Releases(w, "frame", job[w].conn, None, job[w].on)
<1>0. Shape /\ job[w].at = "reclaimed" BY DEF SessInv, ReopenFails
<1>1. Goes(w, "frame", job[w].conn, None, None, "none", {}) BY <1>0, ReopenFailsGoes
<1>2. job[w].on \in Opens BY <1>0, OnTyped DEF OnAts
<1>3. releaseOpen(job[w].on) /\ entry' = entry /\ opens' = opens BY DEF ReopenFails, sessVars
<1> QED BY <1>0, <1>1, <1>2, <1>3, PrivateReleased

\* The kind of Publish.
LEMMA PublishIs ==
    ASSUME SessInv, HandleInv, NEW w \in Workers, Publish(w)
    PROVE  /\ job[w].on \in Opens /\ job[w].sess \in Sessions
           /\ \/ Releases(w, "frame", job[w].conn, None, job[w].on)
              \/ Publishes(w, "published", job[w].sess, job[w].on)
<1> DEFINE o == job[w].on
           s == job[w].sess
<1>0. Shape /\ job[w].at = "built" /\ entry' = entry BY DEF SessInv, Publish
<1>1. o \in Opens /\ s \in Sessions
  BY <1>0, OnTyped DEF OnAts, Shape, Rows, WorkerRow, MessageAts
<1>2. CASE /\ Goes(w, "published", job[w].conn, s, o, "exclusive", {})
           /\ job'[w].key = job[w].key
           /\ opens' = [opens EXCEPT ![s] = @ \cup {o}] /\ hnd' = hnd
  <2>1. opens'[s] = opens[s] \cup {o} /\ \A r \in Sessions : r # s => opens'[r] = opens[r]
    BY <1>0, <1>1, <1>2 DEF Shape, TypeOK
  <2> QED BY <1>0, <1>1, <1>2, <2>1 DEF Publishes, HandlesKept
<1>3. CASE /\ Goes(w, "frame", job[w].conn, None, None, "none", {})
           /\ opens' = opens /\ releaseOpen(o)
  BY <1>0, <1>1, <1>3, PrivateReleased
<1> QED BY <1>0, <1>2, <1>3, PublishGoes

\* The kind of PublishReclaimed.
LEMMA PublishReclaimedIs ==
    ASSUME SessInv, HandleInv, NEW w \in Workers, PublishReclaimed(w)
    PROVE  /\ job[w].on \in Opens /\ job[w].sess \in Sessions
           /\ \/ Releases(w, "frame", job[w].conn, None, job[w].on)
              \/ Publishes(w, "reregister", job[w].sess, job[w].on)
<1> DEFINE o == job[w].on
           s == job[w].sess
<1>0. Shape /\ job[w].at = "reopened" /\ entry' = entry BY DEF SessInv, PublishReclaimed
<1>1. o \in Opens /\ s \in Sessions
  BY <1>0, OnTyped DEF OnAts, Shape, Rows, WorkerRow, MessageAts
<1>2. CASE /\ Goes(w, "reregister", job[w].conn, s, o, "exclusive", {})
           /\ job'[w].key = job[w].key
           /\ opens' = [opens EXCEPT ![s] = @ \cup {o}] /\ hnd' = hnd
  <2>1. opens'[s] = opens[s] \cup {o} /\ \A r \in Sessions : r # s => opens'[r] = opens[r]
    BY <1>0, <1>1, <1>2 DEF Shape, TypeOK
  <2> QED BY <1>0, <1>1, <1>2, <2>1 DEF Publishes, HandlesKept
<1>3. CASE /\ Goes(w, "frame", job[w].conn, None, None, "none", {})
           /\ opens' = opens /\ releaseOpen(o)
  BY <1>0, <1>1, <1>3, PrivateReleased
<1> QED BY <1>0, <1>2, <1>3, PublishReclaimedGoes

\* Register, of a grant or after a reconnect.
LEMMA RegisterIs ==
    ASSUME Shape, NEW w \in Workers, NEW k \in Keys, NEW o \in Opens, job[w].on = o,
           job[w].at \in {"published", "reregister"},
           Goes(w, "frame", job[w].conn, None, None, "none", {}),
           Register(o, k), opens' = opens
    PROVE  StaysPlain(w, o) \/ Registers(w, o, k)
<1>1. CASE entry[k].state = "attached"
  <2>1. hnd' = [hnd EXCEPT ![o].key = None] /\ entry' = entry BY <1>1 DEF Register
  <2>2. hnd'[o].key = None /\ SameHandle(o) /\ OthersKept(o)
    BY <2>1 DEF SameHandle, OthersKept, Shape, TypeOK, Handle
  <2> QED BY <2>1, <2>2 DEF StaysPlain
<1>2. CASE entry[k].state # "attached"
  <2>1. hnd'[o] = [hnd[o] EXCEPT !.key = k] BY <1>2 DEF Register
  <2>2. hnd'[o].key = k /\ SameHandle(o) BY <2>1 DEF SameHandle, Shape, TypeOK, Handle
  <2>3. \A p \in Opens : p # o => hnd'[p] = IF p = entry[k].open THEN NoHandle ELSE hnd[p]
    BY <1>2 DEF Register
  <2>4. entry'[k] = [open |-> o, state |-> "attached"] /\ OtherKeysKept(k)
    BY <1>2 DEF Register, OtherKeysKept, Shape, TypeOK
  <2> QED BY <1>2, <2>2, <2>3, <2>4 DEF Registers
<1> QED BY <1>1, <1>2

\* The kind of GrantDurable.
LEMMA GrantDurableIs ==
    ASSUME SessInv, NEW w \in Workers, NEW k \in Keys, GrantDurable(w, k)
    PROVE  job[w].on \in Opens /\ (StaysPlain(w, job[w].on) \/ Registers(w, job[w].on, k))
<1>0. /\ Shape /\ job[w].at = "published" /\ Register(job[w].on, k) /\ opens' = opens
  BY DEF SessInv, GrantDurable, sessVars
<1>1. job[w].on \in Opens BY <1>0, OnTyped DEF OnAts
<1>2. Goes(w, "frame", job[w].conn, None, None, "none", {}) BY <1>0, GrantDurableGoes
<1> QED BY <1>0, <1>1, <1>2, RegisterIs

\* The kind of Reregister.
LEMMA ReregisterIs ==
    ASSUME SessInv, NEW w \in Workers, Reregister(w)
    PROVE  /\ job[w].on \in Opens /\ job[w].key \in Keys
           /\ StaysPlain(w, job[w].on) \/ Registers(w, job[w].on, job[w].key)
<1>0. Shape /\ job[w].at = "reregister" /\ Register(job[w].on, job[w].key) /\ opens' = opens
  BY DEF SessInv, Reregister, sessVars
<1>1. job[w].on \in Opens /\ job[w].key \in Keys
  BY <1>0, OnTyped DEF OnAts, Shape, Rows, WorkerRow
<1>2. Goes(w, "frame", job[w].conn, None, None, "none", {}) BY <1>0, ReregisterGoes
<1> QED BY <1>0, <1>1, <1>2, RegisterIs

\* A message that names a handle.
LEMMA LookupIs ==
    ASSUME SessInv, NEW w \in Workers, NEW o \in Opens, NEW cmd \in {"READ", "OTHER", "CLOSE"},
           Lookup(w, o, cmd)
    PROVE  LooksUp(w, o)
<1>0. Shape /\ job[w].at = "message" /\ o \in opens[job[w].sess] BY DEF SessInv, Lookup
<1>1. Goes(w, "lookup", job[w].conn, job[w].sess, o, "none", {}) BY <1>0, LookupGoes
<1>2. job[w].sess \in Sessions BY <1>0 DEF Shape, Rows, WorkerRow, MessageAts
<1> QED BY <1>0, <1>1, <1>2 DEF LooksUp, Lookup, HandlesKept, sessVars

\* The kind of LockOpen.
LEMMA LockOpenIs ==
    ASSUME SessInv, NEW w \in Workers, LockOpen(w)
    PROVE  job[w].on \in Opens /\ \E l \in {"shared", "exclusive"} : Locks(w, job[w].on, l)
<1>0. Shape /\ job[w].at = "lookup" BY DEF SessInv, LockOpen
<1>1. PICK l \in {"shared", "exclusive"} :
           /\ Goes(w, "locked", job[w].conn, job[w].sess, job[w].on, l, {})
           /\ job'[w].cmd = job[w].cmd
           /\ \/ l = "shared" /\ job[w].cmd = "READ" /\ NotExclusive(job[w].on)
              \/ l = "exclusive" /\ Unheld(job[w].on)
  BY <1>0, LockOpenGoes
<1>2. job[w].on \in Opens BY <1>0, OnTyped DEF OnAts
<1>3. opens' = opens /\ HandlesKept BY DEF LockOpen, HandlesKept, sessVars
<1>4. Locks(w, job[w].on, l) BY <1>0, <1>1, <1>3 DEF Locks
<1> QED BY <1>2, <1>4

\* The kind of HandlerFinds.
LEMMA HandlerFindsIs ==
    ASSUME SessInv, NEW w \in Workers, HandlerFinds(w)
    PROVE  /\ job[w].on \in Opens /\ job[w].sess \in Sessions
           /\ Uses(w, job[w].on) \/ Closes(w, job[w].on, job[w].sess)
<1> DEFINE o == job[w].on
           s == job[w].sess
<1>0. Shape /\ job[w].at = "locked" /\ Found(w, o) BY DEF SessInv, HandlerFinds
<1>1. o \in Opens /\ s \in Sessions
  BY <1>0, OnTyped DEF OnAts, Shape, Rows, WorkerRow, MessageAts
<1>2. HandlesKept BY DEF HandlerFinds, HandlesKept
<1>3. o \in opens[s] BY <1>0 DEF Found
<1>4. CASE Goes(w, "using", job[w].conn, s, o, job[w].lk, {}) /\ opens' = opens
  BY <1>0, <1>1, <1>2, <1>3, <1>4 DEF Uses
<1>5. CASE /\ job[w].cmd = "CLOSE"
           /\ Goes(w, "closing", job[w].conn, s, o, job[w].lk, {})
           /\ opens' = [opens EXCEPT ![s] = @ \ {o}]
  <2>1. opens'[s] = opens[s] \ {o} /\ \A r \in Sessions : r # s => opens'[r] = opens[r]
    BY <1>0, <1>1, <1>5 DEF Shape, TypeOK
  <2> QED BY <1>0, <1>1, <1>2, <1>3, <1>5, <2>1 DEF Closes
<1> QED BY <1>0, <1>1, <1>4, <1>5, FoundGoes

\* The one step that gets a handle without its lock sets the history variable.
LEMMA UnlockedShows ==
    ASSUME Shape, NEW w \in Workers, NEW o \in Opens, HandlerFindsUnlocked(w, o)
    PROVE  unlocked'
<1>1. PICK at \in {"using", "closing"} : becomes(w, [job[w] EXCEPT !.at = at, !.on = o])
  BY DEF HandlerFindsUnlocked, Found
<1>2. [job[w] EXCEPT !.at = at, !.on = o].at = at
  BY DEF Shape, TypeOK, Job, Goroutines
<1>3. job[w].at = "missed" BY DEF HandlerFindsUnlocked
<1> QED BY <1>1, <1>2, <1>3 DEF becomes

\* The expiry of a durable handle.
LEMMA DeadlinePassesIs ==
    ASSUME SessInv, NEW k \in Keys, DeadlinePasses(k)
    PROVE  Lapses(k)
<1>0. Shape /\ entry' = [entry EXCEPT ![k].state = "expired"] BY DEF SessInv, DeadlinePasses
<1>1. entry'[k].open = entry[k].open /\ entry'[k].state = "expired" /\ OtherKeysKept(k)
  BY <1>0 DEF OtherKeysKept, Shape, TypeOK, Entry, NoEntry, DeadlinePasses
<1> QED BY <1>1 DEF Lapses, DeadlinePasses, sessVars

\* The kind of Expire.
LEMMA ExpireIs ==
    ASSUME SessInv, NEW k \in Keys, Expire(k)
    PROVE  entry[k].open \in Opens /\ Expires(k, entry[k].open)
<1> DEFINE o == entry[k].open
<1>0. Shape /\ entry[k].state = "expired" BY DEF SessInv, Expire
<1>1. o \in Opens BY <1>0 DEF Shape, TypeOK, Entry, NoEntry
<1>2. hnd'[o] = NoHandle /\ OthersKept(o)
  BY <1>0, <1>1 DEF Expire, releaseOpen, OthersKept, Shape, TypeOK
<1>3. entry'[k] = NoEntry /\ OtherKeysKept(k) BY <1>0 DEF Expire, OtherKeysKept, Shape, TypeOK
<1>4. job' = job /\ opens' = opens BY DEF Expire, sessVars
<1> QED BY <1>0, <1>1, <1>2, <1>3, <1>4 DEF Expires

-----------------------------------------------------------------------------
(* Every step preserves the invariant about handles, as long as no request   *)
(* gets a handle without its lock.                                         *)

\* The steps that put a handle into a session's map.
Publication == \E w \in Workers : Publish(w) \/ PublishReclaimed(w)

\* Each action is of one of the kinds, or of one of two.
LEMMA HandleStep ==
    ASSUME SessInv, Shape', HandleInv, ~unlocked', Next
    PROVE  HandleInv' /\ (ListedKept \/ Publication)
<1>0. NoneApart /\ Fields /\ Fields' /\ Shape BY FieldsNow, FieldsNext, NonesApart DEF SessInv
<1>1. ASSUME NEW c \in Conns, Accept(c)
      PROVE  HandleInv' /\ (ListedKept \/ Publication)
  <2>1. Goes(c, "reading", c, None, None, "none", {}) BY <1>0, <1>1, AcceptGoes
  <2>2. c \in Goroutines /\ job[c].batch = {} /\ job[c].at \notin DutyAts \cup {"reregister"}
    BY <1>0, <1>1 DEF Accept, Shape, Rows, ConnRow, Goroutines, DutyAts
  <2>3. LetsGo(c, "reading", c, None)
    BY <1>1, <2>1, <2>2 DEF LetsGo, Accept, HandlesKept, sessVars
  <2> QED BY <1>0, <2>2, <2>3, LetsGoSafe
<1>2. ASSUME NEW c \in Conns, NEW w \in Workers, Submit(c, w)
      PROVE  HandleInv' /\ (ListedKept \/ Publication)
  <2>1. Goes(w, "frame", c, None, None, "none", {}) BY <1>0, <1>2, SubmitGoes
  <2>2. w \in Goroutines /\ job[w].batch = {} /\ job[w].at \notin DutyAts \cup {"reregister"}
    BY <1>0, <1>2 DEF Submit, Shape, Rows, WorkerRow, Goroutines, DutyAts
  <2>3. LetsGo(w, "frame", c, None)
    BY <1>2, <2>1, <2>2 DEF LetsGo, Submit, HandlesKept, sessVars
  <2> QED BY <1>0, <2>2, <2>3, LetsGoSafe
<1>3. ASSUME NEW w \in Workers, EndFrame(w)
      PROVE  HandleInv' /\ (ListedKept \/ Publication)
  <2>1. Goes(w, "free", None, None, None, "none", {}) BY <1>0, <1>3, EndFrameGoes
  <2>2. w \in Goroutines /\ job[w].batch = {} /\ job[w].at \notin DutyAts \cup {"reregister"}
    BY <1>0, <1>3 DEF EndFrame, Shape, Rows, WorkerRow, Goroutines, DutyAts
  <2>3. LetsGo(w, "free", None, None)
    BY <1>3, <2>1, <2>2 DEF LetsGo, EndFrame, HandlesKept, sessVars
  <2> QED BY <1>0, <2>2, <2>3, LetsGoSafe
<1>4. ASSUME NEW w \in Workers, NEW s \in Sessions, Dispatch(w, s)
      PROVE  HandleInv' /\ (ListedKept \/ Publication)
  <2>1. Goes(w, "message", job[w].conn, s, None, "none", {}) BY <1>0, <1>4, DispatchGoes
  <2>2. w \in Goroutines /\ job[w].batch = {} /\ job[w].at \notin DutyAts \cup {"reregister"}
    BY <1>0, <1>4 DEF Dispatch, Shape, Rows, WorkerRow, Goroutines, DutyAts
  <2>3. LetsGo(w, "message", job[w].conn, s)
    BY <1>4, <2>1, <2>2 DEF LetsGo, Dispatch, HandlesKept, sessVars
  <2> QED BY <1>0, <2>2, <2>3, LetsGoSafe
<1>5. ASSUME NEW w \in Workers, Answer(w)
      PROVE  HandleInv' /\ (ListedKept \/ Publication)
  <2>1. Goes(w, "frame", job[w].conn, None, None, "none", {}) BY <1>0, <1>5, AnswerGoes
  <2>2. w \in Goroutines /\ job[w].batch = {} /\ job[w].at \notin DutyAts \cup {"reregister"}
    BY <1>0, <1>5 DEF Answer, Shape, Rows, WorkerRow, Goroutines, DutyAts
  <2>3. LetsGo(w, "frame", job[w].conn, None)
    BY <1>5, <2>1, <2>2 DEF LetsGo, Answer, HandlesKept, sessVars
  <2> QED BY <1>0, <2>2, <2>3, LetsGoSafe
<1>6. ASSUME NEW c \in Conns, LoopEnds(c)
      PROVE  HandleInv' /\ (ListedKept \/ Publication)
  <2>1. Goes(c, "drain", c, None, None, "none", {}) BY <1>0, <1>6, LoopEndsGoes
  <2>2. c \in Goroutines /\ job[c].batch = {} /\ job[c].at \notin DutyAts \cup {"reregister"}
    BY <1>0, <1>6 DEF LoopEnds, Shape, Rows, ConnRow, Goroutines, DutyAts
  <2>3. LetsGo(c, "drain", c, None)
    BY <1>6, <2>1, <2>2 DEF LetsGo, LoopEnds, HandlesKept, sessVars
  <2> QED BY <1>0, <2>2, <2>3, LetsGoSafe
<1>7. ASSUME NEW c \in Conns, TakeConnOpens(c)
      PROVE  HandleInv' /\ (ListedKept \/ Publication)
  BY <1>0, <1>7, TakeConnOpensIs, TakesSafe DEF Goroutines
<1>8. ASSUME NEW c \in Conns, NEW o \in Opens, ReleaseConnOpen(c, o)
      PROVE  HandleInv' /\ (ListedKept \/ Publication)
  BY <1>0, <1>8, ReleaseConnOpenIs, ReleasesSafe, AbandonsSafe, DetachesSafe DEF Goroutines
<1>9. ASSUME NEW c \in Conns, Closed(c)
      PROVE  HandleInv' /\ (ListedKept \/ Publication)
  <2>1. Goes(c, "closed", c, None, None, "none", {}) BY <1>0, <1>9, ClosedGoes
  <2>2. c \in Goroutines /\ job[c].batch = {} /\ job[c].at \notin DutyAts \cup {"reregister"}
    BY <1>0, <1>9 DEF Closed, Shape, Rows, ConnRow, Goroutines, DutyAts
  <2>3. LetsGo(c, "closed", c, None)
    BY <1>9, <2>1, <2>2 DEF LetsGo, Closed, HandlesKept, sessVars
  <2> QED BY <1>0, <2>2, <2>3, LetsGoSafe
<1>10. ASSUME NEW c \in Conns, NEW s \in Sessions, Authenticate(c, s)
      PROVE  HandleInv' /\ (ListedKept \/ Publication)
  <2>1. Goes(c, "auth", c, s, None, "none", {}) BY <1>0, <1>10, AuthenticateGoes
  <2>2. c \in Goroutines /\ job[c].batch = {} /\ job[c].at \notin DutyAts \cup {"reregister"}
    BY <1>0, <1>10 DEF Authenticate, Shape, Rows, ConnRow, Goroutines, DutyAts
  <2>3. LetsGo(c, "auth", c, s)
    BY <1>10, <2>1, <2>2 DEF LetsGo, Authenticate, HandlesKept, sessVars
  <2> QED BY <1>0, <2>2, <2>3, LetsGoSafe
<1>11. ASSUME NEW c \in Conns, IndexSession(c)
      PROVE  HandleInv' /\ (ListedKept \/ Publication)
  <2>1. Goes(c, "setup", c, job[c].sess, None, "none", {}) BY <1>0, <1>11, IndexSessionGoes
  <2>2. c \in Goroutines /\ job[c].batch = {} /\ job[c].at \notin DutyAts \cup {"reregister"}
    BY <1>0, <1>11 DEF IndexSession, Shape, Rows, ConnRow, Goroutines, DutyAts
  <2>3. LetsGo(c, "setup", c, job[c].sess)
    BY <1>11, <2>1, <2>2 DEF LetsGo, IndexSession, HandlesKept, sessVars
  <2> QED BY <1>0, <2>2, <2>3, LetsGoSafe
<1>12. ASSUME NEW c \in Conns, NoPreviousSession(c)
      PROVE  HandleInv' /\ (ListedKept \/ Publication)
  <2>1. Goes(c, "reading", c, None, None, "none", {}) BY <1>0, <1>12, NoPreviousSessionGoes
  <2>2. c \in Goroutines /\ job[c].batch = {} /\ job[c].at \notin DutyAts \cup {"reregister"}
    BY <1>0, <1>12 DEF NoPreviousSession, Shape, Rows, ConnRow, Goroutines, DutyAts
  <2>3. LetsGo(c, "reading", c, None)
    BY <1>12, <2>1, <2>2 DEF LetsGo, NoPreviousSession, HandlesKept, sessVars
  <2> QED BY <1>0, <2>2, <2>3, LetsGoSafe
<1>13. ASSUME NEW c \in Conns, NEW s \in Sessions, Supersede(c, s)
      PROVE  HandleInv' /\ (ListedKept \/ Publication)
  <2>1. Goes(c, "superseding", c, s, None, "none", {}) BY <1>0, <1>13, SupersedeGoes
  <2>2. c \in Goroutines /\ job[c].batch = {} /\ job[c].at \notin DutyAts \cup {"reregister"}
    BY <1>0, <1>13 DEF Supersede, Shape, Rows, ConnRow, Goroutines, DutyAts
  <2>3. LetsGo(c, "superseding", c, s)
    BY <1>13, <2>1, <2>2 DEF LetsGo, Supersede, HandlesKept, sessVars
  <2> QED BY <1>0, <2>2, <2>3, LetsGoSafe
<1>14. ASSUME NEW c \in Conns, RemoveSuperseded(c)
      PROVE  HandleInv' /\ (ListedKept \/ Publication)
  <2>1. Goes(c, "taking", c, job[c].sess, None, "none", {}) BY <1>0, <1>14, RemoveSupersededGoes
  <2>2. c \in Goroutines /\ job[c].batch = {} /\ job[c].at \notin DutyAts \cup {"reregister"}
    BY <1>0, <1>14 DEF RemoveSuperseded, Shape, Rows, ConnRow, Goroutines, DutyAts
  <2>3. LetsGo(c, "taking", c, job[c].sess)
    BY <1>14, <2>1, <2>2 DEF LetsGo, RemoveSuperseded, HandlesKept, sessVars
  <2> QED BY <1>0, <2>2, <2>3, LetsGoSafe
<1>15. ASSUME NEW c \in Conns, TakeSuperseded(c)
      PROVE  HandleInv' /\ (ListedKept \/ Publication)
  BY <1>0, <1>15, TakeSupersededIs, TakesSafe DEF Goroutines
<1>16. ASSUME NEW g \in Goroutines, NEW o \in Opens, ReleaseOpen(g, o)
      PROVE  HandleInv' /\ (ListedKept \/ Publication)
  BY <1>0, <1>16, ReleaseOpenIs, ReleasesSafe
<1>17. ASSUME NEW c \in Conns, SetupAnswered(c)
      PROVE  HandleInv' /\ (ListedKept \/ Publication)
  <2>1. Goes(c, "reading", c, None, None, "none", {}) BY <1>0, <1>17, SetupAnsweredGoes
  <2>2. c \in Goroutines /\ job[c].batch = {} /\ job[c].at \notin DutyAts \cup {"reregister"}
    BY <1>0, <1>17 DEF SetupAnswered, Shape, Rows, ConnRow, Goroutines, DutyAts
  <2>3. LetsGo(c, "reading", c, None)
    BY <1>17, <2>1, <2>2 DEF LetsGo, SetupAnswered, HandlesKept, sessVars
  <2> QED BY <1>0, <2>2, <2>3, LetsGoSafe
<1>18. ASSUME NEW w \in Workers, NEW t \in Trees, TreeConnect(w, t)
      PROVE  HandleInv' /\ (ListedKept \/ Publication)
  <2>1. Goes(w, "frame", job[w].conn, None, None, "none", {}) BY <1>0, <1>18, TreeConnectGoes
  <2>2. w \in Goroutines /\ job[w].batch = {} /\ job[w].at \notin DutyAts \cup {"reregister"}
    BY <1>0, <1>18 DEF TreeConnect, Shape, Rows, WorkerRow, Goroutines, DutyAts
  <2>3. LetsGo(w, "frame", job[w].conn, None)
    BY <1>18, <2>1, <2>2 DEF LetsGo, TreeConnect, HandlesKept, sessVars
  <2> QED BY <1>0, <2>2, <2>3, LetsGoSafe
<1>19. ASSUME NEW w \in Workers, NEW t \in Trees, TreeDisconnect(w, t)
      PROVE  HandleInv' /\ (ListedKept \/ Publication)
  BY <1>0, <1>19, TreeDisconnectIs, TakesSafe DEF Goroutines
<1>20. ASSUME NEW w \in Workers, TreeDisconnected(w)
      PROVE  HandleInv' /\ (ListedKept \/ Publication)
  <2>1. Goes(w, "frame", job[w].conn, None, None, "none", {})
      BY <1>0, <1>20, TreeDisconnectedGoes
  <2>2. w \in Goroutines /\ job[w].batch = {} /\ job[w].at \notin DutyAts \cup {"reregister"}
    BY <1>0, <1>20 DEF TreeDisconnected, Shape, Rows, WorkerRow, Goroutines, DutyAts
  <2>3. LetsGo(w, "frame", job[w].conn, None)
    BY <1>20, <2>1, <2>2 DEF LetsGo, TreeDisconnected, HandlesKept, sessVars
  <2> QED BY <1>0, <2>2, <2>3, LetsGoSafe
<1>21. ASSUME NEW w \in Workers, Logoff(w)
      PROVE  HandleInv' /\ (ListedKept \/ Publication)
  BY <1>0, <1>21, LogoffIs, TakesSafe DEF Goroutines
<1>22. ASSUME NEW w \in Workers, RemoveLoggedOff(w)
      PROVE  HandleInv' /\ (ListedKept \/ Publication)
  <2>1. Goes(w, "unindex", job[w].conn, job[w].sess, None, "none", {})
      BY <1>0, <1>22, RemoveLoggedOffGoes
  <2>2. w \in Goroutines /\ job[w].batch = {} /\ job[w].at \notin DutyAts \cup {"reregister"}
    BY <1>0, <1>22 DEF RemoveLoggedOff, Shape, Rows, WorkerRow, Goroutines, DutyAts
  <2>3. LetsGo(w, "unindex", job[w].conn, job[w].sess)
    BY <1>22, <2>1, <2>2 DEF LetsGo, RemoveLoggedOff, HandlesKept, sessVars
  <2> QED BY <1>0, <2>2, <2>3, LetsGoSafe
<1>23. ASSUME NEW w \in Workers, Unindex(w)
      PROVE  HandleInv' /\ (ListedKept \/ Publication)
  <2>1. Goes(w, "frame", job[w].conn, None, None, "none", {}) BY <1>0, <1>23, UnindexGoes
  <2>2. w \in Goroutines /\ job[w].batch = {} /\ job[w].at \notin DutyAts \cup {"reregister"}
    BY <1>0, <1>23 DEF Unindex, Shape, Rows, WorkerRow, Goroutines, DutyAts
  <2>3. LetsGo(w, "frame", job[w].conn, None)
    BY <1>23, <2>1, <2>2 DEF LetsGo, Unindex, HandlesKept, sessVars
  <2> QED BY <1>0, <2>2, <2>3, LetsGoSafe
<1>24. ASSUME NEW w \in Workers, NEW o \in Opens, NEW t \in Trees, BuildOpen(w, o, t)
      PROVE  HandleInv' /\ (ListedKept \/ Publication)
  BY <1>0, <1>24, BuildOpenIs, BuildsSafe DEF Goroutines
<1>25. ASSUME NEW w \in Workers, Publish(w)
      PROVE  HandleInv' /\ (ListedKept \/ Publication)
  BY <1>0, <1>25, PublishIs, ReleasesSafe, PublishesSafe DEF Goroutines, Publication
<1>26. ASSUME NEW w \in Workers, NEW k \in Keys, GrantDurable(w, k)
      PROVE  HandleInv' /\ (ListedKept \/ Publication)
  BY <1>0, <1>26, GrantDurableIs, StaysPlainSafe, RegistersSafe DEF Goroutines
<1>27. ASSUME NEW w \in Workers, CreateAnswered(w)
      PROVE  HandleInv' /\ (ListedKept \/ Publication)
  <2>1. Goes(w, "frame", job[w].conn, None, None, "none", {}) BY <1>0, <1>27, CreateAnsweredGoes
  <2>2. w \in Goroutines /\ job[w].batch = {} /\ job[w].at \notin DutyAts \cup {"reregister"}
    BY <1>0, <1>27 DEF CreateAnswered, Shape, Rows, WorkerRow, Goroutines, DutyAts
  <2>3. LetsGo(w, "frame", job[w].conn, None)
    BY <1>27, <2>1, <2>2 DEF LetsGo, CreateAnswered, HandlesKept, sessVars
  <2> QED BY <1>0, <2>2, <2>3, LetsGoSafe
<1>28. ASSUME NEW w \in Workers, NEW o \in Opens, NEW cmd \in {"READ", "OTHER", "CLOSE"},
    Lookup(w, o, cmd)
      PROVE  HandleInv' /\ (ListedKept \/ Publication)
  BY <1>0, <1>28, LookupIs, LooksUpSafe DEF Goroutines
<1>29. ASSUME NEW w \in Workers, NEW cmd \in {"READ", "OTHER", "CLOSE"}, LookupMisses(w, cmd)
      PROVE  HandleInv' /\ (ListedKept \/ Publication)
  <2>1. Goes(w, "missed", job[w].conn, job[w].sess, None, "none", {})
      BY <1>0, <1>29, LookupMissesGoes
  <2>2. w \in Goroutines /\ job[w].batch = {} /\ job[w].at \notin DutyAts \cup {"reregister"}
    BY <1>0, <1>29 DEF LookupMisses, Shape, Rows, WorkerRow, Goroutines, DutyAts
  <2>3. LetsGo(w, "missed", job[w].conn, job[w].sess)
    BY <1>29, <2>1, <2>2 DEF LetsGo, LookupMisses, HandlesKept, sessVars
  <2> QED BY <1>0, <2>2, <2>3, LetsGoSafe
<1>30. ASSUME NEW w \in Workers, LockOpen(w)
      PROVE  HandleInv' /\ (ListedKept \/ Publication)
  BY <1>0, <1>30, LockOpenIs, LocksSafe DEF Goroutines
<1>31. ASSUME NEW w \in Workers, HandlerFinds(w)
      PROVE  HandleInv' /\ (ListedKept \/ Publication)
  BY <1>0, <1>31, HandlerFindsIs, UsesSafe, ClosesSafe DEF Goroutines
<1>32. ASSUME NEW w \in Workers, NEW o \in Opens, HandlerFindsUnlocked(w, o)
      PROVE  HandleInv' /\ (ListedKept \/ Publication)
  BY <1>0, <1>32, UnlockedShows
<1>33. ASSUME NEW w \in Workers, HandlerFindsNothing(w)
      PROVE  HandleInv' /\ (ListedKept \/ Publication)
  <2>1. Goes(w, "frame", job[w].conn, None, None, "none", {})
      BY <1>0, <1>33, HandlerFindsNothingGoes
  <2>2. w \in Goroutines /\ job[w].batch = {} /\ job[w].at \notin DutyAts \cup {"reregister"}
    BY <1>0, <1>33 DEF HandlerFindsNothing, Shape, Rows, WorkerRow, Goroutines, DutyAts
  <2>3. LetsGo(w, "frame", job[w].conn, None)
    BY <1>33, <2>1, <2>2 DEF LetsGo, HandlerFindsNothing, HandlesKept, sessVars
  <2> QED BY <1>0, <2>2, <2>3, LetsGoSafe
<1>34. ASSUME NEW w \in Workers, DoneUsing(w)
      PROVE  HandleInv' /\ (ListedKept \/ Publication)
  <2>1. Goes(w, "frame", job[w].conn, None, None, "none", {}) BY <1>0, <1>34, DoneUsingGoes
  <2>2. w \in Goroutines /\ job[w].batch = {} /\ job[w].at \notin DutyAts \cup {"reregister"}
    BY <1>0, <1>34 DEF DoneUsing, Shape, Rows, WorkerRow, Goroutines, DutyAts
  <2>3. LetsGo(w, "frame", job[w].conn, None)
    BY <1>34, <2>1, <2>2 DEF LetsGo, DoneUsing, HandlesKept, sessVars
  <2> QED BY <1>0, <2>2, <2>3, LetsGoSafe
<1>35. ASSUME NEW w \in Workers, CloseHandle(w)
      PROVE  HandleInv' /\ (ListedKept \/ Publication)
  BY <1>0, <1>35, CloseHandleIs, ReleasesSafe DEF Goroutines
<1>36. ASSUME NEW w \in Workers, NEW k \in Keys, NEW t \in Trees, Reclaim(w, k, t)
      PROVE  HandleInv' /\ (ListedKept \/ Publication)
  BY <1>0, <1>36, ReclaimIs, ReclaimsSafe DEF Goroutines
<1>37. ASSUME NEW w \in Workers, ReopenFails(w)
      PROVE  HandleInv' /\ (ListedKept \/ Publication)
  BY <1>0, <1>37, ReopenFailsIs, ReleasesSafe DEF Goroutines
<1>38. ASSUME NEW w \in Workers, NEW o \in Opens, Reopen(w, o)
      PROVE  HandleInv' /\ (ListedKept \/ Publication)
  BY <1>0, <1>38, ReopenIs, ReopensSafe DEF Goroutines
<1>39. ASSUME NEW w \in Workers, PublishReclaimed(w)
      PROVE  HandleInv' /\ (ListedKept \/ Publication)
  BY <1>0, <1>39, PublishReclaimedIs, ReleasesSafe, PublishesSafe DEF Goroutines, Publication
<1>40. ASSUME NEW w \in Workers, Reregister(w)
      PROVE  HandleInv' /\ (ListedKept \/ Publication)
  BY <1>0, <1>40, ReregisterIs, StaysPlainSafe, RegistersSafe DEF Goroutines
<1>41. ASSUME NEW k \in Keys, DeadlinePasses(k)
      PROVE  HandleInv' /\ (ListedKept \/ Publication)
  BY <1>0, <1>41, DeadlinePassesIs, LapsesSafe
<1>42. ASSUME NEW k \in Keys, Expire(k)
      PROVE  HandleInv' /\ (ListedKept \/ Publication)
  BY <1>0, <1>42, ExpireIs, ExpiresSafe
<1> QED BY <1>1, <1>2, <1>3, <1>4, <1>5, <1>6, <1>7, <1>8, <1>9, <1>10, <1>11, <1>12,
    <1>13, <1>14, <1>15, <1>16, <1>17, <1>18, <1>19, <1>20, <1>21, <1>22, <1>23,
    <1>24, <1>25, <1>26, <1>27, <1>28, <1>29, <1>30, <1>31, <1>32, <1>33, <1>34,
    <1>35, <1>36, <1>37, <1>38, <1>39, <1>40, <1>41, <1>42
    DEF Next, Request, MessageStep, TeardownStep

\* A tree is given up with the handles that were opened in it.
LEMMA TreesStay ==
    ASSUME SessInv, Next, NEW r \in Sessions, NEW p \in opens'[r], p \in opens[r],
           hnd[p].tree \in trees[r]
    PROVE  hnd[p].tree \in trees'[r]
<1> USE DEF sessVars
<1>0. Shape /\ trees \in [Sessions -> SUBSET Trees] /\ opens \in [Sessions -> SUBSET Opens]
  BY DEF SessInv, Shape, TypeOK
<1>1. ASSUME NEW c \in Conns, Accept(c)
      PROVE  hnd[p].tree \in trees'[r]
  BY <1>1 DEF Accept
<1>2. ASSUME NEW c \in Conns, NEW w \in Workers, Submit(c, w)
      PROVE  hnd[p].tree \in trees'[r]
  BY <1>2 DEF Submit
<1>3. ASSUME NEW w \in Workers, EndFrame(w)
      PROVE  hnd[p].tree \in trees'[r]
  BY <1>3 DEF EndFrame
<1>4. ASSUME NEW w \in Workers, NEW s \in Sessions, Dispatch(w, s)
      PROVE  hnd[p].tree \in trees'[r]
  BY <1>4 DEF Dispatch
<1>5. ASSUME NEW w \in Workers, Answer(w)
      PROVE  hnd[p].tree \in trees'[r]
  BY <1>5 DEF Answer
<1>6. ASSUME NEW c \in Conns, LoopEnds(c)
      PROVE  hnd[p].tree \in trees'[r]
  BY <1>6 DEF LoopEnds
<1>7. ASSUME NEW c \in Conns, TakeConnOpens(c)
      PROVE  hnd[p].tree \in trees'[r]
  BY <1>7 DEF TakeConnOpens, takeAllOpens
<1>8. ASSUME NEW c \in Conns, NEW o \in Opens, ReleaseConnOpen(c, o)
      PROVE  hnd[p].tree \in trees'[r]
  BY <1>8 DEF ReleaseConnOpen
<1>9. ASSUME NEW c \in Conns, Closed(c)
      PROVE  hnd[p].tree \in trees'[r]
  BY <1>9 DEF Closed
<1>10. ASSUME NEW c \in Conns, NEW s \in Sessions, Authenticate(c, s)
      PROVE  hnd[p].tree \in trees'[r]
  <2>1. CASE s \in table BY <1>10, <2>1 DEF Authenticate
  <2>2. CASE s \notin table
    <3>1. \A g \in Goroutines : job[g].sess # s BY <1>10, <2>2 DEF Authenticate
    <3>2. opens[s] = {} BY <2>2, <3>1 DEF SessInv, Tracked, Taken, Goroutines
    <3> QED BY <1>0, <1>10, <2>2, <3>2 DEF Authenticate
  <2> QED BY <2>1, <2>2
<1>11. ASSUME NEW c \in Conns, IndexSession(c)
      PROVE  hnd[p].tree \in trees'[r]
  BY <1>11 DEF IndexSession
<1>12. ASSUME NEW c \in Conns, NoPreviousSession(c)
      PROVE  hnd[p].tree \in trees'[r]
  BY <1>12 DEF NoPreviousSession
<1>13. ASSUME NEW c \in Conns, NEW s \in Sessions, Supersede(c, s)
      PROVE  hnd[p].tree \in trees'[r]
  BY <1>13 DEF Supersede
<1>14. ASSUME NEW c \in Conns, RemoveSuperseded(c)
      PROVE  hnd[p].tree \in trees'[r]
  BY <1>14 DEF RemoveSuperseded
<1>15. ASSUME NEW c \in Conns, TakeSuperseded(c)
      PROVE  hnd[p].tree \in trees'[r]
  BY <1>15 DEF TakeSuperseded, takeAllOpens
<1>16. ASSUME NEW g \in Goroutines, NEW o \in Opens, ReleaseOpen(g, o)
      PROVE  hnd[p].tree \in trees'[r]
  BY <1>16 DEF ReleaseOpen
<1>17. ASSUME NEW c \in Conns, SetupAnswered(c)
      PROVE  hnd[p].tree \in trees'[r]
  BY <1>17 DEF SetupAnswered
<1>18. ASSUME NEW w \in Workers, NEW t \in Trees, TreeConnect(w, t)
      PROVE  hnd[p].tree \in trees'[r]
  <2>1. job[w].sess \in Sessions
      BY <1>0, <1>18 DEF TreeConnect, Shape, Rows, WorkerRow, MessageAts
  <2> QED BY <1>0, <1>18, <2>1 DEF TreeConnect
<1>19. ASSUME NEW w \in Workers, NEW t \in Trees, TreeDisconnect(w, t)
      PROVE  hnd[p].tree \in trees'[r]
  <2>1. job[w].sess \in Sessions
    BY <1>0, <1>19 DEF TreeDisconnect, Shape, Rows, WorkerRow, MessageAts
  <2>2. r = job[w].sess => hnd[p].tree # t BY <1>0, <1>19, <2>1 DEF TreeDisconnect
  <2> QED BY <1>0, <1>19, <2>1, <2>2 DEF TreeDisconnect
<1>20. ASSUME NEW w \in Workers, TreeDisconnected(w)
      PROVE  hnd[p].tree \in trees'[r]
  BY <1>20 DEF TreeDisconnected
<1>21. ASSUME NEW w \in Workers, Logoff(w)
      PROVE  hnd[p].tree \in trees'[r]
  BY <1>21 DEF Logoff, takeAllOpens
<1>22. ASSUME NEW w \in Workers, RemoveLoggedOff(w)
      PROVE  hnd[p].tree \in trees'[r]
  BY <1>22 DEF RemoveLoggedOff
<1>23. ASSUME NEW w \in Workers, Unindex(w)
      PROVE  hnd[p].tree \in trees'[r]
  BY <1>23 DEF Unindex
<1>24. ASSUME NEW w \in Workers, NEW o \in Opens, NEW t \in Trees, BuildOpen(w, o, t)
      PROVE  hnd[p].tree \in trees'[r]
  BY <1>24 DEF BuildOpen
<1>25. ASSUME NEW w \in Workers, Publish(w)
      PROVE  hnd[p].tree \in trees'[r]
  BY <1>25 DEF Publish
<1>26. ASSUME NEW w \in Workers, NEW k \in Keys, GrantDurable(w, k)
      PROVE  hnd[p].tree \in trees'[r]
  BY <1>26 DEF GrantDurable
<1>27. ASSUME NEW w \in Workers, CreateAnswered(w)
      PROVE  hnd[p].tree \in trees'[r]
  BY <1>27 DEF CreateAnswered
<1>28. ASSUME NEW w \in Workers, NEW o \in Opens, NEW cmd \in {"READ", "OTHER", "CLOSE"},
    Lookup(w, o, cmd)
      PROVE  hnd[p].tree \in trees'[r]
  BY <1>28 DEF Lookup
<1>29. ASSUME NEW w \in Workers, NEW cmd \in {"READ", "OTHER", "CLOSE"}, LookupMisses(w, cmd)
      PROVE  hnd[p].tree \in trees'[r]
  BY <1>29 DEF LookupMisses
<1>30. ASSUME NEW w \in Workers, LockOpen(w)
      PROVE  hnd[p].tree \in trees'[r]
  BY <1>30 DEF LockOpen
<1>31. ASSUME NEW w \in Workers, HandlerFinds(w)
      PROVE  hnd[p].tree \in trees'[r]
  BY <1>31 DEF HandlerFinds
<1>32. ASSUME NEW w \in Workers, NEW o \in Opens, HandlerFindsUnlocked(w, o)
      PROVE  hnd[p].tree \in trees'[r]
  BY <1>32 DEF HandlerFindsUnlocked
<1>33. ASSUME NEW w \in Workers, HandlerFindsNothing(w)
      PROVE  hnd[p].tree \in trees'[r]
  BY <1>33 DEF HandlerFindsNothing
<1>34. ASSUME NEW w \in Workers, DoneUsing(w)
      PROVE  hnd[p].tree \in trees'[r]
  BY <1>34 DEF DoneUsing
<1>35. ASSUME NEW w \in Workers, CloseHandle(w)
      PROVE  hnd[p].tree \in trees'[r]
  BY <1>35 DEF CloseHandle
<1>36. ASSUME NEW w \in Workers, NEW k \in Keys, NEW t \in Trees, Reclaim(w, k, t)
      PROVE  hnd[p].tree \in trees'[r]
  BY <1>36 DEF Reclaim
<1>37. ASSUME NEW w \in Workers, ReopenFails(w)
      PROVE  hnd[p].tree \in trees'[r]
  BY <1>37 DEF ReopenFails
<1>38. ASSUME NEW w \in Workers, NEW o \in Opens, Reopen(w, o)
      PROVE  hnd[p].tree \in trees'[r]
  BY <1>38 DEF Reopen
<1>39. ASSUME NEW w \in Workers, PublishReclaimed(w)
      PROVE  hnd[p].tree \in trees'[r]
  BY <1>39 DEF PublishReclaimed
<1>40. ASSUME NEW w \in Workers, Reregister(w)
      PROVE  hnd[p].tree \in trees'[r]
  BY <1>40 DEF Reregister
<1>41. ASSUME NEW k \in Keys, DeadlinePasses(k)
      PROVE  hnd[p].tree \in trees'[r]
  BY <1>41 DEF DeadlinePasses
<1>42. ASSUME NEW k \in Keys, Expire(k)
      PROVE  hnd[p].tree \in trees'[r]
  BY <1>42 DEF Expire
<1> HIDE DEF sessVars
<1> QED BY <1>1, <1>2, <1>3, <1>4, <1>5, <1>6, <1>7, <1>8, <1>9, <1>10, <1>11, <1>12,
    <1>13, <1>14, <1>15, <1>16, <1>17, <1>18, <1>19, <1>20, <1>21, <1>22, <1>23,
    <1>24, <1>25, <1>26, <1>27, <1>28, <1>29, <1>30, <1>31, <1>32, <1>33, <1>34,
    <1>35, <1>36, <1>37, <1>38, <1>39, <1>40, <1>41, <1>42
    DEF Next, Request, MessageStep, TeardownStep

\* So a CREATE's handle stays on a connected tree.
LEMMA ConnectedStep ==
    ASSUME SessInv, HandleInv, CreatedOnConnectedTree, Next, ListedKept \/ Publication
    PROVE  CreatedOnConnectedTree'
<1>0. Shape BY DEF SessInv
<1>1. CASE ListedKept
  <2> SUFFICES ASSUME NEW s \in Sessions, NEW o \in opens'[s], hnd'[o].fileID = "new"
               PROVE  hnd'[o].tree \in trees'[s]
    BY DEF CreatedOnConnectedTree
  <2>1. o \in opens[s] /\ hnd'[o].tree = hnd[o].tree /\ hnd'[o].fileID = hnd[o].fileID
    BY <1>1 DEF ListedKept
  <2>2. hnd[o].tree \in trees[s] BY <2>1 DEF CreatedOnConnectedTree
  <2> QED BY <2>1, <2>2, TreesStay
<1>2. ASSUME NEW w \in Workers, Publish(w)
      PROVE  CreatedOnConnectedTree'
  <2>1. /\ job[w].on \in Opens /\ job[w].sess \in Sessions
        /\ hnd[job[w].on].tree = job[w].tree /\ trees' = trees
        /\ \A s \in Sessions : job[w].on \notin opens[s]
    BY <1>0, <1>2, OnTyped DEF OnAts, Publish, Shape, Rows, WorkerRow, MessageAts, HandleInv,
        InUse,
       OwnedOnce, Owes, DutyAts, Goroutines
  <2>2. CASE /\ CanPublish(job[w].sess, job[w].tree) /\ hnd' = hnd
             /\ opens' = [opens EXCEPT ![job[w].sess] = @ \cup {job[w].on}]
    BY <1>0, <2>1, <2>2 DEF CanPublish, CreatedOnConnectedTree, Shape, TypeOK
  <2>3. CASE opens' = opens /\ releaseOpen(job[w].on)
    <3>1. \A s \in Sessions : \A o \in opens[s] : hnd'[o] = hnd[o]
      BY <1>0, <2>1, <2>3 DEF releaseOpen, Shape, TypeOK
    <3> QED BY <2>1, <2>3, <3>1 DEF CreatedOnConnectedTree
  <2> QED BY <1>0, <1>2, <2>2, <2>3, PublishGoes
<1>3. ASSUME NEW w \in Workers, PublishReclaimed(w)
      PROVE  CreatedOnConnectedTree'
  <2>1. /\ job[w].on \in Opens /\ job[w].sess \in Sessions
        /\ hnd[job[w].on].fileID = "known" /\ trees' = trees
        /\ \A s \in Sessions : job[w].on \notin opens[s]
    BY <1>0, <1>3, OnTyped DEF OnAts, PublishReclaimed, Shape, Rows, WorkerRow, MessageAts,
        HandleInv,
       InUse, OwnedOnce, Owes, DutyAts, Goroutines
  <2>2. CASE /\ hnd' = hnd
             /\ opens' = [opens EXCEPT ![job[w].sess] = @ \cup {job[w].on}]
    BY <1>0, <2>1, <2>2 DEF CreatedOnConnectedTree, Shape, TypeOK
  <2>3. CASE opens' = opens /\ releaseOpen(job[w].on)
    <3>1. \A s \in Sessions : \A o \in opens[s] : hnd'[o] = hnd[o]
      BY <1>0, <2>1, <2>3 DEF releaseOpen, Shape, TypeOK
    <3> QED BY <2>1, <2>3, <3>1 DEF CreatedOnConnectedTree
  <2> QED BY <1>0, <1>3, <2>2, <2>3, PublishReclaimedGoes
<1> QED BY <1>1, <1>2, <1>3 DEF Publication

\* A request that got a handle without its lock is never forgotten.
LEMMA UnlockedStays == ASSUME Next, unlocked PROVE unlocked'
<1>1. ASSUME NEW c \in Conns, Accept(c) PROVE unlocked'
  BY <1>1 DEF Accept, answered, becomes
<1>2. ASSUME NEW c \in Conns, NEW w \in Workers, Submit(c, w) PROVE unlocked'
  BY <1>2 DEF Submit, answered, becomes
<1>3. ASSUME NEW w \in Workers, EndFrame(w) PROVE unlocked'
  BY <1>3 DEF EndFrame, answered, becomes
<1>4. ASSUME NEW w \in Workers, NEW s \in Sessions, Dispatch(w, s) PROVE unlocked'
  BY <1>4 DEF Dispatch, answered, becomes
<1>5. ASSUME NEW w \in Workers, Answer(w) PROVE unlocked'
  BY <1>5 DEF Answer, answered, becomes
<1>6. ASSUME NEW c \in Conns, LoopEnds(c) PROVE unlocked'
  BY <1>6 DEF LoopEnds, answered, becomes
<1>7. ASSUME NEW c \in Conns, TakeConnOpens(c) PROVE unlocked'
  BY <1>7 DEF TakeConnOpens, answered, becomes
<1>8. ASSUME NEW c \in Conns, NEW o \in Opens, ReleaseConnOpen(c, o) PROVE unlocked'
  BY <1>8 DEF ReleaseConnOpen, answered, becomes
<1>9. ASSUME NEW c \in Conns, Closed(c) PROVE unlocked'
  BY <1>9 DEF Closed, answered, becomes
<1>10. ASSUME NEW c \in Conns, NEW s \in Sessions, Authenticate(c, s) PROVE unlocked'
  BY <1>10 DEF Authenticate, answered, becomes
<1>11. ASSUME NEW c \in Conns, IndexSession(c) PROVE unlocked'
  BY <1>11 DEF IndexSession, answered, becomes
<1>12. ASSUME NEW c \in Conns, NoPreviousSession(c) PROVE unlocked'
  BY <1>12 DEF NoPreviousSession, answered, becomes
<1>13. ASSUME NEW c \in Conns, NEW s \in Sessions, Supersede(c, s) PROVE unlocked'
  BY <1>13 DEF Supersede, answered, becomes
<1>14. ASSUME NEW c \in Conns, RemoveSuperseded(c) PROVE unlocked'
  BY <1>14 DEF RemoveSuperseded, answered, becomes
<1>15. ASSUME NEW c \in Conns, TakeSuperseded(c) PROVE unlocked'
  BY <1>15 DEF TakeSuperseded, answered, becomes
<1>16. ASSUME NEW g \in Goroutines, NEW o \in Opens, ReleaseOpen(g, o) PROVE unlocked'
  BY <1>16 DEF ReleaseOpen, answered, becomes
<1>17. ASSUME NEW c \in Conns, SetupAnswered(c) PROVE unlocked'
  BY <1>17 DEF SetupAnswered, answered, becomes
<1>18. ASSUME NEW w \in Workers, NEW t \in Trees, TreeConnect(w, t) PROVE unlocked'
  BY <1>18 DEF TreeConnect, answered, becomes
<1>19. ASSUME NEW w \in Workers, NEW t \in Trees, TreeDisconnect(w, t) PROVE unlocked'
  BY <1>19 DEF TreeDisconnect, answered, becomes
<1>20. ASSUME NEW w \in Workers, TreeDisconnected(w) PROVE unlocked'
  BY <1>20 DEF TreeDisconnected, answered, becomes
<1>21. ASSUME NEW w \in Workers, Logoff(w) PROVE unlocked'
  BY <1>21 DEF Logoff, answered, becomes
<1>22. ASSUME NEW w \in Workers, RemoveLoggedOff(w) PROVE unlocked'
  BY <1>22 DEF RemoveLoggedOff, answered, becomes
<1>23. ASSUME NEW w \in Workers, Unindex(w) PROVE unlocked'
  BY <1>23 DEF Unindex, answered, becomes
<1>24. ASSUME NEW w \in Workers, NEW o \in Opens, NEW t \in Trees,
    BuildOpen(w, o, t) PROVE unlocked'
  BY <1>24 DEF BuildOpen, answered, becomes
<1>25. ASSUME NEW w \in Workers, Publish(w) PROVE unlocked'
  BY <1>25 DEF Publish, answered, becomes
<1>26. ASSUME NEW w \in Workers, NEW k \in Keys, GrantDurable(w, k) PROVE unlocked'
  BY <1>26 DEF GrantDurable, answered, becomes
<1>27. ASSUME NEW w \in Workers, CreateAnswered(w) PROVE unlocked'
  BY <1>27 DEF CreateAnswered, answered, becomes
<1>28. ASSUME NEW w \in Workers, NEW o \in Opens, NEW cmd \in {"READ", "OTHER", "CLOSE"},
    Lookup(w, o, cmd) PROVE unlocked'
  BY <1>28 DEF Lookup, answered, becomes
<1>29. ASSUME NEW w \in Workers, NEW cmd \in {"READ", "OTHER", "CLOSE"},
    LookupMisses(w, cmd) PROVE unlocked'
  BY <1>29 DEF LookupMisses, answered, becomes
<1>30. ASSUME NEW w \in Workers, LockOpen(w) PROVE unlocked'
  BY <1>30 DEF LockOpen, answered, becomes
<1>31. ASSUME NEW w \in Workers, HandlerFinds(w) PROVE unlocked'
  BY <1>31 DEF HandlerFinds, Found, becomes
<1>32. ASSUME NEW w \in Workers, NEW o \in Opens, HandlerFindsUnlocked(w, o) PROVE unlocked'
  BY <1>32 DEF HandlerFindsUnlocked, Found, becomes
<1>33. ASSUME NEW w \in Workers, HandlerFindsNothing(w) PROVE unlocked'
  BY <1>33 DEF HandlerFindsNothing, answered, becomes
<1>34. ASSUME NEW w \in Workers, DoneUsing(w) PROVE unlocked'
  BY <1>34 DEF DoneUsing, answered, becomes
<1>35. ASSUME NEW w \in Workers, CloseHandle(w) PROVE unlocked'
  BY <1>35 DEF CloseHandle, answered, becomes
<1>36. ASSUME NEW w \in Workers, NEW k \in Keys, NEW t \in Trees,
    Reclaim(w, k, t) PROVE unlocked'
  BY <1>36 DEF Reclaim, answered, becomes
<1>37. ASSUME NEW w \in Workers, ReopenFails(w) PROVE unlocked'
  BY <1>37 DEF ReopenFails, answered, becomes
<1>38. ASSUME NEW w \in Workers, NEW o \in Opens, Reopen(w, o) PROVE unlocked'
  BY <1>38 DEF Reopen, answered, becomes
<1>39. ASSUME NEW w \in Workers, PublishReclaimed(w) PROVE unlocked'
  BY <1>39 DEF PublishReclaimed, answered, becomes
<1>40. ASSUME NEW w \in Workers, Reregister(w) PROVE unlocked'
  BY <1>40 DEF Reregister, answered, becomes
<1>41. ASSUME NEW k \in Keys, DeadlinePasses(k) PROVE unlocked'
  BY <1>41 DEF DeadlinePasses
<1>42. ASSUME NEW k \in Keys, Expire(k) PROVE unlocked'
  BY <1>42 DEF Expire
<1> QED BY <1>1, <1>2, <1>3, <1>4, <1>5, <1>6, <1>7, <1>8, <1>9, <1>10, <1>11, <1>12,
    <1>13, <1>14, <1>15, <1>16, <1>17, <1>18, <1>19, <1>20, <1>21, <1>22, <1>23,
    <1>24, <1>25, <1>26, <1>27, <1>28, <1>29, <1>30, <1>31, <1>32, <1>33, <1>34,
    <1>35, <1>36, <1>37, <1>38, <1>39, <1>40, <1>41, <1>42
    DEF Next, Request, MessageStep, TeardownStep

\* Before the first connection no handle is owned.
LEMMA HandleInit == Init => HandleInv /\ CreatedOnConnectedTree
<1> SUFFICES ASSUME Init PROVE HandleInv /\ CreatedOnConnectedTree
  OBVIOUS
<1>1. \A g \in Goroutines : /\ job[g].on = None /\ job[g].lk = "none" /\ job[g].batch = {}
                            /\ job[g].at \in {"closed", "free"}
  BY DEF Init, Doing
<1>2. /\ \A s \in Sessions : opens[s] = {}
      /\ \A o \in Opens : hnd[o].fd = "closed" /\ hnd[o].share = "none"
      /\ \A k \in Keys : entry[k].open = None /\ entry[k].state = "none"
  BY DEF Init, NoHandle, NoEntry
<1>3. \A o \in Opens : ~Owned(o) /\ ~Listed(o) /\ \A g \in Goroutines : ~Owes(g, o)
  BY <1>1, <1>2, NonesApart DEF Owned, Listed, Owes, Parks, DutyAts, NoneApart
<1>4. Locking BY <1>1 DEF Locking, HeldAts
<1>5. Apart BY <1>1, <1>2 DEF Apart
<1>6. OwnedOnce BY <1>2, <1>3 DEF OwnedOnce
<1>7. KeysMatch BY <1>1, <1>2, <1>3 DEF KeysMatch
<1>8. Holdings BY <1>2, <1>3, NonesApart DEF Holdings, NoneApart
<1>9. InUse BY <1>1, <1>2 DEF InUse
<1>10. CreatedOnConnectedTree BY <1>2 DEF CreatedOnConnectedTree
<1> QED BY <1>4, <1>5, <1>6, <1>7, <1>8, <1>9, <1>10 DEF HandleInv

-----------------------------------------------------------------------------
(* The whole invariant, and the theorems.                                  *)

Inv == SessInv /\ (unlocked \/ (HandleInv /\ CreatedOnConnectedTree))

\* Inv holds in every reachable state.
THEOREM Invariant == Spec => []Inv
<1>1. Init => Inv BY SessInit, HandleInit DEF Inv
<1>2. Inv /\ [Next]_vars => Inv'
  <2> SUFFICES ASSUME Inv, [Next]_vars PROVE Inv'
    OBVIOUS
  <2>1. SessInv /\ SessInv' /\ Shape' BY SessStep DEF Inv, SessInv
  <2>2. CASE Next /\ ~unlocked'
    <3>1. HandleInv /\ CreatedOnConnectedTree BY <2>2, UnlockedStays DEF Inv
    <3>2. HandleInv' /\ (ListedKept \/ Publication) BY <2>1, <2>2, <3>1, HandleStep
    <3>3. CreatedOnConnectedTree' BY <2>1, <2>2, <3>1, <3>2, ConnectedStep
    <3> QED BY <2>1, <3>2, <3>3 DEF Inv
  <2>3. CASE UNCHANGED vars
    <3>1. (HandleInv /\ CreatedOnConnectedTree) => (HandleInv /\ CreatedOnConnectedTree)'
      BY <2>3 DEF vars, HandleInv, Locking, Apart, OwnedOnce, KeysMatch, Holdings, InUse,
          Owned, Owes,
         Parks, Listed, Reclaimed, CreatedOnConnectedTree
    <3> QED BY <2>1, <2>3, <3>1 DEF Inv, vars
  <2>4. CASE unlocked' BY <2>1, <2>4 DEF Inv
  <2> QED BY <2>2, <2>3, <2>4
<1> QED BY <1>1, <1>2, PTL DEF Spec

\* Every variable keeps its type: no goroutine is ever in a phase, or holds a
\* handle, that the code has no place for.
THEOREM TypeCorrect == Spec => []TypeOK
<1>1. Inv => TypeOK BY DEF Inv, SessInv, Shape
<1> QED BY <1>1, Invariant, PTL

\* Owners(o) has a member just when o is owned, and never two.
LEMMA OwnersOf ==
    ASSUME SessInv, HandleInv, NEW o \in Opens
    PROVE  /\ Owned(o) => \E x : Owners(o) = {x}
           /\ ~Owned(o) => Owners(o) = {}
<1> DEFINE S == {s \in Sessions : o \in opens[s]}
           G == {g \in Goroutines : Owes(g, o)}
           K == {k \in Keys : Parks(k, o)}
<1>0. Fields /\ NoneApart BY FieldsNow, NonesApart DEF SessInv
<1>1. Owners(o) = S \cup G \cup K BY DEF Owners, Owes, Parks, DutyAts
<1>2. \A k, l \in Keys : Parks(k, o) /\ Parks(l, o) => k = l
  BY <1>0 DEF HandleInv, KeysMatch, Parks, Fields, NoneApart
<1>3. ASSUME NEW s \in Sessions, o \in opens[s] PROVE S \cup G \cup K = {s}
  BY <1>3 DEF HandleInv, OwnedOnce
<1>4. ASSUME NEW g \in Goroutines, Owes(g, o) PROVE S \cup G \cup K = {g}
  BY <1>4 DEF HandleInv, OwnedOnce
<1>5. ASSUME NEW k \in Keys, Parks(k, o) PROVE S \cup G \cup K = {k}
  BY <1>2, <1>5 DEF HandleInv, OwnedOnce
<1>6. Owned(o) => \E x : S \cup G \cup K = {x} BY <1>3, <1>4, <1>5 DEF Owned
<1>7. ~Owned(o) => S \cup G \cup K = {} BY DEF Owned
<1> HIDE DEF S, G, K
<1> QED BY <1>1, <1>6, <1>7

\* Exactly one party has the duty to release a descriptor or a reservation,
\* and nobody has it for a handle that is gone, for any number of connections,
\* workers, sessions, handles and durable keys (sessionindex.go 101-110).
THEOREM HandlesOwnedOnce == Spec => []OneOwner
<1>1. Inv => OneOwner
  <2> SUFFICES ASSUME SessInv, HandleInv, NEW o \in Opens
               PROVE  /\ hnd[o].fd = "open" \/ hnd[o].share = "held" => Cardinality(Owners(o)) = 1
                      /\ hnd[o] = NoHandle => Owners(o) = {}
    BY DEF Inv, OneOwner
  <2>1. ASSUME hnd[o].fd = "open" \/ hnd[o].share = "held" PROVE Cardinality(Owners(o)) = 1
    <3>1. PICK x : Owners(o) = {x} BY <2>1, OwnersOf DEF HandleInv, Holdings
    <3> QED BY <3>1, FS_Singleton
  <2>2. ASSUME hnd[o] = NoHandle PROVE Owners(o) = {}
    <3>1. hnd[o].tree \notin Trees BY <2>2, NonesApart DEF NoHandle, NoneApart
    <3>2. ~Owned(o) BY <3>1 DEF HandleInv, Holdings
    <3> QED BY <3>2, OwnersOf
  <2> QED BY <2>1, <2>2
<1> QED BY <1>1, Invariant, PTL

\* No descriptor is closed while a request that has its lock reads or writes
\* through it, or a CREATE builds its answer from it (dispatch.go 822-829).
THEOREM UsedWhileOpen == Spec => []NoUseAfterClose
<1>1. Inv => NoUseAfterClose
  <2> SUFFICES ASSUME SessInv, HandleInv, NEW w \in Workers,
                      job[w].at \in {"using", "published", "reregister"}, job[w].on \notin Dirs
               PROVE  hnd[job[w].on].fd = "open"
    BY DEF Inv, NoUseAfterClose, UsedHandlesOpen
  <2>1. Shape /\ w \in Goroutines BY DEF SessInv, Goroutines
  <2>2. job[w].on \in Opens BY <2>1, OnTyped DEF OnAts
  <2>3. \/ \E s \in Sessions : job[w].on \in opens[s]
        \/ \E h \in Goroutines : job[w].on \in job[h].batch
    BY <2>1 DEF HandleInv, InUse
  <2>4. Owned(job[w].on) BY <2>3 DEF Owned, Owes
  <2>5. ~Reclaimed(job[w].on)
    BY <2>1 DEF Reclaimed, HandleInv, Apart
  <2> QED BY <2>2, <2>4, <2>5 DEF HandleInv, Holdings
<1> QED BY <1>1, Invariant, PTL

\* What is gone holds nothing: a dead session lists no handle, a connection that
\* was torn down has left the index and has no handles but those a superseding
\* connection is about to take, and no CREATE leaves a handle on a tree that is
\* no longer connected (session.go 262-273, 319-328).
THEOREM TornDownIsEmpty == Spec => []GoneHoldsNothing
<1>1. Inv => GoneHoldsNothing
  <2> SUFFICES ASSUME Inv PROVE GoneHoldsNothing
    OBVIOUS
  <2>1. DeadSessionEmpty /\ Tracked BY DEF Inv, SessInv
  <2>2. ClosedConnHoldsNothing
    <3> SUFFICES ASSUME NEW c \in Conns, job[c].at = "closed", NEW s \in Sessions, HostOf[s] = c
                 PROVE  /\ s \notin idx
                        /\ opens[s] # {} => Taken(s)
      BY DEF ClosedConnHoldsNothing, SessionsOf, Taken
    <3>1. s \notin idx BY <2>1 DEF Tracked
    <3>2. s \in table => opens[s] = {} BY <2>1 DEF Tracked, DeadSessionEmpty
    <3>3. opens[s] # {} => s \in table \/ Taken(s) BY <2>1 DEF Tracked
    <3> QED BY <3>1, <3>2, <3>3
  <2>3. unlocked \/ CreatedOnConnectedTree BY DEF Inv
  <2> QED BY <2>1, <2>2, <2>3 DEF GoneHoldsNothing
<1> QED BY <1>1, Invariant, PTL

\* The durable table and the handles agree, but for directories: the teardown of a
\* connection passes over a durable directory (it has no descriptor) and leaves its
\* entry attached to a handle nobody owns.
DurableFilesMatchHandles == unlocked \/
    /\ \A k \in Keys : entry[k].state = "attached" =>
            /\ hnd[entry[k].open].key = k
            /\ entry[k].open \in Dirs \/ Owners(entry[k].open) # {}
    /\ \A s \in Sessions : \A o \in opens[s] :
            hnd[o].key # None /\ Unheld(o) =>
                entry[hnd[o].key] = [open |-> o, state |-> "attached"]

\* An attached entry belongs to a handle with its key, which some party owns if it
\* is a file, and a listed durable handle at rest has its entry (durable.go
\* 228-229, 342-344), whatever reconnects, teardowns and expiries race.
THEOREM DurableFilesMatch == Spec => []DurableFilesMatchHandles
<1>1. Inv => DurableFilesMatchHandles
  <2> SUFFICES ASSUME SessInv, HandleInv
               PROVE  /\ \A k \in Keys : entry[k].state = "attached" =>
                             /\ hnd[entry[k].open].key = k
                             /\ entry[k].open \in Dirs \/ Owners(entry[k].open) # {}
                      /\ \A s \in Sessions : \A o \in opens[s] :
                             hnd[o].key # None /\ Unheld(o) =>
                                 entry[hnd[o].key] = [open |-> o, state |-> "attached"]
    BY DEF Inv, DurableFilesMatchHandles
  <2>0. Fields /\ NoneApart BY FieldsNow, NonesApart DEF SessInv
  <2>1. ASSUME NEW k \in Keys, entry[k].state = "attached"
        PROVE  /\ hnd[entry[k].open].key = k
               /\ entry[k].open \in Dirs \/ Owners(entry[k].open) # {}
    <3>1. hnd[entry[k].open].key = k BY <2>1 DEF HandleInv, KeysMatch
    <3>2. entry[k].open \in Opens BY <2>0, <2>1 DEF Fields
    <3>3. entry[k].open \in Dirs \/ Owned(entry[k].open) BY <2>1 DEF HandleInv, InUse
    <3> QED BY <3>1, <3>2, <3>3, OwnersOf
  <2>2. ASSUME NEW s \in Sessions, NEW o \in opens[s], hnd[o].key # None, Unheld(o)
        PROVE  entry[hnd[o].key] = [open |-> o, state |-> "attached"]
    <3>1. o \in Opens /\ Listed(o) BY <2>0 DEF Fields, Listed
    <3>2. \A g \in Goroutines : job[g].at = "reregister" => job[g].on # o
      BY <2>2 DEF Unheld, HandleInv, Locking
    <3> QED BY <2>2, <3>1, <3>2 DEF HandleInv, KeysMatch
  <2> QED BY <2>1, <2>2
<1> QED BY <1>1, Invariant, PTL

\* The same without the exception, where no directory is opened.
THEOREM DurableTableMatches == Dirs = {} => (Spec => []DurableEntriesMatchHandles)
<1> SUFFICES ASSUME Dirs = {} PROVE Spec => []DurableEntriesMatchHandles
  OBVIOUS
<1>1. DurableFilesMatchHandles => DurableEntriesMatchHandles
  BY DEF DurableFilesMatchHandles, DurableEntriesMatchHandles
<1> QED BY <1>1, DurableFilesMatch, PTL
=============================================================================
