----------------------------- MODULE ShareModes -----------------------------
(***************************************************************************)
(* The process-global share-mode table of the server (sharemode.go), the   *)
(* bounded wait of a CREATE that loses the sharing check (sharewait.go),   *)
(* and the life of a file handle as far as the table can see it: the part  *)
(* of handleCreate around the check, the release every disposal path runs, *)
(* and the durable reclaim that carries a reservation over to a new Open.  *)
(*                                                                         *)
(* One element of Opens is one *Open with the goroutine that is creating,  *)
(* closing or reclaiming it.  An Open whose life is over goes back to      *)
(* "idle" and stands for the next one the server allocates.                *)
(***************************************************************************)
EXTENDS Naturals, FiniteSets

CONSTANTS
    Opens,            \* the *Open values
    Files,            \* file identities (device, inode)
    Conns,            \* client connections
    ConnOf,           \* the connection each Open's CREATE arrives on
    Requests,         \* the (DesiredAccess, ShareAccess) pairs clients send
    DurableOpens,     \* the Opens that were granted a durable handle
    MaxSharingWaits,  \* maxSharingWaits: parked CREATEs per connection
    NoKey             \* the absent fileKey

Rights == {"ReadData", "Execute", "WriteData", "AppendData", "Delete",
           "ReadAttributes", "WriteAttributes", "Synchronize", "ReadControl",
           "GenericRead", "GenericWrite", "GenericExecute", "GenericAll",
           "MaximumAllowed"}

\* The FILE_SHARE_* bits of a CREATE.
ShareAccess == {"read", "write", "delete"}

Request == [desired : SUBSET Rights, share : SUBSET ShareAccess]

ASSUME ConstantsOK ==
    /\ ConnOf \in [Opens -> Conns]
    /\ Requests \subseteq Request
    /\ DurableOpens \subseteq Opens
    /\ MaxSharingWaits \in Nat
    /\ NoKey \notin Files \cup Opens
    /\ IsFiniteSet(Opens)

-----------------------------------------------------------------------------
(* The sharing-access check.                                               *)

\* The DesiredAccess bits that make an open count as reading, writing or
\* deleting (sharingReadAccess, sharingWriteAccess, sharingDeleteAccess).
\* MaximumAllowed counts as none of them.
sharingAccess ==
    [read   |-> {"ReadData", "Execute", "GenericRead", "GenericExecute", "GenericAll"},
     write  |-> {"WriteData", "AppendData", "GenericWrite", "GenericAll"},
     delete |-> {"Delete", "GenericAll"}]

sharingAttrOnlyAccess == {"ReadAttributes", "WriteAttributes", "Synchronize"}

\* The booleans read, write and del of shareModeEntry are one set, doing.
Entry == [owner : Opens, doing : SUBSET ShareAccess, attrOnly : BOOLEAN,
          shared : SUBSET ShareAccess]

Doing(r) == {a \in ShareAccess : r.desired \cap sharingAccess[a] # {}}

AttrOnly(r) == r.desired \subseteq sharingAttrOnlyAccess

newShareModeEntry(o, r) ==
    [owner |-> o, doing |-> Doing(r), attrOnly |-> AttrOnly(r), shared |-> r.share]

\* doer does something permitter will not share.
Denied(doer, permitter) == ~(doer.doing \subseteq permitter.shared)

\* Mutant: the check runs in one direction only.
shareConflict_OneWay(existing, incoming) ==
    /\ existing.attrOnly = incoming.attrOnly
    /\ Denied(incoming, existing)

shareConflict(existing, incoming) ==
    /\ existing.attrOnly = incoming.attrOnly
    /\ Denied(incoming, existing) \/ Denied(existing, incoming)

-----------------------------------------------------------------------------
VARIABLES
    pc,            \* where the goroutine working on each Open stands
    key,           \* the file identity behind the Open's descriptor
    req,           \* the DesiredAccess and ShareAccess of its CREATE
    fd,            \* its descriptor: "nil", "open" or "closed"
    byFile,        \* shareModeTable.byFile
    owners,        \* shareModeTable.owners
    waiters,       \* shareModeTable.waiters: who is registered on each file
    woken,         \* the registered CREATEs whose channel has been closed
    expired,       \* the parked CREATEs whose 250 ms deadline has fired
    sharingWaits,  \* Connection.sharingWaits
    truncated,     \* the CREATEs in progress that have emptied their file
    saved          \* for the replacement Open of a reclaim, the Open it replaces

tableVars == <<byFile, owners, waiters, woken>>
waitVars  == <<expired, sharingWaits>>
vars == <<pc, key, req, fd, byFile, owners, waiters, woken, expired,
          sharingWaits, truncated, saved>>

Phases ==
    {"idle", "checked", "opened", "registered", "overCap", "probe", "select",
     "retry", "refused", "held", "live", "released", "detached", "closedSaved",
     "replaced", "reopened"}

\* The phases in which a CREATE counts in sharingWaits.
Counted == {"overCap", "probe", "select", "retry"}

\* The phases in which a CREATE occupies a parking slot (and so a pool worker).
Parked == {"probe", "select", "retry"}

\* The phases in which a handle admitted by the check is usable or reclaimable.
Admitted == {"held", "live", "detached"}

TypeOK ==
    /\ pc \in [Opens -> Phases]
    /\ key \in [Opens -> Files \cup {NoKey}]
    /\ req \in [Opens -> Requests \cup {NoKey}]
    /\ fd \in [Opens -> {"nil", "open", "closed"}]
    /\ byFile \in [Files -> SUBSET Entry]
    /\ owners \in [Opens -> Files \cup {NoKey}]
    /\ waiters \in [Files -> SUBSET Opens]
    /\ woken \subseteq Opens
    /\ expired \subseteq Opens
    /\ sharingWaits \in [Conns -> Nat]
    /\ truncated \subseteq Opens
    /\ saved \in [Opens -> Opens \cup {NoKey}]

Init ==
    /\ pc = [o \in Opens |-> "idle"]
    /\ key = [o \in Opens |-> NoKey]
    /\ req = [o \in Opens |-> NoKey]
    /\ fd = [o \in Opens |-> "nil"]
    /\ byFile = [k \in Files |-> {}]
    /\ owners = [o \in Opens |-> NoKey]
    /\ waiters = [k \in Files |-> {}]
    /\ woken = {}
    /\ expired = {}
    /\ sharingWaits = [c \in Conns |-> 0]
    /\ truncated = {}
    /\ saved = [o \in Opens |-> NoKey]

-----------------------------------------------------------------------------
(* The table's operations.  Each runs under shareModeTable.mu.             *)

\* fstat on a closed or missing descriptor fails, and a descriptor that now
\* sits on another file does not keep this entry alive.
entryLive(e, k) == fd[e.owner] = "open" /\ key[e.owner] = k

LiveEntries(k) == {e \in byFile[k] : entryLive(e, k)}

SweptOwners(k) == {e.owner : e \in byFile[k] \ LiveEntries(k)}

\* checkLocked: the test alone, reserving nothing.
check(k, r) ==
    \A e \in LiveEntries(k) : ~shareConflict(e, newShareModeEntry(NoKey, r))

\* acquireLocked's answer for o on its own file.
Grantable(o) ==
    \/ owners[o] # NoKey
    \/ \A e \in LiveEntries(key[o]) :
            ~shareConflict(e, newShareModeEntry(o, req[o]))

\* Mutant: the sweep cleans the conflict index and forgets the reverse one.
acquireLocked_SweepOneIndex(o) ==
    LET k   == key[o]
        new == IF Grantable(o) THEN {newShareModeEntry(o, req[o])} ELSE {}
    IN  IF owners[o] # NoKey
        THEN UNCHANGED <<byFile, owners>>
        ELSE /\ byFile' = [byFile EXCEPT ![k] = LiveEntries(k) \cup new]
             /\ owners' = IF Grantable(o) THEN [owners EXCEPT ![o] = k] ELSE owners

\* acquireLocked: dead entries are swept whatever the answer; a handle that
\* already holds a reservation keeps the one it has.
acquireLocked(o) ==
    LET k    == key[o]
        kept == LiveEntries(k)
        new  == IF Grantable(o) THEN {newShareModeEntry(o, req[o])} ELSE {}
    IN  IF owners[o] # NoKey
        THEN UNCHANGED <<byFile, owners>>
        ELSE /\ byFile' = [byFile EXCEPT ![k] = kept \cup new]
             /\ owners' = [p \in Opens |->
                              IF p = o /\ Grantable(o) THEN k
                              ELSE IF p \in SweptOwners(k) THEN NoKey
                              ELSE owners[p]]

\* Mutant: a release wakes nobody.
release_NoWake(o) ==
    IF owners[o] = NoKey
    THEN UNCHANGED tableVars
    ELSE /\ owners' = [owners EXCEPT ![o] = NoKey]
         /\ byFile' = [byFile EXCEPT ![owners[o]] = {e \in @ : e.owner # o}]
         /\ UNCHANGED <<waiters, woken>>

\* release: idempotent; giving up a reservation wakes everyone parked on the
\* file and clears the registrations.
release(o) ==
    IF owners[o] = NoKey
    THEN UNCHANGED tableVars
    ELSE LET k == owners[o] IN
         /\ owners' = [owners EXCEPT ![o] = NoKey]
         /\ byFile' = [byFile EXCEPT ![k] = {e \in @ : e.owner # o}]
         /\ waiters' = [waiters EXCEPT ![k] = {}]
         /\ woken' = woken \cup waiters[k]

\* transfer: a no-op when from holds nothing.
transfer(from, to) ==
    IF owners[from] = NoKey
    THEN UNCHANGED tableVars
    ELSE LET k == owners[from] IN
         /\ owners' = [owners EXCEPT ![from] = NoKey, ![to] = k]
         /\ byFile' = [byFile EXCEPT ![k] =
                {IF e.owner = from THEN [e EXCEPT !.owner = to] ELSE e : e \in @}]
         /\ UNCHANGED <<waiters, woken>>

unwait(o) ==
    /\ waiters' = [waiters EXCEPT ![key[o]] = @ \ {o}]
    /\ woken' = woken \ {o}

goto(o, p) == pc' = [pc EXCEPT ![o] = p]

\* endSharingWait, deferred by waitForShareMode, so it runs on every return.
endSharingWait(o) ==
    /\ sharingWaits' = [sharingWaits EXCEPT ![ConnOf[o]] = @ - 1]
    /\ expired' = expired \ {o}

-----------------------------------------------------------------------------
(* handleCreate up to the publication of the handle.                       *)

\* A non-truncating CREATE reaches the check with the file already open.
OpenFile(o, k, r) ==
    /\ pc[o] = "idle"
    /\ goto(o, "opened")
    /\ key' = [key EXCEPT ![o] = k]
    /\ req' = [req EXCEPT ![o] = r]
    /\ fd' = [fd EXCEPT ![o] = "open"]
    /\ UNCHANGED <<tableVars, waitVars, truncated, saved>>

\* A truncating CREATE first runs the check without reserving anything; a
\* conflict is answered there and then, with nothing done.
PreCheck(o, k, r) ==
    /\ pc[o] = "idle"
    /\ check(k, r)
    /\ goto(o, "checked")
    /\ key' = [key EXCEPT ![o] = k]
    /\ req' = [req EXCEPT ![o] = r]
    /\ UNCHANGED <<fd, tableVars, waitVars, truncated, saved>>

\* The disposition switch empties the file, then the descriptor is opened.
TruncateAndOpen(o) ==
    /\ pc[o] = "checked"
    /\ goto(o, "opened")
    /\ truncated' = truncated \cup {o}
    /\ fd' = [fd EXCEPT ![o] = "open"]
    /\ UNCHANGED <<key, req, tableVars, waitVars, saved>>

\* acquireOrWait, first call: test and registration under one lock.
TryAcquire(o) ==
    /\ pc[o] = "opened"
    /\ acquireLocked(o)
    /\ \/ /\ Grantable(o)
          /\ goto(o, "held")
          /\ UNCHANGED <<waiters, woken>>
       \/ /\ ~Grantable(o)
          /\ goto(o, "registered")
          /\ waiters' = [waiters EXCEPT ![key[o]] = @ \cup {o}]
          /\ UNCHANGED woken
    /\ UNCHANGED <<key, req, fd, waitVars, truncated, saved>>

\* Mutant: the cap is compared before counting and a refusal is not counted,
\* though giving up still takes a count back.
BeginSharingWait_CompareFirst(o) ==
    /\ pc[o] = "registered"
    /\ IF sharingWaits[ConnOf[o]] >= MaxSharingWaits
       THEN goto(o, "overCap") /\ UNCHANGED sharingWaits
       ELSE /\ goto(o, "probe")
            /\ sharingWaits' = [sharingWaits EXCEPT ![ConnOf[o]] = @ + 1]
    /\ UNCHANGED <<key, req, fd, tableVars, expired, truncated, saved>>

\* Mutant: the value before the increment is compared.
BeginSharingWait_OffByOne(o) ==
    /\ pc[o] = "registered"
    /\ sharingWaits' = [sharingWaits EXCEPT ![ConnOf[o]] = @ + 1]
    /\ goto(o, IF sharingWaits[ConnOf[o]] > MaxSharingWaits
               THEN "overCap" ELSE "probe")
    /\ UNCHANGED <<key, req, fd, tableVars, expired, truncated, saved>>

\* beginSharingWait: count first, compare afterwards.
BeginSharingWait(o) ==
    /\ pc[o] = "registered"
    /\ sharingWaits' = [sharingWaits EXCEPT ![ConnOf[o]] = @ + 1]
    /\ goto(o, IF sharingWaits[ConnOf[o]] + 1 > MaxSharingWaits
               THEN "overCap" ELSE "probe")
    /\ UNCHANGED <<key, req, fd, tableVars, expired, truncated, saved>>

\* Past the cap: take the count back and drop the registration.
GiveUpAtCap(o) ==
    /\ pc[o] = "overCap"
    /\ goto(o, "refused")
    /\ endSharingWait(o)
    /\ unwait(o)
    /\ UNCHANGED <<key, req, fd, byFile, owners, truncated, saved>>

\* The one timer of the whole wait.
DeadlineFires(o) ==
    /\ pc[o] \in Parked
    /\ o \notin expired
    /\ expired' = expired \cup {o}
    /\ UNCHANGED <<pc, key, req, fd, tableVars, sharingWaits, truncated, saved>>

\* Mutant: no look at the deadline before the select.
Probe_NoDeadlineTest(o) ==
    /\ pc[o] = "probe"
    /\ goto(o, "select")
    /\ UNCHANGED <<key, req, fd, tableVars, waitVars, truncated, saved>>

\* The non-blocking look at the deadline that precedes every select.
Probe(o) ==
    /\ pc[o] = "probe"
    /\ o \notin expired
    /\ goto(o, "select")
    /\ UNCHANGED <<key, req, fd, tableVars, waitVars, truncated, saved>>

\* select took the closed channel (both may be ready: the choice is random).
SelectWoken(o) ==
    /\ pc[o] = "select"
    /\ o \in woken
    /\ goto(o, "retry")
    /\ woken' = woken \ {o}
    /\ UNCHANGED <<key, req, fd, byFile, owners, waiters, waitVars, truncated, saved>>

\* The probe or the select took the deadline.
WaitTimesOut(o) ==
    /\ pc[o] \in {"probe", "select"}
    /\ o \in expired
    /\ goto(o, "refused")
    /\ endSharingWait(o)
    /\ unwait(o)
    /\ UNCHANGED <<key, req, fd, byFile, owners, truncated, saved>>

\* acquireOrWait after a wake.
Retry(o) ==
    /\ pc[o] = "retry"
    /\ acquireLocked(o)
    /\ \/ /\ Grantable(o)
          /\ goto(o, "held")
          /\ endSharingWait(o)
          /\ UNCHANGED <<waiters, woken>>
       \/ /\ ~Grantable(o)
          /\ goto(o, "probe")
          /\ waiters' = [waiters EXCEPT ![key[o]] = @ \cup {o}]
          /\ UNCHANGED <<woken, waitVars>>
    /\ UNCHANGED <<key, req, fd, truncated, saved>>

\* The end of an Open's life: nothing refers to it any more.
Forget(o) ==
    /\ goto(o, "idle")
    /\ fd' = [fd EXCEPT ![o] = "nil"]
    /\ key' = [key EXCEPT ![o] = NoKey]
    /\ req' = [req EXCEPT ![o] = NoKey]
    /\ saved' = [saved EXCEPT ![o] = NoKey]
    /\ truncated' = truncated \ {o}

\* Refused: the descriptor goes back before STATUS_SHARING_VIOLATION is sent.
RefuseCreate(o) ==
    /\ pc[o] = "refused"
    /\ Forget(o)
    /\ UNCHANGED <<tableVars, waitVars>>

\* AddOpenToTree (or AddOpen) took the handle.
Publish(o) ==
    /\ pc[o] = "held"
    /\ goto(o, "live")
    /\ truncated' = truncated \ {o}
    /\ UNCHANGED <<key, req, fd, tableVars, waitVars, saved>>

-----------------------------------------------------------------------------
(* Disposal.  The reservation goes first, then the locks and the fd.       *)

\* The share-mode half of handleClose, releaseOpens, releaseConnOpens and
\* releaseOpen (a CREATE that could not be published, a durable expiry).
ReleaseShareMode(o) ==
    /\ pc[o] \in Admitted
    /\ release(o)
    /\ goto(o, "released")
    /\ UNCHANGED <<key, req, fd, waitVars, truncated, saved>>

\* File.Close, after which nothing refers to the Open.
CloseFile(o) ==
    /\ pc[o] = "released"
    /\ Forget(o)
    /\ UNCHANGED <<tableVars, waitVars>>

\* Connection teardown leaves a durable handle and its deny mode in place.
Detach(o) ==
    /\ pc[o] = "live"
    /\ o \in DurableOpens
    /\ goto(o, "detached")
    /\ UNCHANGED <<key, req, fd, tableVars, waitVars, truncated, saved>>

-----------------------------------------------------------------------------
(* handleDurableReconnect.                                                 *)

\* The entry is consumed and the saved descriptor closed, keeping the
\* reservation for the replacement.
ReclaimSaved(o) ==
    /\ pc[o] = "detached"
    /\ goto(o, "closedSaved")
    /\ fd' = [fd EXCEPT ![o] = "closed"]
    /\ UNCHANGED <<key, req, tableVars, waitVars, truncated, saved>>

\* Mutant: nothing gives the reservation back when the path fails to open.
ReopenFails_NoRelease(o) ==
    /\ pc[o] = "closedSaved"
    /\ Forget(o)
    /\ UNCHANGED <<tableVars, waitVars>>

\* The path no longer opens: the deferred release gives the reservation back.
ReopenFails(o) ==
    /\ pc[o] = "closedSaved"
    /\ release(o)
    /\ Forget(o)
    /\ UNCHANGED waitVars

\* A fresh Open n around whatever the saved path names now.
Reopen(o, n, k) ==
    /\ pc[o] = "closedSaved"
    /\ pc[n] = "idle"
    /\ n \in DurableOpens
    /\ pc' = [pc EXCEPT ![o] = "replaced", ![n] = "reopened"]
    /\ key' = [key EXCEPT ![n] = k]
    /\ req' = [req EXCEPT ![n] = req[o]]
    /\ fd' = [fd EXCEPT ![n] = "open"]
    /\ saved' = [saved EXCEPT ![n] = o]
    /\ UNCHANGED <<tableVars, waitVars, truncated>>

\* The reservation follows the handle; the saved Open is garbage.  saved[n]
\* stays set: it marks n as the product of a reclaim.
TransferToReplacement(o, n) ==
    /\ pc[n] = "reopened"
    /\ saved[n] = o
    /\ transfer(o, n)
    /\ pc' = [pc EXCEPT ![o] = "idle", ![n] = "held"]
    /\ fd' = [fd EXCEPT ![o] = "nil"]
    /\ key' = [key EXCEPT ![o] = NoKey]
    /\ req' = [req EXCEPT ![o] = NoKey]
    /\ saved' = [saved EXCEPT ![o] = NoKey, ![n] = n]
    /\ UNCHANGED <<waitVars, truncated>>

-----------------------------------------------------------------------------
\* The steps of the goroutine that runs a CREATE; the client has no say in them.
CreateStep(o) ==
    \/ TryAcquire(o) \/ BeginSharingWait(o) \/ GiveUpAtCap(o)
    \/ Probe(o) \/ SelectWoken(o) \/ WaitTimesOut(o) \/ Retry(o)
    \/ RefuseCreate(o) \/ TruncateAndOpen(o)

Next ==
    \E o \in Opens :
        \/ \E k \in Files, r \in Requests : OpenFile(o, k, r) \/ PreCheck(o, k, r)
        \/ CreateStep(o)
        \/ DeadlineFires(o)
        \/ Publish(o)
        \/ ReleaseShareMode(o) \/ CloseFile(o) \/ Detach(o)
        \/ ReclaimSaved(o) \/ ReopenFails(o)
        \/ \E n \in Opens : \/ TransferToReplacement(o, n)
                            \/ \E k \in Files : Reopen(o, n, k)

Spec == Init /\ [][Next]_vars

\* A goroutine that can run does, and a timer that is set fires.  Nothing is
\* assumed of the clients: a holder may keep its handle forever.
Fairness == \A o \in Opens : WF_vars(CreateStep(o)) /\ WF_vars(DeadlineFires(o))

FairSpec == Spec /\ Fairness

-----------------------------------------------------------------------------
(* Properties.                                                             *)

\* The reverse index and the conflict index describe the same reservations:
\* a handle occupies at most one slot, and owners names it (sharemode.go
\* 156-159: "an Open either appears in owners or holds nothing").
IndexesAgree ==
    /\ \A k \in Files : \A e \in byFile[k] : owners[e.owner] = k
    /\ \A o \in Opens : owners[o] # NoKey =>
            \E e \in byFile[owners[o]] :
                /\ e.owner = o
                /\ \A f \in byFile[owners[o]] : f.owner = o => f = e

\* Two handles CREATE let in on one file never violate each other's deny mode,
\* whatever else was refused, woken, timed out, swept or reclaimed meanwhile
\* (sharemode.go 286-287: "two clients racing on the same file cannot both be
\* admitted").  Handles that come out of a reclaim are not covered.
AdmittedHandlesCompatible ==
    \A o, p \in Opens :
        /\ o # p /\ pc[o] \in Admitted /\ pc[p] \in Admitted
        /\ saved[o] = NoKey /\ saved[p] = NoKey
        /\ key[o] = key[p]
        => ~shareConflict(newShareModeEntry(o, req[o]), newShareModeEntry(p, req[p]))

\* Every reservation belongs to a handle some disposal path will still release
\* (sharemode.go 378-380: a count left over "once every handle has been
\* disposed of is the leak this package must never have").
NoReservationLeak ==
    \A o \in Opens : owners[o] # NoKey =>
        pc[o] \in Admitted \cup {"closedSaved", "replaced"}

\* A CREATE that sleeps on a file sleeps because some reservation on it still
\* conflicts with its request: no release can slip in between the test and the
\* registration (sharemode.go 388-391).  Where no handle is durable.
NoMissedWake ==
    \A k \in Files : \A o \in waiters[k] :
        \E e \in byFile[k] : shareConflict(e, newShareModeEntry(o, req[o]))

\* At most MaxSharingWaits CREATEs of a connection are parked, so pool workers
\* are left for the CLOSE that ends the conflict, and the counter never drifts
\* from the CREATEs it counts (sharewait.go 41-47, 63-66).
ParkingBounded ==
    \A c \in Conns :
        LET Of(S) == {o \in Opens : ConnOf[o] = c /\ pc[o] \in S} IN
        /\ Cardinality(Of(Parked)) <= MaxSharingWaits
        /\ sharingWaits[c] = Cardinality(Of(Counted))

\* No registration outlives the wait it was made for (sharemode.go 407-409).
NoAbandonedWaiter ==
    \A k \in Files : \A o \in waiters[k] :
        /\ pc[o] \in {"registered", "overCap", "probe", "select"}
        /\ key[o] = k

\* The registrations are exactly the waits that a release must end.
WaitersAccounted == NoMissedWake /\ NoAbandonedWaiter

\* Every CREATE that reaches the sharing check is answered, even while the file
\* keeps changing hands (sharewait.go 97-101).
CreateIsAnswered ==
    \A o \in Opens : pc[o] = "opened" ~> pc[o] \in {"held", "refused"}

\* durable.go 622-625: "a transfer never gives up the slot, so no other client
\* can slip a conflicting deny mode in".
ReclaimKeepsDenyMode ==
    \A n, p \in Opens :
        /\ n # p /\ pc[n] = "live" /\ pc[p] = "live"
        /\ saved[n] # NoKey /\ key[n] = key[p]
        => ~shareConflict(newShareModeEntry(n, req[n]), newShareModeEntry(p, req[p]))

\* dispatch.go 1189-1191: "a CREATE which is going to be refused cannot destroy
\* data on its way out".  It does NOT hold, since the pre-check reserves
\* nothing: no run lists it.
RefusedCreateDestroysNothing ==
    \A o \in Opens : pc[o] = "refused" => o \notin truncated
=============================================================================
