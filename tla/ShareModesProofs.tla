-------------------------- MODULE ShareModesProofs --------------------------
(***************************************************************************)
(* Proofs about ShareModes, for every set of handles, files, connections   *)
(* and requests.                                                           *)
(***************************************************************************)
EXTENDS ShareModes, FiniteSetTheorems, TLAPS

-----------------------------------------------------------------------------
(* Facts about the sharing check.                                          *)

\* The check does not depend on which of the two opens came first.
LEMMA ConflictSymmetric ==
    ASSUME NEW e, NEW f
    PROVE  shareConflict(e, f) <=> shareConflict(f, e)
  BY DEF shareConflict

\* An entry names its owner and is well typed.
LEMMA NewEntryType ==
    ASSUME NEW o \in Opens, NEW r \in Requests
    PROVE  /\ newShareModeEntry(o, r) \in Entry
           /\ newShareModeEntry(o, r).owner = o
  <1>1. r \in Request
    BY ConstantsOK
  <1>2. r.share \subseteq ShareAccess
    BY <1>1 DEF Request
  <1>3. AttrOnly(r) \in BOOLEAN /\ Doing(r) \subseteq ShareAccess
    BY DEF AttrOnly, Doing
  <1> QED
    BY <1>2, <1>3 DEF newShareModeEntry, Entry

\* Replacing the owner of an entry gives the entry the new owner would have.
LEMMA NewEntryRename ==
    ASSUME NEW o, NEW p, NEW r
    PROVE  [newShareModeEntry(o, r) EXCEPT !.owner = p] = newShareModeEntry(p, r)
  BY DEF newShareModeEntry

\* The check looks at the requests, not at who makes them.
LEMMA ConflictIgnoresOwner ==
    ASSUME NEW o, NEW p, NEW r, NEW q, NEW s
    PROVE  shareConflict(newShareModeEntry(o, r), newShareModeEntry(q, s)) <=>
           shareConflict(newShareModeEntry(p, r), newShareModeEntry(q, s))
  BY DEF shareConflict, newShareModeEntry, Denied

-----------------------------------------------------------------------------
(* The inductive invariant.                                                *)

Holders(own, k) == {o \in Opens : own[o] = k}

\* The two indexes hold the same reservations, each made by its owner's request.
TableInv ==
    \A k \in Files : byFile[k] = {newShareModeEntry(o, req[o]) : o \in Holders(owners, k)}

\* No two reservations on one file conflict, dead ones included.
CompatInv ==
    \A o, p \in Opens :
        o # p /\ owners[o] # NoKey /\ owners[o] = owners[p]
        => ~shareConflict(newShareModeEntry(o, req[o]), newShareModeEntry(p, req[p]))

\* What each phase knows about its Open.
PhaseInv ==
    \A o \in Opens :
        /\ pc[o] # "idle" => key[o] \in Files /\ req[o] \in Requests
        /\ pc[o] \in {"opened", "registered", "overCap", "probe", "select",
                      "retry", "held", "live", "detached", "reopened"} => fd[o] = "open"
        /\ pc[o] \in Admitted /\ saved[o] = NoKey => owners[o] = key[o]
        /\ owners[o] # NoKey => pc[o] \in Admitted \cup {"closedSaved", "replaced"}

\* A replacement under construction has one saved Open, which is waiting for it.
SavedInv ==
    \A n \in Opens : pc[n] = "reopened" =>
        /\ saved[n] \in Opens
        /\ pc[saved[n]] = "replaced"
        /\ req[saved[n]] = req[n]
        /\ \A m \in Opens : pc[m] = "reopened" /\ saved[m] = saved[n] => m = n

\* TypeOK less the sharingWaits counter, whose type rests on ParkingBounded.
TypeInv ==
    /\ pc \in [Opens -> Phases]
    /\ key \in [Opens -> Files \cup {NoKey}]
    /\ req \in [Opens -> Requests \cup {NoKey}]
    /\ fd \in [Opens -> {"nil", "open", "closed"}]
    /\ byFile \in [Files -> SUBSET Entry]
    /\ owners \in [Opens -> Files \cup {NoKey}]
    /\ waiters \in [Files -> SUBSET Opens]
    /\ woken \subseteq Opens
    /\ expired \subseteq Opens
    /\ truncated \subseteq Opens
    /\ saved \in [Opens -> Opens \cup {NoKey}]

IInv == TypeInv /\ TableInv /\ CompatInv /\ PhaseInv /\ SavedInv

-----------------------------------------------------------------------------
(* Steps that leave the reservations and the requests of their owners      *)
(* alone keep the table's part of the invariant.                           *)

LEMMA QuietStep ==
    ASSUME IInv, UNCHANGED <<byFile, owners>>,
           \A o \in Opens : owners[o] # NoKey => req'[o] = req[o]
    PROVE  TableInv' /\ CompatInv'
  <1>1. \A k \in Files : \A o \in Holders(owners, k) : o \in Opens /\ req'[o] = req[o]
    BY ConstantsOK DEF Holders
  <1>2. \A k \in Files : Holders(owners', k) = Holders(owners, k)
    BY DEF Holders
  <1>3. TableInv'
    BY <1>1, <1>2 DEF IInv, TableInv
  <1>4. CompatInv'
    BY DEF IInv, CompatInv
  <1> QED
    BY <1>3, <1>4

\* release keeps the table's part: the entries of the other owners stay.
LEMMA ReleaseStep ==
    ASSUME IInv, NEW o \in Opens, release(o),
           \A p \in Opens \ {o} : owners[p] # NoKey => req'[p] = req[p]
    PROVE  /\ TableInv' /\ CompatInv'
           /\ owners' \in [Opens -> Files \cup {NoKey}]
           /\ byFile' \in [Files -> SUBSET Entry]
           /\ waiters' \in [Files -> SUBSET Opens]
           /\ woken' \subseteq Opens
           /\ owners'[o] = NoKey
           /\ \A p \in Opens \ {o} : owners'[p] = owners[p]
  <1>1. CASE owners[o] = NoKey
    <2>1. UNCHANGED tableVars
      BY <1>1 DEF release
    <2>2. TableInv' /\ CompatInv'
      BY <1>1, <2>1, QuietStep DEF tableVars
    <2> QED
      BY <1>1, <2>1, <2>2 DEF tableVars, IInv, TypeInv
  <1>2. CASE owners[o] # NoKey
    <2> DEFINE k == owners[o]
    <2>1. k \in Files
      BY <1>2 DEF IInv, TypeInv
    <2>2. /\ owners' = [owners EXCEPT ![o] = NoKey]
          /\ byFile' = [byFile EXCEPT ![k] = {e \in @ : e.owner # o}]
          /\ waiters' = [waiters EXCEPT ![k] = {}]
          /\ woken' = woken \cup waiters[k]
      BY <1>2 DEF release
    <2>3. /\ owners' \in [Opens -> Files \cup {NoKey}]
          /\ byFile' \in [Files -> SUBSET Entry]
          /\ waiters' \in [Files -> SUBSET Opens]
          /\ woken' \subseteq Opens
          /\ owners'[o] = NoKey
          /\ \A p \in Opens \ {o} : owners'[p] = owners[p]
      BY <2>1, <2>2 DEF IInv, TypeInv
    <2>4. CompatInv'
      BY <2>3 DEF IInv, CompatInv
    <2>5. \A p \in Opens : owners[p] # NoKey =>
             req[p] \in Requests /\ newShareModeEntry(p, req[p]).owner = p
      BY NewEntryType DEF IInv, PhaseInv, Admitted
    <2>6. ASSUME NEW f \in Files
          PROVE  byFile'[f] = {newShareModeEntry(p, req'[p]) : p \in Holders(owners', f)}
      <3>1. Holders(owners', f) = Holders(owners, f) \ {o}
        BY <2>3, ConstantsOK DEF Holders
      <3>2. byFile'[f] = {e \in byFile[f] : e.owner # o}
        <4>1. CASE f = k
          BY <4>1, <2>1, <2>2 DEF IInv, TypeInv
        <4>2. CASE f # k
          <5>1. byFile'[f] = byFile[f]
            BY <4>2, <2>2 DEF IInv, TypeInv
          <5>2. \A e \in byFile[f] : e.owner # o
            BY <4>2, <2>5, ConstantsOK DEF IInv, TableInv, Holders
          <5> QED
            BY <5>1, <5>2
        <4> QED
          BY <4>1, <4>2
      <3>3. byFile[f] = {newShareModeEntry(p, req[p]) : p \in Holders(owners, f)}
        BY DEF IInv, TableInv
      <3>4. \A p \in Holders(owners, f) : newShareModeEntry(p, req[p]).owner = p
        BY <2>5, ConstantsOK DEF Holders
      <3>5. \A p \in Holders(owners', f) : req'[p] = req[p]
        BY <3>1, ConstantsOK DEF Holders
      <3> QED
        BY <3>1, <3>2, <3>3, <3>4, <3>5
    <2> QED
      BY <2>3, <2>4, <2>6 DEF TableInv
  <1> QED
    BY <1>1, <1>2

\* acquireLocked keeps it too: only dead entries are swept, and the newcomer is
\* compatible with all that are left.
LEMMA AcquireStep ==
    ASSUME IInv, NEW o \in Opens, pc[o] \in {"opened", "retry"},
           acquireLocked(o), UNCHANGED <<key, req, fd>>
    PROVE  /\ TableInv' /\ CompatInv'
           /\ owners' \in [Opens -> Files \cup {NoKey}]
           /\ byFile' \in [Files -> SUBSET Entry]
           /\ Grantable(o) => owners'[o] = key[o]
           /\ ~Grantable(o) => owners'[o] = NoKey
           /\ \A p \in Opens \ {o} :
                /\ owners'[p] \in {owners[p], NoKey}
                /\ pc[p] \in Admitted /\ saved[p] = NoKey => owners'[p] = owners[p]
  <1> DEFINE k == key[o]
             E(p) == newShareModeEntry(p, req[p])
             Live == {p \in Holders(owners, k) : fd[p] = "open" /\ key[p] = k}
             g == Grantable(o)
  <1>1. owners[o] = NoKey /\ k \in Files /\ req[o] \in Requests
    BY DEF IInv, PhaseInv, Admitted
  <1>2. \A p \in Opens : owners[p] # NoKey =>
            req[p] \in Requests /\ E(p) \in Entry /\ E(p).owner = p
    BY NewEntryType DEF IInv, PhaseInv, Admitted
  <1>3. \A f \in Files : byFile[f] = {E(p) : p \in Holders(owners, f)}
    BY DEF IInv, TableInv
  <1>4. \A p \in Holders(owners, k) : p \in Opens /\ owners[p] = k /\ E(p).owner = p
    BY <1>1, <1>2, ConstantsOK DEF Holders
  <1>5. LiveEntries(k) = {E(p) : p \in Live}
    BY <1>1, <1>3, <1>4 DEF LiveEntries, entryLive
  <1>6. SweptOwners(k) = Holders(owners, k) \ Live
    <2>1. \A e \in byFile[k] : e \in LiveEntries(k) <=> entryLive(e, k)
      BY DEF LiveEntries
    <2>2. \A p \in Holders(owners, k) : entryLive(E(p), k) <=> p \in Live
      BY <1>4 DEF entryLive
    <2> QED
      BY <1>1, <1>3, <1>4, <2>1, <2>2 DEF SweptOwners
  <1>7. /\ byFile' = [byFile EXCEPT ![k] = LiveEntries(k) \cup (IF g THEN {E(o)} ELSE {})]
        /\ owners' = [p \in Opens |-> IF p = o /\ g THEN k
                                      ELSE IF p \in SweptOwners(k) THEN NoKey
                                      ELSE owners[p]]
    BY <1>1 DEF acquireLocked
  <1> HIDE DEF E, Live, k, g
  <1>8. /\ g => owners'[o] = k
        /\ ~g => owners'[o] = NoKey
        /\ \A p \in Opens \ {o} :
              owners'[p] = IF p \in Holders(owners, k) \ Live THEN NoKey ELSE owners[p]
    BY <1>1, <1>6, <1>7
  <1>9. \A f \in Files \ {k} : Holders(owners', f) = Holders(owners, f)
    BY <1>1, <1>4, <1>8, ConstantsOK DEF Holders
  <1>10. Holders(owners', k) = Live \cup (IF g THEN {o} ELSE {})
    BY <1>1, <1>8, ConstantsOK DEF Holders, Live
  <1>11. TableInv'
    <2>1. ASSUME NEW f \in Files \ {k}
          PROVE  byFile'[f] = {E(p) : p \in Holders(owners', f)}
      BY <1>3, <1>7, <1>9 DEF IInv, TypeInv
    <2>2. byFile'[k] = {E(p) : p \in Holders(owners', k)}
      BY <1>1, <1>5, <1>7, <1>10 DEF IInv, TypeInv
    <2> QED
      BY <2>1, <2>2 DEF TableInv, E
  <1>12. CompatInv'
    <2>1. ASSUME g, NEW p \in Live
          PROVE  ~shareConflict(E(p), E(o)) /\ ~shareConflict(E(o), E(p))
      BY <1>1, <1>5, <2>1, ConflictSymmetric DEF g, Grantable, k, E
    <2>2. ASSUME NEW p \in Opens, NEW q \in Opens, p # q, owners'[p] # NoKey,
                 owners'[p] = owners'[q]
          PROVE  ~shareConflict(E(p), E(q))
      <3>1. CASE p # o /\ q # o
        <4>1. owners[p] # NoKey /\ owners[p] = owners[q]
          BY <1>8, <2>2, <3>1
        <4> QED
          BY <4>1, <2>2 DEF IInv, CompatInv, E
      <3>2. CASE p = o
        <4>1. g /\ owners'[q] = k /\ q # o
          BY <1>8, <2>2, <3>2
        <4>2. q \in Live
          BY <4>1, <1>10, <2>2 DEF Holders
        <4> QED
          BY <4>1, <4>2, <2>1, <3>2
      <3>3. CASE q = o
        <4>1. g /\ owners'[p] = k /\ p # o
          BY <1>8, <2>2, <3>3
        <4>2. p \in Live
          BY <4>1, <1>10, <2>2 DEF Holders
        <4> QED
          BY <4>1, <4>2, <2>1, <3>3
      <3> QED
        BY <3>1, <3>2, <3>3
    <2> QED
      BY <2>2 DEF CompatInv, E
  <1>13. \A p \in Opens \ {o} :
            pc[p] \in Admitted /\ saved[p] = NoKey => owners'[p] = owners[p]
    <2> SUFFICES ASSUME NEW p \in Opens \ {o}, pc[p] \in Admitted, saved[p] = NoKey,
                        p \in Holders(owners, k)
                 PROVE  p \in Live
      BY <1>8
    <2>1. fd[p] = "open" /\ owners[p] = key[p]
      BY DEF IInv, PhaseInv, Admitted
    <2> QED
      BY <2>1, <1>4 DEF Live
  <1>14. owners' \in [Opens -> Files \cup {NoKey}]
    BY <1>1, <1>7 DEF IInv, TypeInv
  <1>15. byFile' \in [Files -> SUBSET Entry]
    <2>1. E(o) \in Entry
      BY <1>1, NewEntryType DEF E
    <2>2. LiveEntries(k) \subseteq Entry
      BY <1>1 DEF IInv, TypeInv, LiveEntries
    <2> QED
      BY <1>1, <1>7, <2>1, <2>2 DEF IInv, TypeInv
  <1> QED
    BY <1>8, <1>11, <1>12, <1>13, <1>14, <1>15 DEF k, g

\* transfer moves a reservation, if the saved Open still has one.
LEMMA TransferStep ==
    ASSUME IInv, NEW o \in Opens, NEW n \in Opens, pc[n] = "reopened", saved[n] = o,
           transfer(o, n), req' = [req EXCEPT ![o] = NoKey]
    PROVE  /\ TableInv' /\ CompatInv'
           /\ owners' \in [Opens -> Files \cup {NoKey}]
           /\ byFile' \in [Files -> SUBSET Entry]
           /\ waiters' \in [Files -> SUBSET Opens]
           /\ woken' \subseteq Opens
           /\ owners'[o] = NoKey
           /\ \A p \in Opens \ {o, n} : owners'[p] = owners[p]
  <1>1. pc[o] = "replaced" /\ req[n] = req[o] /\ owners[n] = NoKey /\ o # n
    BY DEF IInv, SavedInv, PhaseInv, Admitted
  <1>2. \A p \in Opens \ {o} : req'[p] = req[p]
    BY DEF IInv, TypeInv
  <1>3. CASE owners[o] = NoKey
    <2>1. UNCHANGED tableVars
      BY <1>3 DEF transfer
    <2>2. \A p \in Opens : owners[p] # NoKey => req'[p] = req[p]
      BY <1>2, <1>3
    <2>3. TableInv' /\ CompatInv'
      BY <2>1, <2>2, QuietStep DEF tableVars
    <2> QED
      BY <1>3, <2>1, <2>3 DEF tableVars, IInv, TypeInv
  <1>4. CASE owners[o] # NoKey
    <2> DEFINE k == owners[o]
               E(p) == newShareModeEntry(p, req[p])
    <2>1. k \in Files
      BY <1>4 DEF IInv, TypeInv
    <2>2. /\ owners' = [owners EXCEPT ![o] = NoKey, ![n] = k]
          /\ byFile' = [byFile EXCEPT ![k] =
                {IF e.owner = o THEN [e EXCEPT !.owner = n] ELSE e : e \in byFile[k]}]
          /\ UNCHANGED <<waiters, woken>>
      BY <1>4 DEF transfer
    <2>3. /\ owners'[o] = NoKey /\ owners'[n] = k
          /\ \A p \in Opens \ {o, n} : owners'[p] = owners[p]
          /\ owners' \in [Opens -> Files \cup {NoKey}]
      BY <1>1, <2>1, <2>2 DEF IInv, TypeInv
    <2>4. \A p \in Opens : owners[p] # NoKey =>
              req[p] \in Requests /\ E(p).owner = p
      BY NewEntryType DEF IInv, PhaseInv, Admitted
    <2>5. req[n] \in Requests /\ E(n) \in Entry /\ E(n).owner = n
      BY NewEntryType DEF IInv, PhaseInv
    <2>6. [E(o) EXCEPT !.owner = n] = E(n)
      BY <1>1, NewEntryRename
    <2>7. byFile[k] = {E(p) : p \in Holders(owners, k)}
      BY <2>1 DEF IInv, TableInv
    <2>8. Holders(owners', k) = (Holders(owners, k) \ {o}) \cup {n}
      BY <1>1, <2>1, <2>3, ConstantsOK DEF Holders
    <2>9. \A p \in Holders(owners, k) : p \in Opens /\ E(p).owner = p
      BY <2>1, <2>4, ConstantsOK DEF Holders
    <2>10. o \in Holders(owners, k)
      BY DEF Holders
    <2>11. byFile'[k] = {IF e.owner = o THEN [e EXCEPT !.owner = n] ELSE e : e \in byFile[k]}
      BY <2>1, <2>2 DEF IInv, TypeInv
    <2> HIDE DEF E, k
    <2>12. byFile'[k] = {E(p) : p \in Holders(owners', k)}
      BY <2>6, <2>7, <2>8, <2>9, <2>10, <2>11
    <2>13. ASSUME NEW f \in Files \ {k}
           PROVE  byFile'[f] = {E(p) : p \in Holders(owners', f)}
      <3>1. byFile'[f] = byFile[f]
        BY <2>2 DEF IInv, TypeInv
      <3>2. Holders(owners', f) = Holders(owners, f)
        BY <1>1, <2>1, <2>3, ConstantsOK DEF Holders, k
      <3> QED
        BY <3>1, <3>2 DEF IInv, TableInv, E
    <2>14. \A f \in Files : \A p \in Holders(owners', f) : req'[p] = req[p]
      BY <1>2, <2>3, ConstantsOK DEF Holders
    <2>15. TableInv'
      BY <2>12, <2>13, <2>14 DEF TableInv, E
    <2>16. CompatInv'
      <3>1. ASSUME NEW p \in Opens, NEW q \in Opens, p # q, owners'[p] # NoKey,
                   owners'[p] = owners'[q]
            PROVE  ~shareConflict(E(p), E(q))
        <4>0. p # o /\ q # o
          BY <2>3, <3>1
        <4>1. CASE p # n /\ q # n
          BY <4>0, <4>1, <2>3, <3>1 DEF IInv, CompatInv, E
        <4>2. CASE p = n
          <5>1. q # o /\ owners[q] = owners[o]
            BY <4>0, <4>2, <2>3, <3>1 DEF k
          <5>2. ~shareConflict(E(o), E(q))
            BY <1>4, <5>1 DEF IInv, CompatInv, E
          <5> QED
            BY <1>1, <4>2, <5>2, ConflictIgnoresOwner DEF E
        <4>3. CASE q = n
          <5>1. p # o /\ owners[p] = owners[o]
            BY <4>0, <4>3, <2>3, <3>1 DEF k
          <5>2. ~shareConflict(E(o), E(p))
            BY <1>4, <5>1 DEF IInv, CompatInv, E
          <5>3. ~shareConflict(E(n), E(p))
            BY <1>1, <5>2, ConflictIgnoresOwner DEF E
          <5> QED
            BY <4>3, <5>3, ConflictSymmetric
        <4> QED
          BY <4>1, <4>2, <4>3
      <3>2. \A p \in Opens : owners'[p] # NoKey => req'[p] = req[p]
        BY <1>2, <2>3
      <3> QED
        BY <3>1, <3>2 DEF CompatInv, E
    <2>17. byFile' \in [Files -> SUBSET Entry]
      <3>1. \A p \in Holders(owners', k) : E(p) \in Entry
        BY <1>1, <2>1, <2>5, <2>8, <2>9, NewEntryType, <2>4, ConstantsOK DEF Holders, E
      <3>2. byFile'[k] \subseteq Entry
        BY <3>1, <2>12
      <3> QED
        BY <2>1, <2>2, <2>11, <3>2 DEF IInv, TypeInv
    <2> QED
      BY <2>2, <2>3, <2>15, <2>16, <2>17 DEF IInv, TypeInv
  <1> QED
    BY <1>3, <1>4

-----------------------------------------------------------------------------
\* Every step of the system keeps the invariant.
LEMMA IInvNext == IInv /\ [Next]_vars => IInv'
  <1> SUFFICES ASSUME IInv, [Next]_vars PROVE IInv'
    OBVIOUS
  <1> USE ConstantsOK
  <1>1. ASSUME NEW o \in Opens, NEW k \in Files, NEW r \in Requests, OpenFile(o, k, r)
        PROVE  IInv'
    <2>1. TypeInv'
      BY <1>1 DEF OpenFile, goto, tableVars, waitVars, IInv, TypeInv, PhaseInv, Phases
    <2>2. \A p \in Opens : owners[p] # NoKey => req'[p] = req[p]
      BY <1>1 DEF OpenFile, goto, tableVars, waitVars, IInv, TypeInv, PhaseInv, Admitted
    <2>3. TableInv' /\ CompatInv'
      BY <1>1, <2>2, QuietStep DEF OpenFile, goto, tableVars, waitVars
    <2>4. PhaseInv'
      BY <1>1 DEF OpenFile, goto, tableVars, waitVars, IInv, TypeInv, PhaseInv, Admitted
    <2>5. SavedInv'
      BY <1>1 DEF OpenFile, goto, tableVars, waitVars, IInv, TypeInv, SavedInv
    <2> QED
      BY <2>1, <2>3, <2>4, <2>5 DEF IInv
  <1>2. ASSUME NEW o \in Opens, NEW k \in Files, NEW r \in Requests, PreCheck(o, k, r)
        PROVE  IInv'
    <2>1. TypeInv'
      BY <1>2 DEF PreCheck, goto, tableVars, waitVars, IInv, TypeInv, PhaseInv, Phases
    <2>2. \A p \in Opens : owners[p] # NoKey => req'[p] = req[p]
      BY <1>2 DEF PreCheck, goto, tableVars, waitVars, IInv, TypeInv, PhaseInv, Admitted
    <2>3. TableInv' /\ CompatInv'
      BY <1>2, <2>2, QuietStep DEF PreCheck, goto, tableVars, waitVars
    <2>4. PhaseInv'
      BY <1>2 DEF PreCheck, goto, tableVars, waitVars, IInv, TypeInv, PhaseInv, Admitted
    <2>5. SavedInv'
      BY <1>2 DEF PreCheck, goto, tableVars, waitVars, IInv, TypeInv, SavedInv
    <2> QED
      BY <2>1, <2>3, <2>4, <2>5 DEF IInv
  <1>3. ASSUME NEW o \in Opens, TruncateAndOpen(o)
        PROVE  IInv'
    <2>1. TypeInv'
      BY <1>3 DEF TruncateAndOpen, goto, tableVars, waitVars, IInv, TypeInv, PhaseInv, Phases
    <2>2. \A p \in Opens : owners[p] # NoKey => req'[p] = req[p]
      BY <1>3 DEF TruncateAndOpen, goto, tableVars, waitVars, IInv, TypeInv, PhaseInv, Admitted
    <2>3. TableInv' /\ CompatInv'
      BY <1>3, <2>2, QuietStep DEF TruncateAndOpen, goto, tableVars, waitVars
    <2>4. PhaseInv'
      BY <1>3 DEF TruncateAndOpen, goto, tableVars, waitVars, IInv, TypeInv, PhaseInv, Admitted
    <2>5. SavedInv'
      BY <1>3 DEF TruncateAndOpen, goto, tableVars, waitVars, IInv, TypeInv, SavedInv
    <2> QED
      BY <2>1, <2>3, <2>4, <2>5 DEF IInv
  <1>4. ASSUME NEW o \in Opens, BeginSharingWait(o)
        PROVE  IInv'
    <2>1. TypeInv'
      BY <1>4 DEF BeginSharingWait, goto, tableVars, waitVars, IInv, TypeInv, PhaseInv, Phases
    <2>2. \A p \in Opens : owners[p] # NoKey => req'[p] = req[p]
      BY <1>4 DEF BeginSharingWait, goto, tableVars, waitVars, IInv, TypeInv, PhaseInv, Admitted
    <2>3. TableInv' /\ CompatInv'
      BY <1>4, <2>2, QuietStep DEF BeginSharingWait, goto, tableVars, waitVars
    <2>4. PhaseInv'
      BY <1>4 DEF BeginSharingWait, goto, tableVars, waitVars, IInv, TypeInv, PhaseInv, Admitted
    <2>5. SavedInv'
      BY <1>4 DEF BeginSharingWait, goto, tableVars, waitVars, IInv, TypeInv, SavedInv
    <2> QED
      BY <2>1, <2>3, <2>4, <2>5 DEF IInv
  <1>5. ASSUME NEW o \in Opens, GiveUpAtCap(o)
        PROVE  IInv'
    <2>1. TypeInv'
      BY <1>5 DEF GiveUpAtCap, endSharingWait, unwait, goto, tableVars, waitVars, IInv, TypeInv, PhaseInv, Phases
    <2>2. \A p \in Opens : owners[p] # NoKey => req'[p] = req[p]
      BY <1>5 DEF GiveUpAtCap, endSharingWait, unwait, goto, tableVars, waitVars, IInv, TypeInv, PhaseInv, Admitted
    <2>3. TableInv' /\ CompatInv'
      BY <1>5, <2>2, QuietStep DEF GiveUpAtCap, endSharingWait, unwait, goto, tableVars, waitVars
    <2>4. PhaseInv'
      BY <1>5 DEF GiveUpAtCap, endSharingWait, unwait, goto, tableVars, waitVars, IInv, TypeInv, PhaseInv, Admitted
    <2>5. SavedInv'
      BY <1>5 DEF GiveUpAtCap, endSharingWait, unwait, goto, tableVars, waitVars, IInv, TypeInv, SavedInv
    <2> QED
      BY <2>1, <2>3, <2>4, <2>5 DEF IInv
  <1>6. ASSUME NEW o \in Opens, DeadlineFires(o)
        PROVE  IInv'
    <2>1. TypeInv'
      BY <1>6 DEF DeadlineFires, goto, tableVars, waitVars, IInv, TypeInv, PhaseInv, Phases
    <2>2. \A p \in Opens : owners[p] # NoKey => req'[p] = req[p]
      BY <1>6 DEF DeadlineFires, goto, tableVars, waitVars, IInv, TypeInv, PhaseInv, Admitted
    <2>3. TableInv' /\ CompatInv'
      BY <1>6, <2>2, QuietStep DEF DeadlineFires, goto, tableVars, waitVars
    <2>4. PhaseInv'
      BY <1>6 DEF DeadlineFires, goto, tableVars, waitVars, IInv, TypeInv, PhaseInv, Admitted
    <2>5. SavedInv'
      BY <1>6 DEF DeadlineFires, goto, tableVars, waitVars, IInv, TypeInv, SavedInv
    <2> QED
      BY <2>1, <2>3, <2>4, <2>5 DEF IInv
  <1>7. ASSUME NEW o \in Opens, Probe(o)
        PROVE  IInv'
    <2>1. TypeInv'
      BY <1>7 DEF Probe, goto, tableVars, waitVars, IInv, TypeInv, PhaseInv, Phases
    <2>2. \A p \in Opens : owners[p] # NoKey => req'[p] = req[p]
      BY <1>7 DEF Probe, goto, tableVars, waitVars, IInv, TypeInv, PhaseInv, Admitted
    <2>3. TableInv' /\ CompatInv'
      BY <1>7, <2>2, QuietStep DEF Probe, goto, tableVars, waitVars
    <2>4. PhaseInv'
      BY <1>7 DEF Probe, goto, tableVars, waitVars, IInv, TypeInv, PhaseInv, Admitted
    <2>5. SavedInv'
      BY <1>7 DEF Probe, goto, tableVars, waitVars, IInv, TypeInv, SavedInv
    <2> QED
      BY <2>1, <2>3, <2>4, <2>5 DEF IInv
  <1>8. ASSUME NEW o \in Opens, SelectWoken(o)
        PROVE  IInv'
    <2>1. TypeInv'
      BY <1>8 DEF SelectWoken, goto, tableVars, waitVars, IInv, TypeInv, PhaseInv, Phases
    <2>2. \A p \in Opens : owners[p] # NoKey => req'[p] = req[p]
      BY <1>8 DEF SelectWoken, goto, tableVars, waitVars, IInv, TypeInv, PhaseInv, Admitted
    <2>3. TableInv' /\ CompatInv'
      BY <1>8, <2>2, QuietStep DEF SelectWoken, goto, tableVars, waitVars
    <2>4. PhaseInv'
      BY <1>8 DEF SelectWoken, goto, tableVars, waitVars, IInv, TypeInv, PhaseInv, Admitted
    <2>5. SavedInv'
      BY <1>8 DEF SelectWoken, goto, tableVars, waitVars, IInv, TypeInv, SavedInv
    <2> QED
      BY <2>1, <2>3, <2>4, <2>5 DEF IInv
  <1>9. ASSUME NEW o \in Opens, WaitTimesOut(o)
        PROVE  IInv'
    <2>1. TypeInv'
      BY <1>9 DEF WaitTimesOut, endSharingWait, unwait, goto, tableVars, waitVars, IInv, TypeInv, PhaseInv, Phases
    <2>2. \A p \in Opens : owners[p] # NoKey => req'[p] = req[p]
      BY <1>9 DEF WaitTimesOut, endSharingWait, unwait, goto, tableVars, waitVars, IInv, TypeInv, PhaseInv, Admitted
    <2>3. TableInv' /\ CompatInv'
      BY <1>9, <2>2, QuietStep DEF WaitTimesOut, endSharingWait, unwait, goto, tableVars, waitVars
    <2>4. PhaseInv'
      BY <1>9 DEF WaitTimesOut, endSharingWait, unwait, goto, tableVars, waitVars, IInv, TypeInv, PhaseInv, Admitted
    <2>5. SavedInv'
      BY <1>9 DEF WaitTimesOut, endSharingWait, unwait, goto, tableVars, waitVars, IInv, TypeInv, SavedInv
    <2> QED
      BY <2>1, <2>3, <2>4, <2>5 DEF IInv
  <1>10. ASSUME NEW o \in Opens, RefuseCreate(o)
        PROVE  IInv'
    <2>1. TypeInv'
      BY <1>10 DEF RefuseCreate, Forget, goto, tableVars, waitVars, IInv, TypeInv, PhaseInv, Phases
    <2>2. \A p \in Opens : owners[p] # NoKey => req'[p] = req[p]
      BY <1>10 DEF RefuseCreate, Forget, goto, tableVars, waitVars, IInv, TypeInv, PhaseInv, Admitted
    <2>3. TableInv' /\ CompatInv'
      BY <1>10, <2>2, QuietStep DEF RefuseCreate, Forget, goto, tableVars, waitVars
    <2>4. PhaseInv'
      BY <1>10 DEF RefuseCreate, Forget, goto, tableVars, waitVars, IInv, TypeInv, PhaseInv, Admitted
    <2>5. SavedInv'
      BY <1>10 DEF RefuseCreate, Forget, goto, tableVars, waitVars, IInv, TypeInv, SavedInv
    <2> QED
      BY <2>1, <2>3, <2>4, <2>5 DEF IInv
  <1>11. ASSUME NEW o \in Opens, Publish(o)
        PROVE  IInv'
    <2>1. TypeInv'
      BY <1>11 DEF Publish, goto, tableVars, waitVars, IInv, TypeInv, PhaseInv, Phases
    <2>2. \A p \in Opens : owners[p] # NoKey => req'[p] = req[p]
      BY <1>11 DEF Publish, goto, tableVars, waitVars, IInv, TypeInv, PhaseInv, Admitted
    <2>3. TableInv' /\ CompatInv'
      BY <1>11, <2>2, QuietStep DEF Publish, goto, tableVars, waitVars
    <2>4. PhaseInv'
      BY <1>11 DEF Publish, goto, tableVars, waitVars, IInv, TypeInv, PhaseInv, Admitted
    <2>5. SavedInv'
      BY <1>11 DEF Publish, goto, tableVars, waitVars, IInv, TypeInv, SavedInv
    <2> QED
      BY <2>1, <2>3, <2>4, <2>5 DEF IInv
  <1>12. ASSUME NEW o \in Opens, CloseFile(o)
        PROVE  IInv'
    <2>1. TypeInv'
      BY <1>12 DEF CloseFile, Forget, goto, tableVars, waitVars, IInv, TypeInv, PhaseInv, Phases
    <2>2. \A p \in Opens : owners[p] # NoKey => req'[p] = req[p]
      BY <1>12 DEF CloseFile, Forget, goto, tableVars, waitVars, IInv, TypeInv, PhaseInv, Admitted
    <2>3. TableInv' /\ CompatInv'
      BY <1>12, <2>2, QuietStep DEF CloseFile, Forget, goto, tableVars, waitVars
    <2>4. PhaseInv'
      BY <1>12 DEF CloseFile, Forget, goto, tableVars, waitVars, IInv, TypeInv, PhaseInv, Admitted
    <2>5. SavedInv'
      BY <1>12 DEF CloseFile, Forget, goto, tableVars, waitVars, IInv, TypeInv, SavedInv
    <2> QED
      BY <2>1, <2>3, <2>4, <2>5 DEF IInv
  <1>13. ASSUME NEW o \in Opens, Detach(o)
        PROVE  IInv'
    <2>1. TypeInv'
      BY <1>13 DEF Detach, goto, tableVars, waitVars, IInv, TypeInv, PhaseInv, Phases
    <2>2. \A p \in Opens : owners[p] # NoKey => req'[p] = req[p]
      BY <1>13 DEF Detach, goto, tableVars, waitVars, IInv, TypeInv, PhaseInv, Admitted
    <2>3. TableInv' /\ CompatInv'
      BY <1>13, <2>2, QuietStep DEF Detach, goto, tableVars, waitVars
    <2>4. PhaseInv'
      BY <1>13 DEF Detach, goto, tableVars, waitVars, IInv, TypeInv, PhaseInv, Admitted
    <2>5. SavedInv'
      BY <1>13 DEF Detach, goto, tableVars, waitVars, IInv, TypeInv, SavedInv
    <2> QED
      BY <2>1, <2>3, <2>4, <2>5 DEF IInv
  <1>14. ASSUME NEW o \in Opens, ReclaimSaved(o)
        PROVE  IInv'
    <2>1. TypeInv'
      BY <1>14 DEF ReclaimSaved, goto, tableVars, waitVars, IInv, TypeInv, PhaseInv, Phases
    <2>2. \A p \in Opens : owners[p] # NoKey => req'[p] = req[p]
      BY <1>14 DEF ReclaimSaved, goto, tableVars, waitVars, IInv, TypeInv, PhaseInv, Admitted
    <2>3. TableInv' /\ CompatInv'
      BY <1>14, <2>2, QuietStep DEF ReclaimSaved, goto, tableVars, waitVars
    <2>4. PhaseInv'
      BY <1>14 DEF ReclaimSaved, goto, tableVars, waitVars, IInv, TypeInv, PhaseInv, Admitted
    <2>5. SavedInv'
      BY <1>14 DEF ReclaimSaved, goto, tableVars, waitVars, IInv, TypeInv, SavedInv
    <2> QED
      BY <2>1, <2>3, <2>4, <2>5 DEF IInv
  <1>15. ASSUME NEW o \in Opens, TryAcquire(o)
        PROVE  IInv'
    <2>1. /\ TableInv' /\ CompatInv'
          /\ owners' \in [Opens -> Files \cup {NoKey}]
          /\ byFile' \in [Files -> SUBSET Entry]
          /\ Grantable(o) => owners'[o] = key[o]
          /\ ~Grantable(o) => owners'[o] = NoKey
          /\ \A p \in Opens \ {o} :
               /\ owners'[p] \in {owners[p], NoKey}
               /\ pc[p] \in Admitted /\ saved[p] = NoKey => owners'[p] = owners[p]
      BY <1>15, AcquireStep DEF TryAcquire
    <2>2. /\ pc' = [pc EXCEPT ![o] = IF Grantable(o) THEN "held" ELSE "registered"]
          /\ UNCHANGED <<key, req, fd, truncated, saved, woken>>
          /\ expired' \subseteq expired
          /\ waiters' \in {waiters, [waiters EXCEPT ![key[o]] = @ \cup {o}]}
      BY <1>15 DEF TryAcquire, goto, waitVars
    <2>3. pc[o] = "opened" /\ key[o] \in Files
      BY <1>15 DEF TryAcquire, IInv, PhaseInv
    <2>4. TypeInv'
      BY <2>1, <2>2, <2>3 DEF IInv, TypeInv, Phases
    <2>5. PhaseInv'
      BY <2>1, <2>2, <2>3 DEF IInv, TypeInv, PhaseInv, Admitted
    <2>6. SavedInv'
      BY <2>2, <2>3 DEF IInv, TypeInv, SavedInv
    <2> QED
      BY <2>1, <2>4, <2>5, <2>6 DEF IInv
  <1>16. ASSUME NEW o \in Opens, Retry(o)
        PROVE  IInv'
    <2>1. /\ TableInv' /\ CompatInv'
          /\ owners' \in [Opens -> Files \cup {NoKey}]
          /\ byFile' \in [Files -> SUBSET Entry]
          /\ Grantable(o) => owners'[o] = key[o]
          /\ ~Grantable(o) => owners'[o] = NoKey
          /\ \A p \in Opens \ {o} :
               /\ owners'[p] \in {owners[p], NoKey}
               /\ pc[p] \in Admitted /\ saved[p] = NoKey => owners'[p] = owners[p]
      BY <1>16, AcquireStep DEF Retry
    <2>2. /\ pc' = [pc EXCEPT ![o] = IF Grantable(o) THEN "held" ELSE "probe"]
          /\ UNCHANGED <<key, req, fd, truncated, saved, woken>>
          /\ expired' \subseteq expired
          /\ waiters' \in {waiters, [waiters EXCEPT ![key[o]] = @ \cup {o}]}
      BY <1>16 DEF Retry, endSharingWait, goto, waitVars
    <2>3. pc[o] = "retry" /\ key[o] \in Files
      BY <1>16 DEF Retry, IInv, PhaseInv
    <2>4. TypeInv'
      BY <2>1, <2>2, <2>3 DEF IInv, TypeInv, Phases
    <2>5. PhaseInv'
      BY <2>1, <2>2, <2>3 DEF IInv, TypeInv, PhaseInv, Admitted
    <2>6. SavedInv'
      BY <2>2, <2>3 DEF IInv, TypeInv, SavedInv
    <2> QED
      BY <2>1, <2>4, <2>5, <2>6 DEF IInv
  <1>17. ASSUME NEW o \in Opens, ReleaseShareMode(o)
        PROVE  IInv'
    <2>1. /\ \A p \in Opens \ {o} : owners[p] # NoKey => req'[p] = req[p]
          /\ release(o)
      BY <1>17 DEF ReleaseShareMode, goto, waitVars, IInv, TypeInv
    <2>2. /\ TableInv' /\ CompatInv'
          /\ owners' \in [Opens -> Files \cup {NoKey}]
          /\ byFile' \in [Files -> SUBSET Entry]
          /\ waiters' \in [Files -> SUBSET Opens]
          /\ woken' \subseteq Opens
          /\ owners'[o] = NoKey
          /\ \A p \in Opens \ {o} : owners'[p] = owners[p]
      BY <2>1, ReleaseStep
    <2>3. TypeInv'
      BY <1>17, <2>2 DEF ReleaseShareMode, goto, waitVars, IInv, TypeInv, Phases
    <2>4. PhaseInv'
      BY <1>17, <2>2 DEF ReleaseShareMode, goto, waitVars, IInv, TypeInv, PhaseInv, Admitted
    <2>5. SavedInv'
      BY <1>17 DEF ReleaseShareMode, goto, waitVars, IInv, TypeInv, SavedInv, Admitted
    <2> QED
      BY <2>2, <2>3, <2>4, <2>5 DEF IInv
  <1>18. ASSUME NEW o \in Opens, ReopenFails(o)
        PROVE  IInv'
    <2>1. /\ \A p \in Opens \ {o} : owners[p] # NoKey => req'[p] = req[p]
          /\ release(o)
      BY <1>18 DEF ReopenFails, Forget, goto, waitVars, IInv, TypeInv
    <2>2. /\ TableInv' /\ CompatInv'
          /\ owners' \in [Opens -> Files \cup {NoKey}]
          /\ byFile' \in [Files -> SUBSET Entry]
          /\ waiters' \in [Files -> SUBSET Opens]
          /\ woken' \subseteq Opens
          /\ owners'[o] = NoKey
          /\ \A p \in Opens \ {o} : owners'[p] = owners[p]
      BY <2>1, ReleaseStep
    <2>3. TypeInv'
      BY <1>18, <2>2 DEF ReopenFails, Forget, goto, waitVars, IInv, TypeInv, Phases
    <2>4. PhaseInv'
      BY <1>18, <2>2 DEF ReopenFails, Forget, goto, waitVars, IInv, TypeInv, PhaseInv, Admitted
    <2>5. SavedInv'
      BY <1>18 DEF ReopenFails, Forget, goto, waitVars, IInv, TypeInv, SavedInv, Admitted
    <2> QED
      BY <2>2, <2>3, <2>4, <2>5 DEF IInv
  <1>19. ASSUME NEW o \in Opens, NEW m \in Opens, NEW k \in Files, Reopen(o, m, k)
        PROVE  IInv'
    <2>1. TypeInv'
      BY <1>19 DEF Reopen, tableVars, waitVars, IInv, TypeInv, Phases
    <2>2. \A p \in Opens : owners[p] # NoKey => req'[p] = req[p]
      BY <1>19 DEF Reopen, IInv, TypeInv, PhaseInv, Admitted
    <2>3. TableInv' /\ CompatInv'
      BY <1>19, <2>2, QuietStep DEF Reopen, tableVars
    <2>4. PhaseInv'
      BY <1>19 DEF Reopen, tableVars, IInv, TypeInv, PhaseInv, Admitted
    <2>5. SavedInv'
      BY <1>19 DEF Reopen, IInv, TypeInv, SavedInv
    <2> QED
      BY <2>1, <2>3, <2>4, <2>5 DEF IInv
  <1>20. ASSUME NEW o \in Opens, NEW m \in Opens, TransferToReplacement(o, m)
        PROVE  IInv'
    <2>1. /\ TableInv' /\ CompatInv'
          /\ owners' \in [Opens -> Files \cup {NoKey}]
          /\ byFile' \in [Files -> SUBSET Entry]
          /\ waiters' \in [Files -> SUBSET Opens]
          /\ woken' \subseteq Opens
          /\ owners'[o] = NoKey
          /\ \A p \in Opens \ {o, m} : owners'[p] = owners[p]
      BY <1>20, TransferStep DEF TransferToReplacement
    <2>2. TypeInv'
      BY <1>20, <2>1 DEF TransferToReplacement, waitVars, IInv, TypeInv, Phases
    <2>3. pc[o] = "replaced" /\ o # m /\ key[m] \in Files /\ req[m] \in Requests
      BY <1>20 DEF TransferToReplacement, IInv, SavedInv, PhaseInv
    <2>4. PhaseInv'
      BY <1>20, <2>1, <2>3 DEF TransferToReplacement, IInv, TypeInv, PhaseInv, Admitted
    <2>5. SavedInv'
      BY <1>20, <2>3 DEF TransferToReplacement, IInv, TypeInv, SavedInv
    <2> QED
      BY <2>1, <2>2, <2>4, <2>5 DEF IInv
  <1>21. CASE UNCHANGED vars
    <2>1. TableInv' /\ CompatInv'
      BY <1>21, QuietStep DEF vars
    <2> QED
      BY <1>21, <2>1 DEF vars, IInv, TypeInv, PhaseInv, SavedInv
  <1> QED
    BY <1>1, <1>2, <1>3, <1>4, <1>5, <1>6, <1>7, <1>8, <1>9, <1>10, <1>11, <1>12, <1>13, <1>14, <1>15, <1>16, <1>17, <1>18, <1>19, <1>20, <1>21
       DEF Next, CreateStep

-----------------------------------------------------------------------------
(* The parking counter.                                                    *)

\* The Opens of connection c that stand in one of the phases S, q being pc.
Of(q, S, c) == {o \in Opens : ConnOf[o] = c /\ q[o] \in S}

CountInv ==
    /\ sharingWaits \in [Conns -> Nat]
    /\ \A c \in Conns :
          /\ sharingWaits[c] = Cardinality(Of(pc, Counted, c))
          /\ Cardinality(Of(pc, Parked, c)) <= MaxSharingWaits

\* The sets counted are finite, and the parked ones are among them.
LEMMA OfFinite ==
    ASSUME NEW q, NEW c
    PROVE  /\ IsFiniteSet(Of(q, Counted, c)) /\ IsFiniteSet(Of(q, Parked, c))
           /\ Cardinality(Of(q, Counted, c)) \in Nat
           /\ Cardinality(Of(q, Parked, c)) \in Nat
           /\ Cardinality(Of(q, Parked, c)) <= Cardinality(Of(q, Counted, c))
  <1>1. Of(q, Counted, c) \subseteq Opens /\ Of(q, Parked, c) \subseteq Of(q, Counted, c)
    BY DEF Of, Counted, Parked
  <1>2. IsFiniteSet(Of(q, Counted, c)) /\ IsFiniteSet(Of(q, Parked, c))
    BY <1>1, ConstantsOK, FS_Subset
  <1> QED
    BY <1>1, <1>2, FS_CardinalityType, FS_Subset

\* A step that only moves one Open, between two phases that count alike, and
\* leaves the counter alone keeps CountInv.
LEMMA CountQuiet ==
    ASSUME IInv, CountInv, NEW o \in Opens, NEW x \in Phases,
           pc' = [pc EXCEPT ![o] = x], UNCHANGED sharingWaits,
           pc[o] \in Counted <=> x \in Counted, pc[o] \in Parked <=> x \in Parked
    PROVE  CountInv'
  <1>1. pc \in [Opens -> Phases]
    BY DEF IInv, TypeInv
  <1>2. \A c \in Conns : /\ Of(pc', Counted, c) = Of(pc, Counted, c)
                         /\ Of(pc', Parked, c) = Of(pc, Parked, c)
    BY <1>1 DEF Of
  <1> QED
    BY <1>2 DEF CountInv

\* A step that moves an Open out of the wait and takes its count back.
LEMMA CountDown ==
    ASSUME IInv, CountInv, NEW o \in Opens, NEW x \in Phases,
           pc' = [pc EXCEPT ![o] = x], endSharingWait(o),
           pc[o] \in Counted, x \notin Counted
    PROVE  CountInv'
  <1>1. pc \in [Opens -> Phases] /\ x \notin Parked /\ ConnOf[o] \in Conns
    BY ConstantsOK DEF IInv, TypeInv, Counted, Parked
  <1>2. sharingWaits' = [sharingWaits EXCEPT ![ConnOf[o]] = @ - 1]
    BY DEF endSharingWait
  <1>3. ASSUME NEW c \in Conns
        PROVE  /\ sharingWaits'[c] \in Nat
               /\ sharingWaits'[c] = Cardinality(Of(pc', Counted, c))
               /\ Cardinality(Of(pc', Parked, c)) <= MaxSharingWaits
    <2>1. Cardinality(Of(pc', Parked, c)) <= Cardinality(Of(pc, Parked, c))
      <3>1. Of(pc', Parked, c) \subseteq Of(pc, Parked, c)
        BY <1>1 DEF Of
      <3> QED
        BY <3>1, OfFinite, FS_Subset
    <2>2. Cardinality(Of(pc', Counted, c)) =
             Cardinality(Of(pc, Counted, c)) - (IF c = ConnOf[o] THEN 1 ELSE 0)
      <3>1. CASE c = ConnOf[o]
        <4>1. Of(pc', Counted, c) = Of(pc, Counted, c) \ {o} /\ o \in Of(pc, Counted, c)
          BY <1>1, <3>1 DEF Of
        <4>2. Cardinality(Of(pc, Counted, c) \ {o}) = Cardinality(Of(pc, Counted, c)) - 1
          BY <4>1, OfFinite, FS_RemoveElement
        <4> QED
          BY <3>1, <4>1, <4>2
      <3>2. CASE c # ConnOf[o]
        <4>1. Of(pc', Counted, c) = Of(pc, Counted, c)
          BY <1>1, <3>2 DEF Of
        <4> QED
          BY <3>2, <4>1, OfFinite
      <3> QED
        BY <3>1, <3>2
    <2>3. sharingWaits'[c] = sharingWaits[c] - (IF c = ConnOf[o] THEN 1 ELSE 0)
      BY <1>1, <1>2 DEF CountInv
    <2> QED
      BY <2>1, <2>2, <2>3, OfFinite, ConstantsOK DEF CountInv
  <1>4. DOMAIN sharingWaits' = Conns /\ sharingWaits' = [c \in Conns |-> sharingWaits'[c]]
    BY <1>2 DEF CountInv
  <1> QED
    BY <1>3, <1>4 DEF CountInv

\* beginSharingWait counts first; only a count within the cap parks.
LEMMA CountUp ==
    ASSUME IInv, CountInv, NEW o \in Opens, BeginSharingWait(o)
    PROVE  CountInv'
  <1> DEFINE d == ConnOf[o]
             x == IF sharingWaits[d] + 1 > MaxSharingWaits THEN "overCap" ELSE "probe"
  <1>1. /\ pc \in [Opens -> Phases] /\ d \in Conns /\ x \in Phases
        /\ pc[o] \notin Counted /\ pc[o] \notin Parked /\ x \in Counted
        /\ pc' = [pc EXCEPT ![o] = x]
    BY ConstantsOK DEF IInv, TypeInv, Counted, Parked, Phases, BeginSharingWait, goto
  <1>2. sharingWaits' = [sharingWaits EXCEPT ![d] = @ + 1]
    BY DEF BeginSharingWait
  <1> HIDE DEF x
  <1>3. ASSUME NEW c \in Conns
        PROVE  /\ sharingWaits'[c] \in Nat
               /\ sharingWaits'[c] = Cardinality(Of(pc', Counted, c))
               /\ Cardinality(Of(pc', Parked, c)) <= MaxSharingWaits
    <2>1. CASE c # d
      <3>1. /\ Of(pc', Counted, c) = Of(pc, Counted, c)
            /\ Of(pc', Parked, c) = Of(pc, Parked, c)
        BY <1>1, <2>1 DEF Of
      <3>2. sharingWaits'[c] = sharingWaits[c]
        BY <1>2, <2>1 DEF CountInv
      <3> QED
        BY <3>1, <3>2 DEF CountInv
    <2>2. CASE c = d
      <3>1. Cardinality(Of(pc', Counted, c)) = Cardinality(Of(pc, Counted, c)) + 1
        <4>1. Of(pc', Counted, c) = Of(pc, Counted, c) \cup {o} /\ o \notin Of(pc, Counted, c)
          BY <1>1, <2>2 DEF Of
        <4>2. Cardinality(Of(pc, Counted, c) \cup {o}) = Cardinality(Of(pc, Counted, c)) + 1
          BY <4>1, OfFinite, FS_AddElement
        <4> QED
          BY <4>1, <4>2
      <3>2. sharingWaits'[c] = sharingWaits[c] + 1
        BY <1>1, <1>2, <2>2 DEF CountInv
      <3>3. CASE x = "overCap"
        <4>1. x \notin Parked
          BY <3>3 DEF Parked
        <4>2. Cardinality(Of(pc', Parked, c)) <= Cardinality(Of(pc, Parked, c))
          <5>1. Of(pc', Parked, c) \subseteq Of(pc, Parked, c)
            BY <1>1, <4>1 DEF Of
          <5> QED
            BY <5>1, OfFinite, FS_Subset
        <4> QED
          BY <3>1, <3>2, <4>2, OfFinite, ConstantsOK DEF CountInv
      <3>4. CASE x = "probe"
        <4>1. sharingWaits[c] + 1 <= MaxSharingWaits
          BY <2>2, <3>4, ConstantsOK DEF x, CountInv
        <4>2. Cardinality(Of(pc', Parked, c)) <= Cardinality(Of(pc', Counted, c))
          BY OfFinite
        <4> QED
          BY <3>1, <3>2, <4>1, <4>2, OfFinite, ConstantsOK DEF CountInv
      <3> QED
        BY <3>3, <3>4 DEF x
    <2> QED
      BY <2>1, <2>2
  <1>4. sharingWaits' = [c \in Conns |-> sharingWaits'[c]]
    BY <1>1, <1>2 DEF CountInv
  <1> QED
    BY <1>3, <1>4 DEF CountInv

\* No step lets the counter drift or the cap be passed.
LEMMA CountNext == IInv /\ CountInv /\ [Next]_vars => CountInv'
  <1> SUFFICES ASSUME IInv, CountInv, [Next]_vars PROVE CountInv'
    OBVIOUS
  <1> USE DEF Phases, Counted, Parked, Admitted
  <1>1. ASSUME NEW o \in Opens, NEW k \in Files, NEW r \in Requests, OpenFile(o, k, r)
        PROVE  CountInv'
    BY <1>1, CountQuiet DEF OpenFile, goto, waitVars
  <1>2. ASSUME NEW o \in Opens, NEW k \in Files, NEW r \in Requests, PreCheck(o, k, r)
        PROVE  CountInv'
    BY <1>2, CountQuiet DEF PreCheck, goto, waitVars
  <1>3. ASSUME NEW o \in Opens, TruncateAndOpen(o)
        PROVE  CountInv'
    BY <1>3, CountQuiet DEF TruncateAndOpen, goto, waitVars
  <1>4. ASSUME NEW o \in Opens, Probe(o)
        PROVE  CountInv'
    BY <1>4, CountQuiet DEF Probe, goto, waitVars
  <1>5. ASSUME NEW o \in Opens, SelectWoken(o)
        PROVE  CountInv'
    BY <1>5, CountQuiet DEF SelectWoken, goto, waitVars
  <1>6. ASSUME NEW o \in Opens, RefuseCreate(o)
        PROVE  CountInv'
    BY <1>6, CountQuiet DEF RefuseCreate, goto, waitVars, Forget
  <1>7. ASSUME NEW o \in Opens, Publish(o)
        PROVE  CountInv'
    BY <1>7, CountQuiet DEF Publish, goto, waitVars
  <1>8. ASSUME NEW o \in Opens, ReleaseShareMode(o)
        PROVE  CountInv'
    BY <1>8, CountQuiet DEF ReleaseShareMode, goto, waitVars
  <1>9. ASSUME NEW o \in Opens, CloseFile(o)
        PROVE  CountInv'
    BY <1>9, CountQuiet DEF CloseFile, goto, waitVars, Forget
  <1>10. ASSUME NEW o \in Opens, Detach(o)
        PROVE  CountInv'
    BY <1>10, CountQuiet DEF Detach, goto, waitVars
  <1>11. ASSUME NEW o \in Opens, ReclaimSaved(o)
        PROVE  CountInv'
    BY <1>11, CountQuiet DEF ReclaimSaved, goto, waitVars
  <1>12. ASSUME NEW o \in Opens, ReopenFails(o)
        PROVE  CountInv'
    BY <1>12, CountQuiet DEF ReopenFails, goto, waitVars, Forget
  <1>13. ASSUME NEW o \in Opens, GiveUpAtCap(o)
        PROVE  CountInv'
    BY <1>13, CountDown DEF GiveUpAtCap, goto
  <1>14. ASSUME NEW o \in Opens, WaitTimesOut(o)
        PROVE  CountInv'
    BY <1>14, CountDown DEF WaitTimesOut, goto
  <1>15. ASSUME NEW o \in Opens, BeginSharingWait(o)
        PROVE  CountInv'
    BY <1>15, CountUp
  <1>16. ASSUME NEW o \in Opens, TryAcquire(o)
        PROVE  CountInv'
    <2>1. PICK x \in {"held", "registered"} : pc' = [pc EXCEPT ![o] = x]
      BY <1>16 DEF TryAcquire, goto
    <2> QED
      BY <1>16, <2>1, CountQuiet DEF TryAcquire, waitVars
  <1>17. ASSUME NEW o \in Opens, Retry(o)
        PROVE  CountInv'
    <2>1. CASE Grantable(o)
      BY <1>17, <2>1, CountDown DEF Retry, goto
    <2>2. CASE ~Grantable(o)
      BY <1>17, <2>2, CountQuiet DEF Retry, goto, waitVars
    <2> QED
      BY <2>1, <2>2
  <1>18. ASSUME NEW o \in Opens, NEW m \in Opens, NEW k \in Files, Reopen(o, m, k)
        PROVE  CountInv'
    <2>1. \A c \in Conns : /\ Of(pc', Counted, c) = Of(pc, Counted, c)
                           /\ Of(pc', Parked, c) = Of(pc, Parked, c)
      BY <1>18 DEF Reopen, Of, IInv, TypeInv
    <2> QED
      BY <1>18, <2>1 DEF Reopen, waitVars, CountInv
  <1>19. ASSUME NEW o \in Opens, NEW m \in Opens, TransferToReplacement(o, m)
        PROVE  CountInv'
    <2>1. pc[o] = "replaced" /\ pc[m] = "reopened"
      BY <1>19 DEF TransferToReplacement, IInv, SavedInv
    <2>2. \A c \in Conns : /\ Of(pc', Counted, c) = Of(pc, Counted, c)
                           /\ Of(pc', Parked, c) = Of(pc, Parked, c)
      BY <1>19, <2>1 DEF TransferToReplacement, Of, IInv, TypeInv
    <2> QED
      BY <1>19, <2>2 DEF TransferToReplacement, waitVars, CountInv
  <1>20. ASSUME NEW o \in Opens, DeadlineFires(o)
        PROVE  CountInv'
    BY <1>20 DEF DeadlineFires, CountInv
  <1>21. CASE UNCHANGED vars
    BY <1>21 DEF vars, CountInv
  <1> QED
    BY <1>1, <1>2, <1>3, <1>4, <1>5, <1>6, <1>7, <1>8, <1>9, <1>10, <1>11, <1>12, <1>13, <1>14, <1>15, <1>16, <1>17, <1>18, <1>19, <1>20, <1>21
       DEF Next, CreateStep

-----------------------------------------------------------------------------
(* The registrations of the waiting CREATEs.                               *)

\* The phases in which a CREATE is registered on its file or has been woken.
Reg == {"registered", "overCap", "probe", "select"}

\* A registration and a wake-up both belong to a CREATE that still waits, and
\* no CREATE is registered and woken at once.
WaitInv ==
    /\ \A k \in Files : \A o \in waiters[k] : pc[o] \in Reg /\ key[o] = k
    /\ \A o \in woken : pc[o] \in Reg /\ \A k \in Files : o \notin waiters[k]

\* Where no handle is durable none is ever detached or reclaimed.
PlainInv ==
    \A o \in Opens : /\ pc[o] \notin {"detached", "closedSaved", "replaced", "reopened"}
                     /\ saved[o] = NoKey

\* The registrations are left alone and nobody who waits stops waiting.
LEMMA WaitQuiet ==
    ASSUME IInv, WaitInv, UNCHANGED <<waiters, woken>>,
           \A p \in Opens : pc[p] \in Reg => pc'[p] \in Reg /\ key'[p] = key[p]
    PROVE  WaitInv'
  BY DEF IInv, TypeInv, WaitInv

\* A release turns every registration on its file into a wake-up.
LEMMA WaitRelease ==
    ASSUME IInv, WaitInv, NEW o \in Opens, release(o),
           \A p \in Opens : pc[p] \in Reg => pc'[p] \in Reg /\ key'[p] = key[p]
    PROVE  WaitInv'
  <1>1. CASE owners[o] = NoKey
    BY <1>1, WaitQuiet DEF release, tableVars
  <1>2. CASE owners[o] # NoKey
    <2>1. owners[o] \in Files
      BY <1>2 DEF IInv, TypeInv
    <2>2. /\ waiters' = [waiters EXCEPT ![owners[o]] = {}]
          /\ woken' = woken \cup waiters[owners[o]]
      BY <1>2 DEF release
    <2>3. \A k \in Files : waiters'[k] = IF k = owners[o] THEN {} ELSE waiters[k]
      BY <2>1, <2>2 DEF IInv, TypeInv
    <2> QED
      BY <2>1, <2>2, <2>3 DEF IInv, TypeInv, WaitInv
  <1> QED
    BY <1>1, <1>2

\* A CREATE that gives up takes its registration and its wake-up along.
LEMMA WaitUnwait ==
    ASSUME IInv, WaitInv, NEW o \in Opens, pc[o] \in Reg, unwait(o), UNCHANGED key,
           \A p \in Opens \ {o} : pc'[p] = pc[p]
    PROVE  WaitInv'
  <1>1. key[o] \in Files
    BY DEF IInv, PhaseInv, Reg
  <1>2. \A k \in Files : waiters'[k] = IF k = key[o] THEN waiters[k] \ {o} ELSE waiters[k]
    BY <1>1 DEF unwait, IInv, TypeInv
  <1>3. woken' = woken \ {o}
    BY DEF unwait
  <1>4. \A k \in Files : waiters'[k] \subseteq (waiters[k] \ {o}) /\ waiters[k] \subseteq Opens
    <2>1. \A k \in Files : k # key[o] => o \notin waiters[k]
      BY DEF WaitInv
    <2>2. \A k \in Files : waiters[k] \subseteq Opens
      BY DEF IInv, TypeInv
    <2> QED
      BY <1>2, <2>1, <2>2
  <1>5. woken' \subseteq Opens \ {o} /\ woken' \subseteq woken
    BY <1>3 DEF IInv, TypeInv
  <1> QED
    BY <1>4, <1>5 DEF WaitInv

\* A CREATE that was neither registered nor woken registers.
LEMMA WaitRegister ==
    ASSUME IInv, WaitInv, NEW o \in Opens, pc[o] \notin Reg, key[o] \in Files,
           waiters' = [waiters EXCEPT ![key[o]] = @ \cup {o}],
           UNCHANGED <<woken, key>>, pc'[o] \in Reg,
           \A p \in Opens \ {o} : pc'[p] = pc[p]
    PROVE  WaitInv'
  <1>1. \A k \in Files : waiters'[k] = IF k = key[o] THEN waiters[k] \cup {o} ELSE waiters[k]
    BY DEF IInv, TypeInv
  <1> QED
    BY <1>1 DEF IInv, TypeInv, WaitInv

\* No step abandons a registration.
LEMMA WaitNext == IInv /\ WaitInv /\ [Next]_vars => WaitInv'
  <1> SUFFICES ASSUME IInv, WaitInv, [Next]_vars PROVE WaitInv'
    OBVIOUS
  <1>0. pc \in [Opens -> Phases] /\ key \in [Opens -> Files \cup {NoKey}]
    BY DEF IInv, TypeInv
  <1>1. ASSUME NEW o \in Opens, NEW k \in Files, NEW r \in Requests,
               OpenFile(o, k, r) \/ PreCheck(o, k, r)
        PROVE  WaitInv'
    <2>1. /\ UNCHANGED <<waiters, woken>>
          /\ \A p \in Opens : pc[p] \in Reg => pc'[p] \in Reg /\ key'[p] = key[p]
      BY <1>0, <1>1 DEF OpenFile, PreCheck, goto, tableVars, Reg
    <2> QED
      BY <2>1, WaitQuiet
  <1>2. ASSUME NEW o \in Opens,
               \/ TruncateAndOpen(o) \/ BeginSharingWait(o) \/ DeadlineFires(o)
               \/ Probe(o) \/ RefuseCreate(o) \/ Publish(o) \/ CloseFile(o)
               \/ Detach(o) \/ ReclaimSaved(o)
        PROVE  WaitInv'
    <2>1. UNCHANGED <<waiters, woken>>
      BY <1>2 DEF TruncateAndOpen, BeginSharingWait, DeadlineFires, Probe, RefuseCreate,
         Publish, CloseFile, Detach, ReclaimSaved, tableVars
    <2>2. \A p \in Opens : pc[p] \in Reg => pc'[p] \in Reg /\ key'[p] = key[p]
      BY <1>0, <1>2 DEF TruncateAndOpen, BeginSharingWait, DeadlineFires, Probe,
         RefuseCreate, Publish, CloseFile, Detach, ReclaimSaved, Forget, goto, Reg
    <2> QED
      BY <2>1, <2>2, WaitQuiet
  <1>3. ASSUME NEW o \in Opens, ReleaseShareMode(o) \/ ReopenFails(o)
        PROVE  WaitInv'
    <2>1. /\ release(o)
          /\ \A p \in Opens : pc[p] \in Reg => pc'[p] \in Reg /\ key'[p] = key[p]
      BY <1>0, <1>3 DEF ReleaseShareMode, ReopenFails, Forget, goto, Reg, Admitted
    <2> QED
      BY <2>1, WaitRelease
  <1>4. ASSUME NEW o \in Opens, GiveUpAtCap(o) \/ WaitTimesOut(o)
        PROVE  WaitInv'
    <2>1. /\ pc[o] \in Reg /\ unwait(o) /\ UNCHANGED key
          /\ \A p \in Opens \ {o} : pc'[p] = pc[p]
      BY <1>0, <1>4 DEF GiveUpAtCap, WaitTimesOut, goto, Reg
    <2> QED
      BY <2>1, WaitUnwait
  <1>5. ASSUME NEW o \in Opens, SelectWoken(o)
        PROVE  WaitInv'
    BY <1>0, <1>5 DEF SelectWoken, goto, Reg, WaitInv, IInv, TypeInv
  <1>6. ASSUME NEW o \in Opens, TryAcquire(o) \/ Retry(o)
        PROVE  WaitInv'
    <2>1. /\ pc[o] \notin Reg /\ key[o] \in Files /\ UNCHANGED <<woken, key>>
          /\ \A p \in Opens \ {o} : pc'[p] = pc[p]
      BY <1>0, <1>6 DEF TryAcquire, Retry, goto, Reg, IInv, PhaseInv
    <2>2. CASE Grantable(o)
      <3>1. UNCHANGED waiters
        BY <1>6, <2>2 DEF TryAcquire, Retry
      <3> QED
        BY <2>1, <3>1, WaitQuiet
    <2>3. CASE ~Grantable(o)
      <3>1. pc'[o] \in Reg /\ waiters' = [waiters EXCEPT ![key[o]] = @ \cup {o}]
        BY <1>0, <1>6, <2>3 DEF TryAcquire, Retry, goto, Reg
      <3> QED
        BY <2>1, <3>1, WaitRegister
    <2> QED
      BY <2>2, <2>3
  <1>7. ASSUME NEW o \in Opens, NEW n \in Opens, NEW k \in Files, Reopen(o, n, k)
        PROVE  WaitInv'
    <2>1. /\ UNCHANGED <<waiters, woken>>
          /\ \A p \in Opens : pc[p] \in Reg => pc'[p] \in Reg /\ key'[p] = key[p]
      BY <1>0, <1>7 DEF Reopen, tableVars, Reg
    <2> QED
      BY <2>1, WaitQuiet
  <1>8. ASSUME NEW o \in Opens, NEW n \in Opens, TransferToReplacement(o, n)
        PROVE  WaitInv'
    <2>1. pc[o] = "replaced" /\ pc[n] = "reopened"
      BY <1>8 DEF TransferToReplacement, IInv, SavedInv
    <2>2. UNCHANGED <<waiters, woken>>
      BY <1>8 DEF TransferToReplacement, transfer, tableVars
    <2>3. \A p \in Opens : pc[p] \in Reg => pc'[p] \in Reg /\ key'[p] = key[p]
      BY <1>0, <1>8, <2>1 DEF TransferToReplacement, Reg
    <2> QED
      BY <2>2, <2>3, WaitQuiet
  <1>9. CASE UNCHANGED vars
    BY <1>9, WaitQuiet DEF vars
  <1> QED
    BY <1>1, <1>2, <1>3, <1>4, <1>5, <1>6, <1>7, <1>8, <1>9 DEF Next, CreateStep

\* Without durable handles a handle leaves the table before its descriptor is
\* closed, so the sweep of acquireLocked finds nothing to sweep.
LEMMA AllLive ==
    ASSUME IInv, PlainInv, NEW k \in Files
    PROVE  LiveEntries(k) = byFile[k]
  <1>1. \A o \in Opens : owners[o] # NoKey =>
            /\ fd[o] = "open" /\ owners[o] = key[o]
            /\ newShareModeEntry(o, req[o]).owner = o
    BY NewEntryType DEF IInv, PhaseInv, PlainInv, Admitted
  <1>2. byFile[k] = {newShareModeEntry(o, req[o]) : o \in Holders(owners, k)}
    BY DEF IInv, TableInv
  <1>3. \A o \in Holders(owners, k) :
            o \in Opens /\ owners[o] = k /\ owners[o] # NoKey
    BY ConstantsOK DEF Holders
  <1>4. \A e \in byFile[k] : fd[e.owner] = "open" /\ key[e.owner] = k
    BY <1>1, <1>2, <1>3
  <1> QED
    BY <1>4 DEF LiveEntries, entryLive

\* Nobody new waits, and where somebody waits no reservation goes.
LEMMA MissedQuiet ==
    ASSUME IInv, WaitInv, NoMissedWake,
           \A k \in Files : \A p \in waiters'[k] : p \in waiters[k] /\ byFile[k] \subseteq byFile'[k],
           \A p \in Opens : pc[p] \in Reg => req'[p] = req[p]
    PROVE  NoMissedWake'
  <1> SUFFICES ASSUME NEW k \in Files, NEW p \in waiters'[k]
               PROVE  \E e \in byFile'[k] : shareConflict(e, newShareModeEntry(p, req'[p]))
    BY DEF NoMissedWake
  <1>1. p \in waiters[k] /\ p \in Opens /\ req'[p] = req[p]
    BY DEF IInv, TypeInv, WaitInv
  <1>2. PICK e \in byFile[k] : shareConflict(e, newShareModeEntry(p, req[p]))
    BY <1>1 DEF NoMissedWake
  <1> QED
    BY <1>1, <1>2

\* A release takes a reservation away and ends every wait on its file.
LEMMA MissedRelease ==
    ASSUME IInv, WaitInv, NoMissedWake, NEW o \in Opens, release(o),
           \A p \in Opens : pc[p] \in Reg => req'[p] = req[p]
    PROVE  NoMissedWake'
  <1>1. \A k \in Files : \A p \in waiters'[k] : p \in waiters[k] /\ byFile[k] \subseteq byFile'[k]
    <2>1. CASE owners[o] = NoKey
      BY <2>1 DEF release, tableVars
    <2>2. CASE owners[o] # NoKey
      <3>1. owners[o] \in Files
        BY <2>2 DEF IInv, TypeInv
      <3>2. /\ waiters' = [waiters EXCEPT ![owners[o]] = {}]
            /\ byFile' = [byFile EXCEPT ![owners[o]] = {e \in @ : e.owner # o}]
        BY <2>2 DEF release
      <3>3. waiters'[owners[o]] = {}
        BY <3>1, <3>2 DEF IInv, TypeInv
      <3>4. \A k \in Files \ {owners[o]} : waiters'[k] = waiters[k] /\ byFile'[k] = byFile[k]
        BY <3>2 DEF IInv, TypeInv
      <3> QED
        BY <3>3, <3>4
    <2> QED
      BY <2>1, <2>2
  <1> QED
    BY <1>1, MissedQuiet

\* acquireOrWait tests and registers under one lock: whoever it registers
\* conflicts with an entry that is in the table at that moment.
LEMMA MissedAcquire ==
    ASSUME IInv, WaitInv, PlainInv, NoMissedWake, NEW o \in Opens,
           pc[o] \in {"opened", "retry"}, acquireLocked(o), UNCHANGED req,
           \/ Grantable(o) /\ UNCHANGED waiters
           \/ ~Grantable(o) /\ waiters' = [waiters EXCEPT ![key[o]] = @ \cup {o}]
    PROVE  NoMissedWake'
  <1> DEFINE Conflicts(p, e) == shareConflict(e, newShareModeEntry(p, req[p]))
  <1>1. owners[o] = NoKey /\ key[o] \in Files
    BY DEF IInv, PhaseInv, Admitted
  <1>2. LiveEntries(key[o]) = byFile[key[o]]
    BY <1>1, AllLive
  <1>3. \A k \in Files : byFile[k] \subseteq byFile'[k]
    <2>1. byFile' = [byFile EXCEPT ![key[o]] = byFile[key[o]] \cup
              (IF Grantable(o) THEN {newShareModeEntry(o, req[o])} ELSE {})]
      BY <1>1, <1>2 DEF acquireLocked
    <2> QED
      BY <1>1, <2>1 DEF IInv, TypeInv
  <1>4. ~Grantable(o) => \E e \in byFile[key[o]] : Conflicts(o, e)
    BY <1>1, <1>2 DEF Grantable
  <1>5. \A k \in Files : \A p \in waiters[k] : \E e \in byFile[k] : Conflicts(p, e)
    BY DEF NoMissedWake
  <1> HIDE DEF Conflicts
  <1>6. \A k \in Files : \A p \in waiters'[k] :
            p \in waiters[k] \/ (~Grantable(o) /\ p = o /\ k = key[o])
    BY <1>1 DEF IInv, TypeInv
  <1>7. \A k \in Files : \A p \in waiters'[k] : \E e \in byFile'[k] : Conflicts(p, e)
    BY <1>3, <1>4, <1>5, <1>6
  <1> QED
    BY <1>7 DEF NoMissedWake, Conflicts

\* Without durable handles no step leaves a CREATE asleep on a free file.
LEMMA MissedNext ==
    ASSUME DurableOpens = {}, IInv, WaitInv, PlainInv, NoMissedWake, [Next]_vars
    PROVE  PlainInv' /\ NoMissedWake'
  <1>0. /\ pc \in [Opens -> Phases] /\ req \in [Opens -> Requests \cup {NoKey}]
        /\ saved \in [Opens -> Opens \cup {NoKey}]
    BY DEF IInv, TypeInv
  <1>1. ASSUME NEW o \in Opens, NEW k \in Files, NEW r \in Requests,
               OpenFile(o, k, r) \/ PreCheck(o, k, r)
        PROVE  PlainInv' /\ NoMissedWake'
    <2>1. PlainInv'
      BY <1>0, <1>1 DEF OpenFile, PreCheck, goto, PlainInv
    <2>2. /\ UNCHANGED <<waiters, byFile>>
          /\ \A p \in Opens : pc[p] \in Reg => req'[p] = req[p]
      BY <1>0, <1>1 DEF OpenFile, PreCheck, tableVars, Reg
    <2> QED
      BY <2>1, <2>2, MissedQuiet
  <1>2. ASSUME NEW o \in Opens,
               \/ TruncateAndOpen(o) \/ BeginSharingWait(o) \/ DeadlineFires(o)
               \/ Probe(o) \/ RefuseCreate(o) \/ Publish(o) \/ CloseFile(o)
               \/ SelectWoken(o)
        PROVE  PlainInv' /\ NoMissedWake'
    <2>1. PlainInv'
      BY <1>0, <1>2 DEF TruncateAndOpen, BeginSharingWait, DeadlineFires, Probe,
         RefuseCreate, Publish, CloseFile, SelectWoken, Forget, goto, PlainInv
    <2>2. UNCHANGED <<waiters, byFile>>
      BY <1>2 DEF TruncateAndOpen, BeginSharingWait, DeadlineFires, Probe, RefuseCreate,
         Publish, CloseFile, SelectWoken, tableVars
    <2>3. \A p \in Opens : pc[p] \in Reg => req'[p] = req[p]
      BY <1>0, <1>2 DEF TruncateAndOpen, BeginSharingWait, DeadlineFires, Probe,
         RefuseCreate, Publish, CloseFile, SelectWoken, Forget, Reg
    <2> QED
      BY <2>1, <2>2, <2>3, MissedQuiet
  <1>3. ASSUME NEW o \in Opens, ReleaseShareMode(o)
        PROVE  PlainInv' /\ NoMissedWake'
    <2>1. PlainInv'
      BY <1>0, <1>3 DEF ReleaseShareMode, goto, PlainInv
    <2>2. NoMissedWake'
      BY <1>3, MissedRelease DEF ReleaseShareMode
    <2> QED
      BY <2>1, <2>2
  <1>4. ASSUME NEW o \in Opens, GiveUpAtCap(o) \/ WaitTimesOut(o)
        PROVE  PlainInv' /\ NoMissedWake'
    <2>1. PlainInv'
      BY <1>0, <1>4 DEF GiveUpAtCap, WaitTimesOut, goto, PlainInv
    <2>2. /\ waiters' = [waiters EXCEPT ![key[o]] = @ \ {o}]
          /\ UNCHANGED <<byFile, req>>
      BY <1>4 DEF GiveUpAtCap, WaitTimesOut, unwait
    <2>3. \A k \in Files : waiters'[k] \subseteq waiters[k]
      BY <2>2 DEF IInv, TypeInv
    <2> QED
      BY <2>1, <2>2, <2>3, MissedQuiet
  <1>5. ASSUME NEW o \in Opens, TryAcquire(o) \/ Retry(o)
        PROVE  PlainInv' /\ NoMissedWake'
    <2>1. PlainInv'
      BY <1>0, <1>5 DEF TryAcquire, Retry, goto, PlainInv
    <2>2. /\ pc[o] \in {"opened", "retry"} /\ acquireLocked(o) /\ UNCHANGED req
          /\ \/ Grantable(o) /\ UNCHANGED waiters
             \/ ~Grantable(o) /\ waiters' = [waiters EXCEPT ![key[o]] = @ \cup {o}]
      BY <1>5 DEF TryAcquire, Retry
    <2> QED
      BY <2>1, <2>2, MissedAcquire
  <1>6. ASSUME NEW o \in Opens, Detach(o) \/ ReclaimSaved(o) \/ ReopenFails(o)
        PROVE  FALSE
    BY <1>6 DEF Detach, ReclaimSaved, ReopenFails, PlainInv
  <1>7. ASSUME NEW o \in Opens, NEW n \in Opens,
               TransferToReplacement(o, n) \/ \E k \in Files : Reopen(o, n, k)
        PROVE  FALSE
    BY <1>7 DEF TransferToReplacement, Reopen, PlainInv
  <1>8. CASE UNCHANGED vars
    <2>1. PlainInv'
      BY <1>8 DEF vars, PlainInv
    <2> QED
      BY <1>8, <2>1, MissedQuiet DEF vars
  <1> QED
    BY <1>1, <1>2, <1>3, <1>4, <1>5, <1>6, <1>7, <1>8 DEF Next, CreateStep

-----------------------------------------------------------------------------
(* The theorems.                                                           *)

\* The invariant holds in every reachable state.
LEMMA Invariance == Spec => [](IInv /\ CountInv)
  <1>1. Init => IInv
    BY ConstantsOK DEF Init, IInv, TypeInv, TableInv, CompatInv, PhaseInv, SavedInv,
       Holders, Phases, Admitted
  <1>2. Init => CountInv
    <2> SUFFICES ASSUME Init PROVE CountInv
      OBVIOUS
    <2>1. \A c \in Conns : Of(pc, Counted, c) = {} /\ Of(pc, Parked, c) = {}
      BY DEF Init, Of, Counted, Parked
    <2>2. Cardinality({}) = 0
      BY FS_EmptySet
    <2> QED
      BY <2>1, <2>2, ConstantsOK DEF Init, CountInv
  <1> QED
    BY <1>1, <1>2, IInvNext, CountNext, PTL DEF Spec

\* Every variable keeps its type, the parking counter never going below zero
\* (sharemode.go's table, sharewait.go's counter).
THEOREM TypeCorrect == Spec => []TypeOK
  <1>1. IInv /\ CountInv => TypeOK
    BY DEF IInv, TypeInv, CountInv, TypeOK
  <1> QED
    BY <1>1, Invariance, PTL

\* acquireLocked never lets two CREATEs with conflicting deny modes in, however
\* waits, wakes, sweeps, releases and reclaims interleave.
THEOREM AdmissionSafe == Spec => []AdmittedHandlesCompatible
  <1>1. IInv => AdmittedHandlesCompatible
    BY ConstantsOK DEF IInv, CompatInv, PhaseInv, AdmittedHandlesCompatible, Admitted
  <1> QED
    BY <1>1, Invariance, PTL

\* owners and byFile never disagree, and no handle occupies two slots.
THEOREM IndexesAlwaysAgree == Spec => []IndexesAgree
  <1>1. IInv => IndexesAgree
    <2> SUFFICES ASSUME IInv PROVE IndexesAgree
      OBVIOUS
    <2>1. \A o \in Opens : owners[o] # NoKey =>
              owners[o] \in Files /\ newShareModeEntry(o, req[o]).owner = o
      BY NewEntryType DEF IInv, TypeInv, PhaseInv, Admitted
    <2>2. \A k \in Files : byFile[k] = {newShareModeEntry(o, req[o]) : o \in Holders(owners, k)}
      BY DEF IInv, TableInv
    <2>3. \A k \in Files : \A o \in Holders(owners, k) : o \in Opens /\ owners[o] = k /\ owners[o] # NoKey
      BY ConstantsOK DEF Holders
    <2>4. \A k \in Files : \A e \in byFile[k] : e.owner \in Opens /\ owners[e.owner] = k /\ e = newShareModeEntry(e.owner, req[e.owner])
      BY <2>1, <2>2, <2>3
    <2>5. \A o \in Opens : owners[o] # NoKey => newShareModeEntry(o, req[o]) \in byFile[owners[o]]
      BY <2>1, <2>2 DEF Holders
    <2> QED
      BY <2>1, <2>4, <2>5 DEF IndexesAgree
  <1> QED
    BY <1>1, Invariance, PTL

\* A reservation always has a handle that will still give it up.
THEOREM NoLeak == Spec => []NoReservationLeak
  <1>1. IInv => NoReservationLeak
    BY DEF IInv, PhaseInv, NoReservationLeak
  <1> QED
    BY <1>1, Invariance, PTL

\* No connection parks more CREATEs than maxSharingWaits, and the counter that
\* enforces it is exact.
THEOREM ParkingSafe == Spec => []ParkingBounded
  <1>1. CountInv => ParkingBounded
    BY DEF CountInv, ParkingBounded, Of
  <1> QED
    BY <1>1, Invariance, PTL
\* No registration outlives the wait it was made for, durable handles or not:
\* every way out of waitForShareMode drops it or finds it already woken.
THEOREM WaitersStillWait == Spec => []NoAbandonedWaiter
  <1>1. Init => WaitInv
    BY DEF Init, WaitInv
  <1>2. WaitInv => NoAbandonedWaiter
    BY DEF WaitInv, Reg, NoAbandonedWaiter
  <1> QED
    BY <1>1, <1>2, Invariance, WaitNext, PTL DEF Spec

\* Where no handle is durable, a CREATE asleep on a file always has a
\* reservation in the table to sleep for: acquireOrWait's test and registration
\* cannot be split by a release, and nothing but a release takes an entry out.
THEOREM NoWakeMissed == DurableOpens = {} => (Spec => []WaitersAccounted)
  <1> SUFFICES ASSUME DurableOpens = {} PROVE Spec => []WaitersAccounted
    OBVIOUS
  <1>1. Init => WaitInv /\ PlainInv /\ NoMissedWake
    BY DEF Init, WaitInv, PlainInv, NoMissedWake
  <1>2. WaitInv /\ NoMissedWake => WaitersAccounted
    BY DEF WaitInv, Reg, NoAbandonedWaiter, WaitersAccounted
  <1>3. IInv /\ WaitInv /\ PlainInv /\ NoMissedWake /\ [Next]_vars => PlainInv' /\ NoMissedWake'
    BY MissedNext
  <1> QED
    BY <1>1, <1>2, <1>3, Invariance, WaitNext, PTL DEF Spec
=============================================================================
