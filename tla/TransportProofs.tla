-------------------------- MODULE TransportProofs --------------------------
(***************************************************************************)
(* What holds of every connection, for every peer, set of sessions, size   *)
(* of the pool and bounds of the queue: the answers that are owed reach    *)
(* the socket unless something had to be discarded, they are sealed as     *)
(* their requests were, a chain closes its own handle, and the count of    *)
(* the backlog is exact and bounded.                                       *)
(***************************************************************************)
EXTENDS Transport, SequenceTheorems, WellFoundedInduction, TLAPS

-----------------------------------------------------------------------------
(* The invariants.                                                         *)

\* What of TypeOK the proofs need.  queued is natural only because it is exact, a
\* fact about sums: see QueueInv, and TypeCorrect for the whole of TypeOK.
Types ==
    /\ reader \in ReaderSteps
    /\ cur \in Frames \cup {0}
    /\ fr \in [Frames -> Frame]
    /\ \A f \in Frames : fr[f].i >= 1
    /\ got \subseteq Sessions
    /\ snd \in [Senders -> [at : SendSteps, buf : Seq(Answer), ok : BOOLEAN]]
    /\ q \in Seq(Seq(Answer))
    /\ inHand \in Seq(Answer)
    /\ owed \subseteq Answer

\* The steps of the reader after the pool has drained, and after writer.Close.
Over == {"cancel", "signal", "wait", "forced", "killed", "end", "gone"}
Shut == {"wait", "forced", "killed", "end", "gone"}

\* The steps of a frame that may hold answers.
Busy == {"chain", "setup", "flush"}

\* The reader has a frame in hand only where it says so, and past the drain no
\* frame is under way; a frame that is not under way holds no answer.
LoopInv ==
    /\ cur # 0 <=> reader \in {"drainSerial", "serial", "submit"}
    /\ reader \in {"drainSerial", "submit"} => fr[cur].at = "read"
    /\ reader \in Over => \A f \in Frames : fr[f].at \in {"unsent", "done"}
    /\ \A f \in Frames :
          fr[f].at \notin Busy => fr[f].pend = <<>> /\ snd[frameOf(f)].at = "idle"

\* Before the drain, only what discards the backlog closes the writer.
ShutInv ==
    /\ closed => discard \/ reader \in Shut
    /\ \A s \in Senders : snd[s].at = "close" => discard
    /\ writer = "close" => discard
    /\ writer \in {"flush", "exited"} => closed
    /\ flushing => closed
    /\ writer \notin {"count", "write"} => inHand = <<>>

In(a, p) == \E k \in DOMAIN p : p[k] = a

\* Where an answer can be before the socket has it.
OnItsWay(a) ==
    \/ In(a, fr[a.f].pend)
    \/ snd[frameOf(a.f)].at # "idle" /\ In(a, snd[frameOf(a.f)].buf)
    \/ \E k \in DOMAIN q : In(a, q[k])
    \/ In(a, inHand)

\* No answer is dropped before something decides to discard.
OwedInv ==
    /\ ~discard /\ writer # "discard" => \A a \in owed : OnItsWay(a)
    /\ ~discard /\ writer = "exited" => owed = {}

DeliveryInv == Types /\ LoopInv /\ ShutInv /\ OwedInv

\* The answers of one message are for one session and sealed or not, together.
Uniform(p) == \A n \in DOMAIN p : p[n].sess = p[1].sess /\ p[n].enc = p[1].enc

\* An answer that a sealed request owns is sealed.
Sealed(a, frames) ==
    /\ frames[a.f].at # "unsent"
    /\ a.kind # "setup" /\ a.sess # NoSession /\ frames[a.f].sealed = a.sess => a.enc

AllSealed(p, frames) == \A n \in DOMAIN p : Sealed(p[n], frames)

\* Sealing holds wherever an answer is, and rests on gotEncrypted being set
\* before the frame is executed.
SealInv ==
    /\ \A f \in Frames : /\ fr[f].sealed \in got \cup {NoSession}
                         /\ fr[f].at = "unsent" => fr[f].chain = <<>>
                         /\ AllSealed(fr[f].pend, fr)
    /\ \A s \in Senders : Uniform(snd[s].buf) /\ AllSealed(snd[s].buf, fr)
    /\ \A k \in DOMAIN q : Uniform(q[k]) /\ AllSealed(q[k], fr)

\* CREATE i of chain c is answered by the CLOSE j.
Matched(c, i, j) ==
    /\ i < j
    /\ c[i].cmd = "create"
    /\ c[j].cmd = "close" /\ sentinel(c[j]) /\ c[j].related /\ c[j].sess = c[i].sess
    /\ \A k \in (i + 1)..(j - 1) : c[k].cmd # "create"

\* A chain whose next member is p: the last handle opened is the one a CLOSE will
\* name, and no handle is left that was to be closed by now.
Tracked(c, p, last, live) ==
    /\ last # 0 => last \in DOMAIN c /\ last < p /\ c[last].cmd = "create"
    /\ \A i \in live : i \in DOMAIN c /\ i < p
    /\ \A i \in live : (\A k \in (i + 1)..(p - 1) : c[k].cmd # "create") => last = i
    /\ \A i \in live : \A j \in DOMAIN c : j < p => ~Matched(c, i, j)

\* The handles of a chain are closed in the session that opened them.  The server
\* does not ask for this: a related CLOSE of another session finds no handle and
\* still uses up LastCreatedFileID.
OneSession(c) ==
    \A i, j \in DOMAIN c :
        c[i].cmd = "create" /\ c[j].cmd = "close" /\ sentinel(c[j]) /\ c[j].related =>
            c[i].sess = c[j].sess

ChainsOfOneSession == \A f \in Frames : \A m \in Inbound[f] : OneSession(m.chain)

Kept(r) ==
    /\ OneSession(r.chain)
    /\ r.at \in {"unsent", "read"} => r.i = 1 /\ r.last = 0 /\ r.live = {}
    /\ r.at \in {"chain", "setup"} => Tracked(r.chain, r.i, r.last, r.live)
    /\ r.at = "setup" => r.i \in DOMAIN r.chain /\ r.chain[r.i].cmd = "setup"
    /\ r.at \in {"flush", "abort", "deadline", "done"} /\ ~r.failed =>
          \A i \in r.live : \A j \in DOMAIN r.chain : ~Matched(r.chain, i, j)

ChainInv == \A f \in Frames : Kept(fr[f])

-----------------------------------------------------------------------------
(* Helpers.                                                                *)

\* A nonempty set of naturals has a least element.
LEMMA LeastElement ==
    ASSUME NEW S, S \subseteq Nat, S # {}
    PROVE  \E n \in S : \A m \in S : n <= m
<1> DEFINE R == {ss \in Nat \X Nat : ss[1] < ss[2]}
<1>0. IsWellFoundedOn(R, Nat)
  BY NatLessThanWellFounded, Zenon DEF OpToRel
<1>1. \E n \in S : \A m \in S : ~(<<m, n>> \in R)
  <2> HIDE DEF R
  <2> QED  BY <1>0, WFMin, Zenon
<1>2. PICK n \in S : \A m \in S : ~(<<m, n>> \in R)
  BY <1>1
<1>3. \A m \in S : ~(m < n)
  BY <1>2
<1> QED  BY <1>2, <1>3

\* group is the length of a uniform prefix.
LEMMA GroupIsPrefix ==
    ASSUME NEW p \in Seq(Answer), p # <<>>
    PROVE  /\ group(p) \in 1..Len(p)
           /\ \A k \in 1..group(p) : p[k].sess = p[1].sess /\ p[k].enc = p[1].enc
<1> DEFINE ok(n) == /\ \A k \in 1..n : p[k].sess = p[1].sess /\ p[k].enc = p[1].enc
                    /\ n < Len(p) => p[n + 1].sess # p[1].sess \/ p[n + 1].enc # p[1].enc
           S == {k \in 1..Len(p) : p[k].sess # p[1].sess \/ p[k].enc # p[1].enc}
<1>0. Len(p) \in Nat /\ Len(p) >= 1
  OBVIOUS
<1>1. \E n \in 1..Len(p) : ok(n)
  <2>1. CASE S = {}
    <3>1. \A k \in 1..Len(p) : p[k].sess = p[1].sess /\ p[k].enc = p[1].enc
      BY <2>1, Zenon
    <3>2. ok(Len(p))
      BY <3>1, <1>0
    <3> QED  BY <3>2, <1>0
  <2>2. CASE S # {}
    <3>1. S \subseteq Nat
      BY <1>0
    <3>2. PICK m \in S : \A k \in S : m <= k
      BY <3>1, <2>2, LeastElement
    <3>3. m \in 1..Len(p) /\ m # 1
      OBVIOUS
    <3>4. \A k \in 1..(m - 1) : p[k].sess = p[1].sess /\ p[k].enc = p[1].enc
      BY <3>2, <3>3, <1>0
    <3>5. m - 1 \in 1..Len(p) /\ (m - 1) + 1 = m
      BY <3>3, <1>0
    <3>6. p[m].sess # p[1].sess \/ p[m].enc # p[1].enc
      BY <3>2
    <3>7. ok(m - 1)
      BY <3>4, <3>5, <3>6
    <3> QED  BY <3>5, <3>7
  <2> QED  BY <2>1, <2>2
<1>2. group(p) = CHOOSE n \in 1..Len(p) : ok(n)
  BY DEF group
<1> HIDE DEF ok
<1>3. group(p) \in 1..Len(p) /\ ok(group(p))
  BY <1>1, <1>2
<1> QED  BY <1>3 DEF ok
\* What Append, Head, Tail and a split at n do to the elements of a sequence.
LEMMA AppendElements ==
    ASSUME NEW S, NEW p \in Seq(S), NEW a \in S
    PROVE  /\ Append(p, a) \in Seq(S)
           /\ In(a, Append(p, a))
           /\ \A b : In(b, p) => In(b, Append(p, a))
           /\ \A k \in DOMAIN Append(p, a) : Append(p, a)[k] = a \/ (k \in DOMAIN p /\ Append(p, a)[k] = p[k])
           /\ \A k \in DOMAIN p : k \in DOMAIN Append(p, a) /\ Append(p, a)[k] = p[k]
           /\ Len(p) + 1 \in DOMAIN Append(p, a) /\ Append(p, a)[Len(p) + 1] = a
<1>1. /\ Append(p, a) \in Seq(S) /\ Len(Append(p, a)) = Len(p) + 1 /\ Len(p) \in Nat
      /\ \A k \in 1..Len(p) : Append(p, a)[k] = p[k]
      /\ Append(p, a)[Len(p) + 1] = a
      /\ DOMAIN p = 1..Len(p) /\ DOMAIN Append(p, a) = 1..(Len(p) + 1)
  OBVIOUS
<1>2. \A k \in 1..(Len(p) + 1) : k = Len(p) + 1 \/ k \in 1..Len(p)
  BY <1>1
<1>3. \A k \in 1..Len(p) : k \in 1..(Len(p) + 1)
  BY <1>1
<1>4. Len(p) + 1 \in 1..(Len(p) + 1)
  BY <1>1
<1> QED  BY <1>1, <1>2, <1>3, <1>4, Zenon DEF In

LEMMA TailElements ==
    ASSUME NEW S, NEW p \in Seq(S), p # <<>>
    PROVE  /\ Head(p) \in S /\ Tail(p) \in Seq(S)
           /\ 1 \in DOMAIN p /\ Head(p) = p[1]
           /\ \A k \in DOMAIN Tail(p) : k + 1 \in DOMAIN p /\ Tail(p)[k] = p[k + 1]
           /\ \A k \in DOMAIN p : k = 1 \/ (k - 1 \in DOMAIN Tail(p) /\ Tail(p)[k - 1] = p[k])
  OBVIOUS

LEMMA SplitElements ==
    ASSUME NEW S, NEW p \in Seq(S), NEW n \in 1..Len(p)
    PROVE  /\ SubSeq(p, 1, n) \in Seq(S) /\ SubSeq(p, n + 1, Len(p)) \in Seq(S)
           /\ DOMAIN SubSeq(p, 1, n) = 1..n
           /\ \A k \in 1..n : k \in DOMAIN p /\ SubSeq(p, 1, n)[k] = p[k]
           /\ \A k \in DOMAIN SubSeq(p, n + 1, Len(p)) :
                 k + n \in DOMAIN p /\ SubSeq(p, n + 1, Len(p))[k] = p[k + n]
           /\ \A b : In(b, p) => In(b, SubSeq(p, 1, n)) \/ In(b, SubSeq(p, n + 1, Len(p)))
<1> DEFINE h == SubSeq(p, 1, n)
           t == SubSeq(p, n + 1, Len(p))
<1>0. Len(p) \in Nat /\ n \in Nat /\ n >= 1 /\ n <= Len(p) /\ DOMAIN p = 1..Len(p)
  OBVIOUS
<1>1. h \in Seq(S) /\ Len(h) = n /\ \A k \in 1..n : h[k] = p[k]
  BY <1>0, SubSeqProperties
<1>2. t \in Seq(S) /\ Len(t) = Len(p) - n /\ \A k \in 1..Len(t) : t[k] = p[k + n]
  <2>1. CASE n + 1 <= Len(p)
    BY <2>1, <1>0, SubSeqProperties
  <2>2. CASE n = Len(p)
    BY <2>2, <1>0, SubSeqProperties
  <2> QED  BY <2>1, <2>2, <1>0
<1> HIDE DEF h, t
<1>3. DOMAIN h = 1..n /\ DOMAIN t = 1..(Len(p) - n)
  BY <1>1, <1>2
<1>4. ASSUME NEW b, In(b, p)  PROVE In(b, h) \/ In(b, t)
  <2>1. PICK k \in 1..Len(p) : p[k] = b
    BY <1>4, <1>0 DEF In
  <2>2. CASE k <= n
    BY <2>1, <2>2, <1>0, <1>1, <1>3 DEF In
  <2>3. CASE k > n
    <3>1. k - n \in 1..(Len(p) - n) /\ (k - n) + n = k
      BY <2>3, <1>0
    <3>2. t[k - n] = p[k]
      BY <3>1, <1>2, <1>3
    <3> QED  BY <2>1, <3>1, <3>2, <1>3 DEF In
  <2> QED  BY <2>1, <2>2, <2>3, <1>0
<1>5. \A k \in 1..n : k \in DOMAIN p
  BY <1>0
<1>6. \A k \in DOMAIN t : k + n \in DOMAIN p /\ t[k] = p[k + n]
  BY <1>0, <1>2, <1>3
<1> QED  BY <1>1, <1>2, <1>3, <1>4, <1>5, <1>6 DEF h, t


-----------------------------------------------------------------------------
(* The kinds of step.  A frame's record is looked into once, here.         *)

\* Frame f changes, and keeps its chain and the session it came sealed for.
Changes(f) ==
    /\ fr' \in [Frames -> Frame]
    /\ \A g \in Frames : g # f => fr'[g] = fr[g]
    /\ fr'[f].chain = fr[f].chain
    /\ fr'[f].sealed = fr[f].sealed
    /\ fr'[f].i >= 1

loopVars == <<reader, cur, got, closed, discard, writer, flushing>>

\* A member is answered with the rest of its chain.
Answered(f) ==
    /\ InChain(f) /\ Changes(f)
    /\ fr'[f].at \in Busy
    /\ \E s \in Sessions \cup {NoSession} :
          LET a == answer(f, "sync", s, willEncryptResponse(f, s)) IN
          /\ fr'[f].pend = Append(fr[f].pend, a)
          /\ owed' = owed \cup {a}
    /\ UNCHANGED <<loopVars, snd, q, inHand>>

\* A member is answered on its own: STATUS_PENDING, or SESSION_SETUP's answer.
SentAlone(f) ==
    /\ InChain(f) /\ Changes(f)
    /\ fr'[f].at \in Busy /\ fr'[f].pend = fr[f].pend
    /\ \E a \in Answer :
          /\ a.f = f
          /\ a.kind = "setup" \/ a.enc = (a.sess \in got)
          /\ send(frameOf(f), <<a>>)
          /\ owed' = owed \cup {a}
    /\ UNCHANGED <<loopVars, q, inHand>>

\* A frame goes on without an answer; one that leaves its chain has none left.
Moved(f) ==
    /\ Changes(f)
    /\ fr[f].at \notin {"unsent", "read", "done"} /\ fr'[f].at \notin {"unsent", "read"}
    /\ fr'[f].pend = fr[f].pend
    /\ fr'[f].at \in Busy => fr[f].at \in Busy
    /\ fr'[f].at \in Busy \/ Flushed(f) \/ fr[f].at \notin Busy
    /\ UNCHANGED <<loopVars, snd, q, inHand, owed>>

\* The steps of the reader that touch no frame.
Turned ==
    /\ UNCHANGED <<fr, cur, got, snd, q, inHand, owed, writer, flushing>>
    /\ reader' \in ReaderSteps
    /\ \/ reader' = reader
       \/ {reader, reader'} \cap {"drainSerial", "serial", "submit"} = {}
    /\ reader' \in Over => reader \in Over \/ (reader = "drain" /\ Pooled = {})
    /\ reader \in Shut => reader' \in Shut
    /\ closed' => closed \/ reader' \in Shut
    /\ (closed => closed') /\ (discard => discard')

\* What respond does to its frame.
LEMMA RespondFields ==
    ASSUME Types, NEW f \in Frames, NEW r \in Frame, NEW status \in {"success", "error"},
           NEW s \in Sessions \cup {NoSession}, respond(f, r, status, s),
           r.chain = fr[f].chain, r.sealed = fr[f].sealed, r.pend = fr[f].pend, r.i = fr[f].i
    PROVE  LET a == answer(f, "sync", s, willEncryptResponse(f, s)) IN
           /\ Changes(f)
           /\ fr'[f].at = r.at /\ fr'[f].failed = r.failed
           /\ fr'[f].i = fr[f].i + 1 /\ fr'[f].last = r.last /\ fr'[f].live = r.live
           /\ fr'[f].pend = Append(fr[f].pend, a)
           /\ owed' = owed \cup {a}
<1> DEFINE a == answer(f, "sync", s, willEncryptResponse(f, s))
<1>1. a \in Answer
  BY DEF Types, Frame, Answer, answer, willEncryptResponse
<1>a. r.pend \in Seq(Answer) /\ r.i \in Nat
  BY DEF Frame
<1>p. PICK p \in Seq(Answer) : p = Append(r.pend, a)
  <2> HIDE DEF a
  <2> QED  BY <1>1, <1>a, AppendElements
<1>i. PICK j \in Nat : j = r.i + 1
  BY <1>a
<1> DEFINE n == [r EXCEPT !.i = j, !.status = status, !.pend = p]
<1>2. fr' = [fr EXCEPT ![f] = n] /\ owed' = owed \cup {a}
  BY <1>p, <1>i DEF respond
<1>3. n \in Frame
  BY DEF Frame
<1>4. /\ n.at = r.at /\ n.failed = r.failed /\ n.i = j /\ n.last = r.last
      /\ n.live = r.live /\ n.pend = p
      /\ n.chain = r.chain /\ n.sealed = r.sealed
  BY DEF Frame
<1> HIDE DEF n, a
<1>5. fr'[f] = n /\ fr' \in [Frames -> Frame] /\ \A g \in Frames : g # f => fr'[g] = fr[g]
  BY <1>2, <1>3 DEF Types
<1>6. j >= 1
  BY <1>a, <1>i
<1> QED  BY <1>2, <1>4, <1>5, <1>6, <1>p, <1>i DEF Changes, a

\* A member of a chain is one of the declared ones.
LEMMA NextIsMember ==
    ASSUME Types, NEW f \in Frames, InChain(f)
    PROVE  /\ next(f) \in Member
           /\ fr[f].i \in DOMAIN fr[f].chain
           /\ fr[f] \in Frame
<1>1. fr[f] \in Frame /\ fr[f].chain \in Seq(Member) /\ fr[f].i \in Nat /\ fr[f].i >= 1
  BY DEF Types, Frame
<1> QED  BY <1>1 DEF InChain, next

\* What becomes of a frame that goes on from one member to the next.
Fields(f, at, i, failed, last, live) ==
    /\ fr'[f].at = at /\ fr'[f].i = i /\ fr'[f].failed = failed
    /\ fr'[f].last = last /\ fr'[f].live = live

LEMMA RespondStep ==
    ASSUME Types, NEW f \in Frames, InChain(f), NEW r \in Frame, NEW status \in {"success", "error"},
           NEW s \in Sessions \cup {NoSession}, respond(f, r, status, s),
           chainUnchanged, UNCHANGED snd, r.at \in Busy,
           r.chain = fr[f].chain, r.sealed = fr[f].sealed, r.pend = fr[f].pend, r.i = fr[f].i
    PROVE  Answered(f) /\ Fields(f, r.at, fr[f].i + 1, r.failed, r.last, r.live)
<1> DEFINE a == answer(f, "sync", s, willEncryptResponse(f, s))
<1>1. /\ Changes(f)
      /\ fr'[f].at = r.at /\ fr'[f].failed = r.failed
      /\ fr'[f].i = fr[f].i + 1 /\ fr'[f].last = r.last /\ fr'[f].live = r.live
      /\ fr'[f].pend = Append(fr[f].pend, a)
      /\ owed' = owed \cup {a}
  BY RespondFields, Zenon
<1>2. UNCHANGED <<loopVars, snd, q, inHand>>
  BY DEF chainUnchanged, readVars, queueVars, writerVars, loopVars
<1> QED  BY <1>1, <1>2 DEF Answered, Fields

LEMMA InheritStep ==
    ASSUME Types, NEW f \in Frames, Inherit(f)
    PROVE  /\ Answered(f) /\ inherits(f)
           /\ Fields(f, "chain", fr[f].i + 1, fr[f].failed, fr[f].last, fr[f].live)
<1>1. InChain(f) /\ inherits(f) /\ chainUnchanged /\ UNCHANGED snd
  BY DEF Inherit
<1>2. fr[f] \in Frame /\ next(f).sess \in Sessions /\ fr[f].at = "chain"
  BY <1>1, NextIsMember DEF Member, InChain
<1>3. respond(f, fr[f], "error", next(f).sess)
  BY DEF Inherit
<1> QED  BY <1>1, <1>2, <1>3, RespondStep DEF Busy

LEMMA CreateStep ==
    ASSUME Types, NEW f \in Frames, Create(f)
    PROVE  /\ Answered(f) /\ next(f).cmd = "create"
           /\ \/ Fields(f, "chain", fr[f].i + 1, fr[f].failed, fr[f].i, fr[f].live \cup {fr[f].i})
              \/ Fields(f, "chain", fr[f].i + 1, fr[f].failed, fr[f].last, fr[f].live)
<1>1. InChain(f) /\ next(f).cmd = "create" /\ chainUnchanged /\ UNCHANGED snd
  BY DEF Create
<1>2. fr[f] \in Frame /\ next(f).sess \in Sessions /\ fr[f].at = "chain"
  BY <1>1, NextIsMember DEF Member, InChain
<1>3. CASE respond(f, fr[f], "error", next(f).sess)
  BY <1>1, <1>2, <1>3, RespondStep DEF Busy
<1>4. ASSUME respond(f, [fr[f] EXCEPT !.last = fr[f].i, !.live = @ \cup {fr[f].i}],
                     "success", next(f).sess)
      PROVE  Answered(f) /\ Fields(f, "chain", fr[f].i + 1, fr[f].failed, fr[f].i, fr[f].live \cup {fr[f].i})
  <2>1. fr[f].i \in Nat /\ fr[f].live \in SUBSET Nat
    BY <1>2 DEF Frame
  <2>2. PICK l \in SUBSET Nat : l = fr[f].live \cup {fr[f].i}
    BY <2>1
  <2> DEFINE r == [fr[f] EXCEPT !.last = fr[f].i, !.live = l]
  <2>3. r \in Frame
    BY <1>2, <2>1 DEF Frame
  <2>4. /\ r.at = fr[f].at /\ r.chain = fr[f].chain /\ r.sealed = fr[f].sealed /\ r.pend = fr[f].pend
        /\ r.i = fr[f].i /\ r.failed = fr[f].failed /\ r.last = fr[f].i /\ r.live = l
    BY <1>2 DEF Frame
  <2>5. respond(f, r, "success", next(f).sess)
    BY <1>4, <2>2
  <2> HIDE DEF r
  <2> QED  BY <1>1, <1>2, <2>2, <2>3, <2>4, <2>5, RespondStep DEF Busy
<1> QED  BY <1>1, <1>3, <1>4 DEF Create

LEMMA OperateStep ==
    ASSUME Types, NEW f \in Frames, Operate(f)
    PROVE  /\ Answered(f) /\ next(f).cmd = "op"
           /\ Fields(f, "chain", fr[f].i + 1, fr[f].failed, fr[f].last, fr[f].live)
<1>1. InChain(f) /\ next(f).cmd = "op" /\ chainUnchanged /\ UNCHANGED snd
  BY DEF Operate
<1>2. fr[f] \in Frame /\ next(f).sess \in Sessions /\ fr[f].at = "chain"
  BY <1>1, NextIsMember DEF Member, InChain
<1>3. PICK status \in {"success", "error"} : respond(f, fr[f], status, next(f).sess)
  BY DEF Operate
<1> QED  BY <1>1, <1>2, <1>3, RespondStep DEF Busy

LEMMA CloseStep ==
    ASSUME Types, NEW f \in Frames, Close(f)
    PROVE  /\ Answered(f) /\ next(f).cmd = "close" /\ ~inherits(f)
           /\ Fields(f, "chain", fr[f].i + 1, fr[f].failed,
                     IF closesLiveHandle(f) THEN 0 ELSE fr[f].last,
                     fr[f].live \ (IF closesLiveHandle(f) /\ ~namesNothing(f)
                                   THEN {fr[f].last} ELSE {}))
<1>1. InChain(f) /\ next(f).cmd = "close" /\ ~inherits(f) /\ chainUnchanged /\ UNCHANGED snd
  BY DEF Close
<1>2. fr[f] \in Frame /\ next(f).sess \in Sessions /\ fr[f].at = "chain"
  BY <1>1, NextIsMember DEF Member, InChain
<1>3. fr[f].last \in Nat /\ fr[f].live \in SUBSET Nat
  BY <1>2 DEF Frame
<1>4. PICK z \in Nat : z = IF closesLiveHandle(f) THEN 0 ELSE fr[f].last
  BY <1>3
<1>5. PICK l \in SUBSET Nat :
          l = fr[f].live \ (IF closesLiveHandle(f) /\ ~namesNothing(f) THEN {fr[f].last} ELSE {})
  BY <1>3
<1> DEFINE r == [fr[f] EXCEPT !.last = z, !.live = l]
<1>6. r \in Frame
  BY <1>2, <1>3 DEF Frame
<1>7. /\ r.at = fr[f].at /\ r.chain = fr[f].chain /\ r.sealed = fr[f].sealed /\ r.pend = fr[f].pend
      /\ r.i = fr[f].i /\ r.failed = fr[f].failed /\ r.last = z /\ r.live = l
  BY <1>2 DEF Frame
<1>8. \E status \in {"success", "error"} : respond(f, r, status, next(f).sess)
  BY <1>4, <1>5 DEF Close
<1> HIDE DEF r
<1>9. PICK status \in {"success", "error"} : respond(f, r, status, next(f).sess)
  BY <1>8
<1>10. Answered(f) /\ Fields(f, "chain", fr[f].i + 1, fr[f].failed, z, l)
  BY <1>1, <1>2, <1>6, <1>7, <1>9, RespondStep DEF Busy
<1> QED  BY <1>1, <1>4, <1>5, <1>10

LEMMA FatalStep ==
    ASSUME Types, NEW f \in Frames, Fatal(f)
    PROVE  /\ Answered(f)
           /\ Fields(f, "flush", fr[f].i + 1, TRUE, fr[f].last, fr[f].live)
<1>1. InChain(f) /\ chainUnchanged /\ UNCHANGED snd
  BY DEF Fatal
<1>2. fr[f] \in Frame /\ next(f).sess \in Sessions
  BY <1>1, NextIsMember DEF Member
<1> DEFINE r == [fr[f] EXCEPT !.failed = TRUE, !.at = "flush"]
<1>3. r \in Frame
  BY <1>2 DEF Frame
<1>4. /\ r.at = "flush" /\ r.chain = fr[f].chain /\ r.sealed = fr[f].sealed /\ r.pend = fr[f].pend
      /\ r.i = fr[f].i /\ r.failed = TRUE /\ r.last = fr[f].last /\ r.live = fr[f].live
  BY <1>2 DEF Frame
<1>5. PICK s \in {NoSession, next(f).sess} : respond(f, r, "error", s)
  BY DEF Fatal
<1> HIDE DEF r
<1> QED  BY <1>1, <1>2, <1>3, <1>4, <1>5, RespondStep DEF Busy

LEMMA ParkStep ==
    ASSUME Types, NEW f \in Frames, Park(f)
    PROVE  /\ Answered(f) \/ SentAlone(f)
           /\ next(f).cmd = "park"
           /\ Fields(f, "chain", fr[f].i + 1, fr[f].failed, fr[f].last, fr[f].live)
<1>1. InChain(f) /\ next(f).cmd = "park" /\ chainUnchanged
  BY DEF Park
<1>2. fr[f] \in Frame /\ next(f).sess \in Sessions /\ fr[f].at = "chain" /\ fr[f].i >= 1
  BY <1>1, NextIsMember DEF Member, InChain, Types
<1>3. CASE respond(f, fr[f], "error", next(f).sess) /\ UNCHANGED snd
  BY <1>1, <1>2, <1>3, RespondStep DEF Busy
<1>4. ASSUME fr' = [fr EXCEPT ![f].i = @ + 1],
             NEW a, a = answer(f, "interim", next(f).sess, next(f).sess \in got),
             send(frameOf(f), <<a>>), owed' = owed \cup {a}
      PROVE  SentAlone(f) /\ Fields(f, "chain", fr[f].i + 1, fr[f].failed, fr[f].last, fr[f].live)
  <2>1. a \in Answer /\ a.f = f /\ a.enc = (a.sess \in got)
    BY <1>2, <1>4 DEF Answer, answer, Frame
  <2>2. PICK j \in Nat : j = fr[f].i + 1
    BY <1>2 DEF Frame
  <2> DEFINE n == [fr[f] EXCEPT !.i = j]
  <2>3. n \in Frame
    BY <1>2 DEF Frame
  <2>4. /\ n.at = fr[f].at /\ n.chain = fr[f].chain /\ n.sealed = fr[f].sealed /\ n.pend = fr[f].pend
        /\ n.i = j /\ n.failed = fr[f].failed /\ n.last = fr[f].last /\ n.live = fr[f].live
    BY <1>2 DEF Frame
  <2>5. fr' = [fr EXCEPT ![f] = n]
    BY <1>4, <2>2
  <2> HIDE DEF n
  <2>6. fr'[f] = n /\ fr' \in [Frames -> Frame] /\ \A g \in Frames : g # f => fr'[g] = fr[g]
    BY <2>3, <2>5 DEF Types
  <2>7. Changes(f)
    BY <2>2, <2>4, <2>6, <1>2 DEF Changes, Frame
  <2>8. UNCHANGED <<loopVars, q, inHand>>
    BY <1>1 DEF chainUnchanged, readVars, queueVars, writerVars, loopVars
  <2>9. Fields(f, "chain", fr[f].i + 1, fr[f].failed, fr[f].last, fr[f].live)
    BY <1>2, <2>2, <2>4, <2>6 DEF Fields
  <2> QED  BY <1>1, <1>2, <1>4, <2>1, <2>4, <2>6, <2>7, <2>8, <2>9 DEF SentAlone, Busy
<1> QED  BY <1>1, <1>3, <1>4 DEF Park

LEMMA SetupStep ==
    ASSUME Types, NEW f \in Frames, SessionSetup(f)
    PROVE  /\ SentAlone(f) /\ next(f).cmd = "setup"
           /\ Fields(f, "setup", fr[f].i, fr[f].failed, fr[f].last, fr[f].live)
<1>1. InChain(f) /\ next(f).cmd = "setup" /\ chainUnchanged
  BY DEF SessionSetup
<1>2. fr[f] \in Frame /\ next(f).sess \in Sessions /\ fr[f].at = "chain" /\ fr[f].i >= 1
  BY <1>1, NextIsMember DEF Member, InChain, Types
<1> DEFINE a == answer(f, "setup", next(f).sess, FALSE)
<1>3. a \in Answer /\ a.f = f /\ a.kind = "setup"
  BY <1>2 DEF Answer, answer, Frame
<1>4. send(frameOf(f), <<a>>) /\ owed' = owed \cup {a} /\ fr' = [fr EXCEPT ![f].at = "setup"]
  BY DEF SessionSetup
<1> HIDE DEF a
<1> DEFINE n == [fr[f] EXCEPT !.at = "setup"]
<1>5. n \in Frame
  BY <1>2 DEF Frame
<1>6. /\ n.at = "setup" /\ n.chain = fr[f].chain /\ n.sealed = fr[f].sealed /\ n.pend = fr[f].pend
      /\ n.i = fr[f].i /\ n.failed = fr[f].failed /\ n.last = fr[f].last /\ n.live = fr[f].live
  BY <1>2 DEF Frame
<1>7. fr' = [fr EXCEPT ![f] = n]
  BY <1>4
<1> HIDE DEF n
<1>8. fr'[f] = n /\ fr' \in [Frames -> Frame] /\ \A g \in Frames : g # f => fr'[g] = fr[g]
  BY <1>5, <1>7 DEF Types
<1>9. Changes(f)
  BY <1>2, <1>6, <1>8 DEF Changes
<1>10. UNCHANGED <<loopVars, q, inHand>>
  BY <1>1 DEF chainUnchanged, readVars, queueVars, writerVars, loopVars
<1>11. Fields(f, "setup", fr[f].i, fr[f].failed, fr[f].last, fr[f].live)
  BY <1>6, <1>8 DEF Fields
<1> QED  BY <1>1, <1>3, <1>4, <1>6, <1>8, <1>9, <1>10, <1>11 DEF SentAlone, Busy

\* A frame gets a new record.
LEMMA Update ==
    ASSUME Types, NEW f \in Frames, NEW n \in Frame, fr' = [fr EXCEPT ![f] = n],
           n.chain = fr[f].chain, n.sealed = fr[f].sealed, n.i >= 1
    PROVE  Changes(f) /\ fr'[f] = n
  BY DEF Types, Changes

LEMMA CancelStep ==
    ASSUME Types, NEW f \in Frames, Cancel(f)
    PROVE  /\ Moved(f) /\ InChain(f) /\ next(f).cmd = "cancel"
           /\ Fields(f, "chain", fr[f].i + 1, fr[f].failed, fr[f].last, fr[f].live)
<1>1. InChain(f) /\ next(f).cmd = "cancel" /\ UNCHANGED <<loopVars, snd, q, inHand, owed>>
  BY DEF Cancel, chainUnchanged, readVars, queueVars, writerVars, loopVars
<1>2. fr[f] \in Frame /\ fr[f].i \in Nat /\ fr[f].i >= 1 /\ fr[f].at = "chain"
  BY <1>1 DEF Types, Frame, InChain
<1>3. PICK j \in Nat : j = fr[f].i + 1 /\ j >= 1
  BY <1>2
<1> DEFINE n == [fr[f] EXCEPT !.i = j]
<1>4. fr' = [fr EXCEPT ![f] = n]
  BY <1>3, <1>2 DEF Cancel, Types, Frame
<1>5. n \in Frame
  BY <1>3, <1>2 DEF Frame
<1>6. /\ n.at = "chain" /\ n.chain = fr[f].chain /\ n.sealed = fr[f].sealed /\ n.pend = fr[f].pend
      /\ n.i = j /\ n.failed = fr[f].failed /\ n.last = fr[f].last /\ n.live = fr[f].live
  BY <1>3, <1>2 DEF Frame
<1> HIDE DEF n
<1>i. n.i >= 1
  BY <1>3, <1>2, <1>6
<1>7. Changes(f) /\ fr'[f] = n
  BY <1>4, <1>5, <1>6, <1>i, Update
<1> QED  BY <1>3, <1>1, <1>2, <1>6, <1>7 DEF Moved, Fields, Busy

LEMMA GarbledStep ==
    ASSUME Types, NEW f \in Frames, Garbled(f)
    PROVE  /\ Moved(f) /\ InChain(f)
           /\ Fields(f, "flush", fr[f].i, TRUE, fr[f].last, fr[f].live)
<1>1. InChain(f) /\ UNCHANGED <<loopVars, snd, q, inHand, owed>>
  BY DEF Garbled, chainUnchanged, readVars, queueVars, writerVars, loopVars
<1>2. fr[f] \in Frame /\ fr[f].i \in Nat /\ fr[f].i >= 1 /\ fr[f].at = "chain"
  BY <1>1 DEF Types, Frame, InChain
<1> DEFINE n == [fr[f] EXCEPT !.failed = TRUE, !.at = "flush"]
<1>4. fr' = [fr EXCEPT ![f] = n]
  BY <1>2 DEF Garbled, Types, Frame
<1>5. n \in Frame
  BY <1>2 DEF Frame
<1>6. /\ n.at = "flush" /\ n.chain = fr[f].chain /\ n.sealed = fr[f].sealed /\ n.pend = fr[f].pend
      /\ n.i = fr[f].i /\ n.failed = TRUE /\ n.last = fr[f].last /\ n.live = fr[f].live
  BY <1>2 DEF Frame
<1> HIDE DEF n
<1>i. n.i >= 1
  BY <1>2, <1>6
<1>7. Changes(f) /\ fr'[f] = n
  BY <1>4, <1>5, <1>6, <1>i, Update
<1> QED  BY <1>1, <1>2, <1>6, <1>7 DEF Moved, Fields, Busy

LEMMA ChainEndsStep ==
    ASSUME Types, NEW f \in Frames, ChainEnds(f)
    PROVE  /\ Moved(f) /\ fr[f].at = "chain" /\ fr[f].i > Len(fr[f].chain)
           /\ Fields(f, "flush", fr[f].i, fr[f].failed, fr[f].last, fr[f].live)
<1>1. fr[f].at = "chain" /\ fr[f].i > Len(fr[f].chain) /\ UNCHANGED <<loopVars, snd, q, inHand, owed>>
  BY DEF ChainEnds, chainUnchanged, readVars, queueVars, writerVars, loopVars
<1>2. fr[f] \in Frame /\ fr[f].i \in Nat /\ fr[f].i >= 1 /\ fr[f].at = "chain"
  BY <1>1 DEF Types, Frame
<1> DEFINE n == [fr[f] EXCEPT !.at = "flush"]
<1>4. fr' = [fr EXCEPT ![f] = n]
  BY <1>2 DEF ChainEnds, Types, Frame
<1>5. n \in Frame
  BY <1>2 DEF Frame
<1>6. /\ n.at = "flush" /\ n.chain = fr[f].chain /\ n.sealed = fr[f].sealed /\ n.pend = fr[f].pend
      /\ n.i = fr[f].i /\ n.failed = fr[f].failed /\ n.last = fr[f].last /\ n.live = fr[f].live
  BY <1>2 DEF Frame
<1> HIDE DEF n
<1>i. n.i >= 1
  BY <1>2, <1>6
<1>7. Changes(f) /\ fr'[f] = n
  BY <1>4, <1>5, <1>6, <1>i, Update
<1> QED  BY <1>1, <1>2, <1>6, <1>7 DEF Moved, Fields, Busy

LEMMA FrameEndsStep ==
    ASSUME Types, NEW f \in Frames, FrameEnds(f)
    PROVE  /\ Moved(f) /\ Flushed(f) /\ cur # f
           /\ Fields(f, IF fr[f].failed THEN "abort" ELSE "done", 1, fr[f].failed, 0, fr[f].live)
<1>1. Flushed(f) /\ cur # f /\ UNCHANGED <<loopVars, snd, q, inHand, owed>>
  BY DEF FrameEnds, chainUnchanged, readVars, queueVars, writerVars, loopVars
<1>2. fr[f] \in Frame /\ fr[f].i \in Nat /\ fr[f].i >= 1 /\ fr[f].at = "flush" /\ fr[f].failed \in BOOLEAN
  BY <1>1 DEF Types, Frame, Flushed
<1>3. PICK t \in {"abort", "done"} : t = IF fr[f].failed THEN "abort" ELSE "done"
  BY <1>2
<1> DEFINE n == [fr[f] EXCEPT !.at = t, !.i = 1, !.last = 0, !.status = "success"]
<1>4. fr' = [fr EXCEPT ![f] = n]
  BY <1>3, <1>2 DEF FrameEnds, ended, Types, Frame
<1>5. n \in Frame
  BY <1>3, <1>2 DEF Frame
<1>6. /\ n.at = t /\ n.chain = fr[f].chain /\ n.sealed = fr[f].sealed /\ n.pend = fr[f].pend
      /\ n.i = 1 /\ n.failed = fr[f].failed /\ n.last = 0 /\ n.live = fr[f].live
  BY <1>3, <1>2 DEF Frame
<1> HIDE DEF n
<1>i. n.i >= 1
  BY <1>3, <1>2, <1>6
<1>7. Changes(f) /\ fr'[f] = n
  BY <1>4, <1>5, <1>6, <1>i, Update
<1> QED  BY <1>3, <1>1, <1>2, <1>6, <1>7 DEF Moved, Fields, Busy

LEMMA AbortFlagStep ==
    ASSUME Types, NEW f \in Frames, AbortFlag(f)
    PROVE  /\ Moved(f) /\ fr[f].at = "abort"
           /\ Fields(f, "deadline", fr[f].i, fr[f].failed, fr[f].last, fr[f].live)
<1>1. fr[f].at = "abort" /\ UNCHANGED <<loopVars, snd, q, inHand, owed>>
  BY DEF AbortFlag, chainUnchanged, readVars, queueVars, writerVars, loopVars
<1>2. fr[f] \in Frame /\ fr[f].i \in Nat /\ fr[f].i >= 1 /\ fr[f].at = "abort"
  BY <1>1 DEF Types, Frame
<1> DEFINE n == [fr[f] EXCEPT !.at = "deadline"]
<1>4. fr' = [fr EXCEPT ![f] = n]
  BY <1>2 DEF AbortFlag, Types, Frame
<1>5. n \in Frame
  BY <1>2 DEF Frame
<1>6. /\ n.at = "deadline" /\ n.chain = fr[f].chain /\ n.sealed = fr[f].sealed /\ n.pend = fr[f].pend
      /\ n.i = fr[f].i /\ n.failed = fr[f].failed /\ n.last = fr[f].last /\ n.live = fr[f].live
  BY <1>2 DEF Frame
<1> HIDE DEF n
<1>i. n.i >= 1
  BY <1>2, <1>6
<1>7. Changes(f) /\ fr'[f] = n
  BY <1>4, <1>5, <1>6, <1>i, Update
<1> QED  BY <1>1, <1>2, <1>6, <1>7 DEF Moved, Fields, Busy

LEMMA AbortDeadlineStep ==
    ASSUME Types, NEW f \in Frames, AbortDeadline(f)
    PROVE  /\ Moved(f) /\ fr[f].at = "deadline"
           /\ Fields(f, "done", fr[f].i, fr[f].failed, fr[f].last, fr[f].live)
<1>1. fr[f].at = "deadline" /\ UNCHANGED <<loopVars, snd, q, inHand, owed>>
  BY DEF AbortDeadline, chainUnchanged, readVars, queueVars, writerVars, loopVars
<1>2. fr[f] \in Frame /\ fr[f].i \in Nat /\ fr[f].i >= 1 /\ fr[f].at = "deadline"
  BY <1>1 DEF Types, Frame
<1> DEFINE n == [fr[f] EXCEPT !.at = "done"]
<1>4. fr' = [fr EXCEPT ![f] = n]
  BY <1>2 DEF AbortDeadline, Types, Frame
<1>5. n \in Frame
  BY <1>2 DEF Frame
<1>6. /\ n.at = "done" /\ n.chain = fr[f].chain /\ n.sealed = fr[f].sealed /\ n.pend = fr[f].pend
      /\ n.i = fr[f].i /\ n.failed = fr[f].failed /\ n.last = fr[f].last /\ n.live = fr[f].live
  BY <1>2 DEF Frame
<1> HIDE DEF n
<1>i. n.i >= 1
  BY <1>2, <1>6
<1>7. Changes(f) /\ fr'[f] = n
  BY <1>4, <1>5, <1>6, <1>i, Update
<1> QED  BY <1>1, <1>2, <1>6, <1>7 DEF Moved, Fields, Busy

LEMMA SessionSetupReturnsStep ==
    ASSUME Types, NEW f \in Frames, SessionSetupReturns(f)
    PROVE  /\ Moved(f) /\ fr[f].at = "setup"
           /\ \/ Fields(f, "flush", fr[f].i + 1, TRUE, fr[f].last, fr[f].live)
              \/ Fields(f, "chain", fr[f].i + 1, FALSE, fr[f].last, fr[f].live)
<1>1. fr[f].at = "setup" /\ UNCHANGED <<loopVars, snd, q, inHand, owed>>
  BY DEF SessionSetupReturns, chainUnchanged, readVars, queueVars, writerVars, loopVars
<1>2. fr[f] \in Frame /\ fr[f].i \in Nat /\ fr[f].i >= 1 /\ fr[f].at = "setup"
  BY <1>1 DEF Types, Frame
<1>j. PICK j \in Nat : j = fr[f].i + 1 /\ j >= 1
  BY <1>2
<1>b. PICK fails \in BOOLEAN :
          fr' = [fr EXCEPT ![f].i = @ + 1, ![f].failed = fails,
                           ![f].at = IF fails THEN "flush" ELSE "chain"]
  BY DEF SessionSetupReturns
<1>t. PICK t \in {"flush", "chain"} : t = IF fails THEN "flush" ELSE "chain"
  OBVIOUS
<1> DEFINE n == [fr[f] EXCEPT !.i = j, !.failed = fails, !.at = t]
<1>4. fr' = [fr EXCEPT ![f] = n]
  BY <1>j, <1>b, <1>t, <1>2 DEF SessionSetupReturns, Types, Frame
<1>5. n \in Frame
  BY <1>j, <1>b, <1>t, <1>2 DEF Frame
<1>6. /\ n.at = t /\ n.chain = fr[f].chain /\ n.sealed = fr[f].sealed /\ n.pend = fr[f].pend
      /\ n.i = j /\ n.failed = fails /\ n.last = fr[f].last /\ n.live = fr[f].live
  BY <1>j, <1>b, <1>t, <1>2 DEF Frame
<1> HIDE DEF n
<1>i. n.i >= 1
  BY <1>j, <1>b, <1>t, <1>2, <1>6
<1>7. Changes(f) /\ fr'[f] = n
  BY <1>4, <1>5, <1>6, <1>i, Update
<1> QED  BY <1>j, <1>b, <1>t, <1>1, <1>2, <1>6, <1>7 DEF Moved, Fields, Busy

-----------------------------------------------------------------------------
(* Each kind of step preserves DeliveryInv.                                *)

USE DEF Busy, Over, Shut

LEMMA FrameSender ==
    ASSUME NEW f \in Frames
    PROVE  frameOf(f) \in Senders /\ \A g \in Frames : frameOf(g) = frameOf(f) => g = f
  BY DEF frameOf, Senders

\* Entering send.
LEMMA SendEnters ==
    ASSUME Types, NEW s \in Senders, NEW buf \in Seq(Answer), send(s, buf)
    PROVE  /\ snd' \in [Senders -> [at : SendSteps, buf : Seq(Answer), ok : BOOLEAN]]
           /\ \A w \in Senders : w # s => snd'[w] = snd[w]
           /\ snd'[s].at # "close" /\ (snd'[s].buf = <<>> \/ snd'[s].buf = buf)
           /\ ~closed => snd'[s].at = "add" /\ snd'[s].buf = buf
<1> DEFINE R == [at : SendSteps, buf : Seq(Answer), ok : BOOLEAN]
<1>1. \E r \in R : /\ snd' = [snd EXCEPT ![s] = r] /\ r.at # "close" /\ (r.buf = <<>> \/ r.buf = buf)
                   /\ ~closed => r.at = "add" /\ r.buf = buf
  <2>1. CASE closed
    <3>1. snd' = [snd EXCEPT ![s] = [at |-> "idle", buf |-> <<>>, ok |-> FALSE]]
      BY <2>1 DEF send, sendReturns
    <3>2. [at |-> "idle", buf |-> <<>>, ok |-> FALSE] \in R
      BY DEF SendSteps
    <3> QED  BY <2>1, <3>1, <3>2
  <2>2. CASE ~closed
    <3>1. snd' = [snd EXCEPT ![s] = [at |-> "add", buf |-> buf, ok |-> TRUE]]
      BY <2>2 DEF send
    <3>2. [at |-> "add", buf |-> buf, ok |-> TRUE] \in R
      BY DEF SendSteps
    <3> QED  BY <2>2, <3>1, <3>2
  <2> QED  BY <2>1, <2>2
<1>2. PICK r \in R : /\ snd' = [snd EXCEPT ![s] = r] /\ r.at # "close" /\ (r.buf = <<>> \/ r.buf = buf)
                     /\ ~closed => r.at = "add" /\ r.buf = buf
  BY <1>1
<1>t. snd \in [Senders -> R]
  BY DEF Types
<1>3. snd'[s] = r /\ snd' \in [Senders -> R] /\ \A w \in Senders : w # s => snd'[w] = snd[w]
  <2> HIDE DEF R
  <2> QED  BY <1>2, <1>t
<1>4. /\ snd'[s].at # "close" /\ (snd'[s].buf = <<>> \/ snd'[s].buf = buf)
      /\ ~closed => snd'[s].at = "add" /\ snd'[s].buf = buf
  BY <1>2, <1>3, Zenon
<1> QED  BY <1>3, <1>4, Zenon

LEMMA AnsweredKeeps ==
    ASSUME DeliveryInv, NEW f \in Frames, Answered(f)
    PROVE  DeliveryInv'
<1> USE DEF DeliveryInv
<1>1. PICK s \in Sessions \cup {NoSession} :
          /\ fr'[f].pend = Append(fr[f].pend, answer(f, "sync", s, willEncryptResponse(f, s)))
          /\ owed' = owed \cup {answer(f, "sync", s, willEncryptResponse(f, s))}
  BY DEF Answered
<1> DEFINE a == answer(f, "sync", s, willEncryptResponse(f, s))
<1>2. a \in Answer /\ a.f = f /\ fr[f].pend \in Seq(Answer)
  BY DEF Types, Frame, Answer, answer, willEncryptResponse
<1>3. fr'[f].pend = Append(fr[f].pend, a) /\ owed' = owed \cup {a}
  BY <1>1
<1> HIDE DEF a
<1>4. In(a, fr'[f].pend) /\ \A b : In(b, fr[f].pend) => In(b, fr'[f].pend)
  BY <1>2, <1>3, AppendElements
<1>5. /\ fr[f].at = "chain" /\ fr'[f].at \in Busy /\ Changes(f)
      /\ UNCHANGED <<reader, cur, got, closed, discard, writer, flushing, snd, q, inHand>>
  BY DEF Answered, InChain, loopVars
<1>6. reader \notin Over /\ (reader \in {"drainSerial", "submit"} => cur # f)
  BY <1>5 DEF LoopInv
<1>7. Types'
  BY <1>2, <1>3, <1>5 DEF Types, Changes
<1>8. LoopInv'
  BY SMTT(30), <1>5, <1>6 DEF LoopInv, Changes, Types, frameOf
<1>9. ShutInv'
  BY <1>5 DEF ShutInv
<1>10. ~discard => writer # "exited"
  BY <1>6 DEF ShutInv
<1>11. ASSUME ~discard, writer # "discard", NEW b \in owed'
       PROVE  OnItsWay(b)'
  <2>1. CASE b = a
    BY <2>1, <1>2, <1>4 DEF OnItsWay
  <2>2. CASE b \in owed
    <3>1. OnItsWay(b) /\ b.f \in Frames
      BY <2>2, <1>11 DEF OwedInv, Types, Answer
    <3>2. In(b, fr[b.f].pend) => In(b, fr'[b.f].pend)
      BY <3>1, <1>4, <1>5 DEF Changes
    <3> QED  BY <3>1, <3>2, <1>5 DEF OnItsWay
  <2> QED  BY <2>1, <2>2, <1>3, <1>11
<1>12. OwedInv'
  BY <1>5, <1>10, <1>11 DEF OwedInv
<1> QED  BY <1>7, <1>8, <1>9, <1>12

LEMMA SentAloneKeeps ==
    ASSUME DeliveryInv, NEW f \in Frames, SentAlone(f)
    PROVE  DeliveryInv'
<1> USE DEF DeliveryInv
<1>1. PICK a \in Answer : a.f = f /\ send(frameOf(f), <<a>>) /\ owed' = owed \cup {a}
  BY DEF SentAlone
<1>2. /\ fr[f].at = "chain" /\ snd[frameOf(f)].at = "idle" /\ fr'[f].at \in Busy /\ Changes(f)
      /\ fr'[f].pend = fr[f].pend
      /\ UNCHANGED <<reader, cur, got, closed, discard, writer, flushing, q, inHand>>
  BY DEF SentAlone, InChain, loopVars, idle
<1>3. reader \notin Over /\ (reader \in {"drainSerial", "submit"} => cur # f)
  BY <1>2 DEF LoopInv
<1>4. frameOf(f) \in Senders /\ <<a>> \in Seq(Answer) /\ In(a, <<a>>)
  BY FrameSender DEF In
<1>7. /\ snd' \in [Senders -> [at : SendSteps, buf : Seq(Answer), ok : BOOLEAN]]
      /\ \A w \in Senders : w # frameOf(f) => snd'[w] = snd[w]
      /\ snd'[frameOf(f)].at # "close"
      /\ ~closed => snd'[frameOf(f)].at = "add" /\ snd'[frameOf(f)].buf = <<a>>
  BY <1>1, <1>4, SendEnters
<1>8. Types'
  BY <1>1, <1>2, <1>7 DEF Types, Changes
<1>9. LoopInv'
  <2>1. ASSUME NEW g \in Frames, fr'[g].at \notin Busy
        PROVE  fr'[g].pend = <<>> /\ snd'[frameOf(g)].at = "idle"
    BY <2>1, <1>2, <1>7, FrameSender DEF LoopInv, Changes
  <2>2. (reader \in {"drainSerial", "submit"} => fr'[cur].at = "read")
    BY <1>2, <1>3 DEF LoopInv, Changes, Types
  <2> QED  BY <1>2, <1>3, <2>1, <2>2 DEF LoopInv
<1>10. ShutInv'
  BY <1>2, <1>7 DEF ShutInv
<1>11. ~discard => ~closed /\ writer # "exited"
  BY <1>3 DEF ShutInv
<1>12. ASSUME ~discard, writer # "discard", NEW b \in owed'
       PROVE  OnItsWay(b)'
  <2>0. snd'[frameOf(f)].at # "idle" /\ In(a, snd'[frameOf(f)].buf)
    BY <1>4, <1>7, <1>11, <1>12
  <2>1. CASE b = a
    BY <2>0, <2>1, <1>1 DEF OnItsWay
  <2>2. CASE b \in owed
    <3>1. OnItsWay(b) /\ b.f \in Frames
      BY <2>2, <1>12 DEF OwedInv, Types, Answer
    <3>2. fr'[b.f].pend = fr[b.f].pend
      BY <3>1, <1>2 DEF Changes
    <3>3. snd[frameOf(b.f)].at # "idle" => snd'[frameOf(b.f)] = snd[frameOf(b.f)]
      BY <3>1, <1>2, <1>7, FrameSender
    <3> QED  BY <3>1, <3>2, <3>3, <1>2 DEF OnItsWay
  <2> QED  BY <2>1, <2>2, <1>1, <1>12
<1>13. OwedInv'
  BY <1>2, <1>11, <1>12 DEF OwedInv
<1> QED  BY <1>8, <1>9, <1>10, <1>13

\* While frames change and answers stay where they are, OwedInv holds.
LEMMA OwedStays ==
    ASSUME Types, OwedInv, UNCHANGED <<snd, q, inHand, owed, writer>>, discard => discard',
           \A g \in Frames : fr'[g].pend = fr[g].pend
    PROVE  OwedInv'
<1>1. ASSUME ~discard', writer # "discard", NEW b \in owed
      PROVE  OnItsWay(b)'
  <2>1. OnItsWay(b) /\ b.f \in Frames
    BY <1>1 DEF OwedInv, Types, Answer
  <2> QED  BY <2>1 DEF OnItsWay
<1> QED  BY <1>1 DEF OwedInv

LEMMA MovedKeeps ==
    ASSUME DeliveryInv, NEW f \in Frames, Moved(f)
    PROVE  DeliveryInv'
<1> USE DEF DeliveryInv
<1>1. /\ Changes(f) /\ fr'[f].pend = fr[f].pend
      /\ fr[f].at \notin {"unsent", "read", "done"}
      /\ UNCHANGED <<reader, cur, got, closed, discard, writer, flushing, snd, q, inHand, owed>>
  BY DEF Moved, loopVars
<1>2. reader \notin Over /\ (reader \in {"drainSerial", "submit"} => cur # f)
  BY <1>1 DEF LoopInv
<1>3. fr'[f].at \notin Busy => fr[f].pend = <<>> /\ snd[frameOf(f)].at = "idle"
  BY DEF Moved, Flushed, idle, LoopInv
<1>4. Types'
  BY <1>1 DEF Types, Changes
<1>5. LoopInv'
  <2>1. ASSUME NEW g \in Frames, fr'[g].at \notin Busy
        PROVE  fr'[g].pend = <<>> /\ snd'[frameOf(g)].at = "idle"
    BY <2>1, <1>1, <1>3 DEF LoopInv, Changes
  <2>2. (reader \in {"drainSerial", "submit"} => fr'[cur].at = "read")
    BY <1>1, <1>2 DEF LoopInv, Changes, Types
  <2> QED  BY <1>1, <1>2, <2>1, <2>2 DEF LoopInv
<1>6. ShutInv'
  BY <1>1 DEF ShutInv
<1>7. OwedInv'
  BY <1>1, OwedStays DEF Changes
<1> QED  BY <1>4, <1>5, <1>6, <1>7

LEMMA TurnedKeeps ==
    ASSUME DeliveryInv, Turned
    PROVE  DeliveryInv'
<1> USE DEF DeliveryInv
<1>1. Types'
  BY DEF Types, Turned
<1>2. LoopInv'
  <2>1. reader' \in Over => \A f \in Frames : fr[f].at \in {"unsent", "done"}
    <3>1. CASE reader \in Over
      BY <3>1 DEF LoopInv
    <3>2. CASE reader = "drain" /\ Pooled = {}
      <4>1. cur = 0 /\ 0 \notin Frames
        BY <3>2, TransportConstants DEF LoopInv, Frames
      <4> QED  BY <3>2, <4>1 DEF Pooled
    <3> QED  BY <3>1, <3>2 DEF Turned
  <2>2. cur' # 0 <=> reader' \in {"drainSerial", "serial", "submit"}
    BY DEF LoopInv, Turned
  <2>3. reader' \in {"drainSerial", "submit"} => reader' = reader
    BY DEF Turned
  <2> QED  BY <2>1, <2>2, <2>3 DEF LoopInv, Turned, frameOf
<1>3. ShutInv'
  BY DEF ShutInv, Turned
<1>4. OwedInv'
  BY OwedStays DEF Turned
<1> QED  BY <1>1, <1>2, <1>3, <1>4

\* What FlushGroup splits off is uniform, and nothing is lost.
LEMMA FlushFacts ==
    ASSUME Types, NEW f \in Frames, FlushGroup(f)
    PROVE  /\ fr[f].at = "flush" /\ snd[frameOf(f)].at = "idle" /\ Changes(f)
           /\ Fields(f, "flush", fr[f].i, fr[f].failed, fr[f].last, fr[f].live)
           /\ \E h, t \in Seq(Answer) :
                 /\ send(frameOf(f), h) /\ fr'[f].pend = t /\ Uniform(h)
                 /\ \A b : In(b, fr[f].pend) => In(b, h) \/ In(b, t)
                 /\ \A k \in DOMAIN h : In(h[k], fr[f].pend)
                 /\ \A k \in DOMAIN t : In(t[k], fr[f].pend)
           /\ UNCHANGED <<reader, cur, got, closed, discard, writer, flushing, q, inHand, owed>>
<1> DEFINE p == fr[f].pend
           h == SubSeq(p, 1, group(p))
           t == SubSeq(p, group(p) + 1, Len(p))
<1>1. /\ fr[f].at = "flush" /\ snd[frameOf(f)].at = "idle" /\ p # <<>> /\ fr[f] \in Frame
      /\ fr[f].i >= 1
      /\ send(frameOf(f), h) /\ fr' = [fr EXCEPT ![f].pend = t]
      /\ UNCHANGED <<reader, cur, got, closed, discard, writer, flushing, q, inHand, owed>>
  BY DEF FlushGroup, idle, chainUnchanged, readVars, queueVars, writerVars, Types
<1>2. p \in Seq(Answer)
  BY <1>1 DEF Frame
<1>3. /\ group(p) \in 1..Len(p)
      /\ \A k \in 1..group(p) : p[k].sess = p[1].sess /\ p[k].enc = p[1].enc
  <2> HIDE DEF p
  <2> QED  BY <1>1, <1>2, GroupIsPrefix
<1>4. /\ h \in Seq(Answer) /\ t \in Seq(Answer) /\ DOMAIN h = 1..group(p)
      /\ \A k \in 1..group(p) : k \in DOMAIN p /\ h[k] = p[k]
      /\ \A k \in DOMAIN t : k + group(p) \in DOMAIN p /\ t[k] = p[k + group(p)]
      /\ \A b : In(b, p) => In(b, h) \/ In(b, t)
  <2> HIDE DEF p
  <2> QED  BY <1>2, <1>3, SplitElements
<1>5. 1 \in 1..group(p)
  BY <1>2, <1>3
<1> HIDE DEF p, h, t
<1>6. Uniform(h) /\ (\A k \in DOMAIN h : In(h[k], p)) /\ (\A k \in DOMAIN t : In(t[k], p))
  <2>1. Uniform(h)
    <3>1. h[1] = p[1] /\ \A k \in DOMAIN h : h[k] = p[k] /\ k \in 1..group(p)
      BY ONLY <1>4, <1>5
    <3> QED  BY ONLY <1>3, <3>1 DEF Uniform
  <2>2. \A k \in DOMAIN h : In(h[k], p)
    BY ONLY <1>4 DEF In
  <2>3. \A k \in DOMAIN t : In(t[k], p)
    BY ONLY <1>4, Zenon DEF In
  <2> QED  BY <2>1, <2>2, <2>3
<1> DEFINE n == [fr[f] EXCEPT !.pend = t]
<1>7. n \in Frame
  BY <1>1, <1>4 DEF Frame
<1>8. /\ n.at = "flush" /\ n.pend = t /\ n.i = fr[f].i /\ n.failed = fr[f].failed
      /\ n.last = fr[f].last /\ n.live = fr[f].live
      /\ n.chain = fr[f].chain /\ n.sealed = fr[f].sealed
  BY <1>1 DEF Frame
<1>9. fr' = [fr EXCEPT ![f] = n]
  BY <1>1
<1> HIDE DEF n
<1>i. n.i >= 1
  BY <1>1, <1>8
<1>10. Changes(f) /\ fr'[f] = n
  BY <1>7, <1>8, <1>9, <1>i, Update
<1>11. fr'[f].pend = t /\ Fields(f, "flush", fr[f].i, fr[f].failed, fr[f].last, fr[f].live)
  BY <1>8, <1>10 DEF Fields
<1>12. \E hh, tt \in Seq(Answer) :
          /\ send(frameOf(f), hh) /\ fr'[f].pend = tt /\ Uniform(hh)
          /\ \A b : In(b, p) => In(b, hh) \/ In(b, tt)
          /\ \A k \in DOMAIN hh : In(hh[k], p)
          /\ \A k \in DOMAIN tt : In(tt[k], p)
  <2>1. h \in Seq(Answer) /\ t \in Seq(Answer) /\ send(frameOf(f), h)
    BY <1>1, <1>4
  <2> QED  BY <2>1, <1>4, <1>6, <1>11, Zenon
<1> QED  BY <1>1, <1>10, <1>11, <1>12 DEF p

LEMMA FlushGroupKeeps ==
    ASSUME DeliveryInv, NEW f \in Frames, FlushGroup(f)
    PROVE  DeliveryInv'
<1> USE DEF DeliveryInv
<1>1. /\ fr[f].at = "flush" /\ snd[frameOf(f)].at = "idle"
      /\ Changes(f) /\ fr'[f].at = "flush" /\ fr'[f].i = fr[f].i
      /\ UNCHANGED <<reader, cur, got, closed, discard, writer, flushing, q, inHand, owed>>
  BY FlushFacts DEF Fields
<1>2. PICK h, t \in Seq(Answer) :
          /\ send(frameOf(f), h) /\ fr'[f].pend = t
          /\ \A b : In(b, fr[f].pend) => In(b, h) \/ In(b, t)
  BY FlushFacts
<1>5. /\ fr' \in [Frames -> Frame] /\ \A g \in Frames : g # f => fr'[g] = fr[g]
      /\ \A g \in Frames : fr'[g].i >= 1
  BY <1>1 DEF Changes, Types
<1>6. reader \notin Over /\ (reader \in {"drainSerial", "submit"} => cur # f)
  BY <1>1 DEF LoopInv
<1>7. frameOf(f) \in Senders
  BY FrameSender
<1>10. /\ snd' \in [Senders -> [at : SendSteps, buf : Seq(Answer), ok : BOOLEAN]]
       /\ \A w \in Senders : w # frameOf(f) => snd'[w] = snd[w]
       /\ snd'[frameOf(f)].at # "close"
       /\ ~closed => snd'[frameOf(f)].at = "add" /\ snd'[frameOf(f)].buf = h
  BY <1>2, <1>7, SendEnters
<1>11. Types'
  BY <1>1, <1>5, <1>10 DEF Types
<1>12. LoopInv'
  <2>1. ASSUME NEW g \in Frames, fr'[g].at \notin Busy
        PROVE  fr'[g].pend = <<>> /\ snd'[frameOf(g)].at = "idle"
    BY <2>1, <1>1, <1>5, <1>10, FrameSender DEF LoopInv
  <2>2. (reader \in {"drainSerial", "submit"} => fr'[cur].at = "read")
    BY <1>5, <1>6 DEF LoopInv, Types
  <2> QED  BY <1>1, <1>6, <2>1, <2>2 DEF LoopInv
<1>13. ShutInv'
  BY <1>1, <1>10 DEF ShutInv
<1>14. ~discard => ~closed /\ writer # "exited"
  BY <1>6 DEF ShutInv
<1>15. ASSUME ~discard, writer # "discard", NEW b \in owed
       PROVE  OnItsWay(b)'
  <2>1. OnItsWay(b) /\ b.f \in Frames
    BY <1>15 DEF OwedInv, Types, Answer
  <2>2. snd'[frameOf(f)].at # "idle" /\ snd'[frameOf(f)].buf = h
    BY <1>10, <1>14, <1>15
  <2>3. CASE b.f = f
    <3>1. In(b, fr[f].pend) => In(b, fr'[f].pend) \/ In(b, snd'[frameOf(f)].buf)
      BY <1>2, <2>2
    <3> QED  BY <2>1, <2>2, <2>3, <3>1, <1>1 DEF OnItsWay
  <2>4. CASE b.f # f
    <3>1. fr'[b.f] = fr[b.f] /\ snd'[frameOf(b.f)] = snd[frameOf(b.f)]
      BY <2>1, <2>4, <1>5, <1>10, FrameSender
    <3> QED  BY <2>1, <3>1, <1>1 DEF OnItsWay
  <2> QED  BY <2>3, <2>4
<1>16. OwedInv'
  BY <1>1, <1>14, <1>15 DEF OwedInv
<1> QED  BY <1>11, <1>12, <1>13, <1>16

\* A parked request answers through a sender of its own.
LEMMA CompleteFacts ==
    ASSUME Types, NEW f \in Frames, Complete(f)
    PROVE  /\ UNCHANGED <<reader, cur, got, closed, discard, writer, flushing, fr, q, inHand, owed>>
           /\ snd' \in [Senders -> [at : SendSteps, buf : Seq(Answer), ok : BOOLEAN]]
           /\ \A s \in Senders : s # <<f, "async">> => snd'[s] = snd[s]
           /\ snd'[<<f, "async">>].at # "close"
           /\ \/ snd'[<<f, "async">>].buf = <<>>
              \/ \E a \in Answer : /\ snd'[<<f, "async">>].buf = <<a>>
                                   /\ a.f = f /\ a.enc = (a.sess \in got)
                                   /\ fr[f].chain # <<>>
<1> DEFINE w == <<f, "async">>
<1>1. PICK i \in DOMAIN fr[f].chain :
          send(w, <<[f |-> f, i |-> i, kind |-> "async", sess |-> fr[f].chain[i].sess,
                     enc |-> fr[f].chain[i].sess \in got]>>)
  BY DEF Complete
<1> DEFINE a == [f |-> f, i |-> i, kind |-> "async", sess |-> fr[f].chain[i].sess,
                 enc |-> fr[f].chain[i].sess \in got]
<1>2. fr[f].chain \in Seq(Member) /\ w \in Senders
  BY DEF Types, Frame, Senders
<1>3. fr[f].chain[i] \in Member /\ i \in Nat /\ fr[f].chain # <<>>
  BY <1>1, <1>2
<1>4. a \in Answer /\ a.f = f /\ a.enc = (a.sess \in got)
  BY <1>3 DEF Answer, Member
<1>5. send(w, <<a>>)
  BY <1>1
<1> HIDE DEF a, w
<1>7. <<a>> \in Seq(Answer)
  BY <1>4
<1>8. /\ snd' \in [Senders -> [at : SendSteps, buf : Seq(Answer), ok : BOOLEAN]]
      /\ \A s \in Senders : s # w => snd'[s] = snd[s]
      /\ snd'[w].at # "close" /\ (snd'[w].buf = <<>> \/ snd'[w].buf = <<a>>)
  BY <1>2, <1>5, <1>7, SendEnters
<1>9. UNCHANGED <<reader, cur, got, closed, discard, writer, flushing, fr, q, inHand, owed>>
  BY DEF Complete, chainUnchanged, readVars, queueVars, writerVars
<1> QED  BY <1>3, <1>4, <1>8, <1>9 DEF w

LEMMA CompleteKeeps ==
    ASSUME DeliveryInv, NEW f \in Frames, Complete(f)
    PROVE  DeliveryInv'
<1> USE DEF DeliveryInv
<1>1. /\ UNCHANGED <<reader, cur, got, closed, discard, writer, flushing, fr, q, inHand, owed>>
      /\ snd' \in [Senders -> [at : SendSteps, buf : Seq(Answer), ok : BOOLEAN]]
      /\ \A s \in Senders : s # <<f, "async">> => snd'[s] = snd[s]
      /\ snd'[<<f, "async">>].at # "close"
  BY CompleteFacts
<1>2. \A g \in Frames : snd'[frameOf(g)] = snd[frameOf(g)]
  BY <1>1 DEF frameOf, Senders
<1>3. Types'
  BY <1>1 DEF Types
<1>4. LoopInv'
  BY <1>1, <1>2 DEF LoopInv
<1>5. ShutInv'
  BY <1>1 DEF ShutInv
<1>6. ASSUME ~discard, writer # "discard", NEW b \in owed
      PROVE  OnItsWay(b)'
  <2>1. OnItsWay(b) /\ b.f \in Frames
    BY <1>6 DEF OwedInv, Types, Answer
  <2> QED  BY <2>1, <1>1, <1>2 DEF OnItsWay
<1>7. OwedInv'
  BY <1>1, <1>6 DEF OwedInv
<1> QED  BY <1>3, <1>4, <1>5, <1>7

\* The steps of the reader that touch a frame.
LEMMA BeginFacts ==
    ASSUME Types, LoopInv, DrainForSerial \/ Submit
    PROVE  /\ cur \in Frames /\ Changes(cur) /\ fr[cur].at = "read"
           /\ fr'[cur].pend = fr[cur].pend
           /\ Fields(cur, "chain", fr[cur].i, fr[cur].failed, fr[cur].last, fr[cur].live)
           /\ cur' \in {0, cur} /\ (cur' = 0 <=> reader' # "serial") /\ reader' \in {"serial", "arm"}
           /\ UNCHANGED <<got, snd, q, inHand, owed, closed, discard, writer, flushing>>
<1>1. /\ reader \in {"drainSerial", "submit"}
      /\ fr' = [fr EXCEPT ![cur].at = "chain"]
      /\ UNCHANGED <<got, snd, q, inHand, owed, closed, discard, writer, flushing>>
      /\ (reader' = "serial" /\ cur' = cur) \/ (reader' = "arm" /\ cur' = 0)
  BY DEF DrainForSerial, Submit, goto, readUnchanged, queueVars, writerVars
<1>2. cur # 0 /\ cur \in Frames /\ fr[cur].at = "read"
  BY <1>1 DEF LoopInv, Types
<1>3. PICK f \in Frames : f = cur
  BY <1>2
<1>4. fr[f] \in Frame /\ fr[f].i >= 1
  BY DEF Types
<1> DEFINE n == [fr[f] EXCEPT !.at = "chain"]
<1>5. n \in Frame
  BY <1>4 DEF Frame
<1>6. /\ n.at = "chain" /\ n.chain = fr[f].chain /\ n.sealed = fr[f].sealed /\ n.pend = fr[f].pend
      /\ n.i = fr[f].i /\ n.failed = fr[f].failed /\ n.last = fr[f].last /\ n.live = fr[f].live
  BY <1>4 DEF Frame
<1>7. fr' = [fr EXCEPT ![f] = n]
  BY <1>1, <1>3
<1> HIDE DEF n
<1>8. Changes(f) /\ fr'[f] = n
  BY <1>4, <1>5, <1>6, <1>7, Update
<1> QED  BY <1>1, <1>2, <1>3, <1>6, <1>8 DEF Fields

LEMMA SerialEndsFacts ==
    ASSUME Types, LoopInv, SerialEnds
    PROVE  /\ cur \in Frames /\ Changes(cur) /\ Flushed(cur)
           /\ fr'[cur].pend = fr[cur].pend
           /\ Fields(cur, "done", 1, fr[cur].failed, 0, fr[cur].live)
           /\ reader = "serial" /\ cur' = 0 /\ reader' \in {"drain", "arm"}
           /\ UNCHANGED <<got, snd, q, inHand, owed, closed, discard, writer, flushing>>
<1>1. /\ reader = "serial" /\ Flushed(cur)
      /\ fr' = [fr EXCEPT ![cur].at = "done", ![cur].i = 1, ![cur].last = 0, ![cur].status = "success"]
      /\ UNCHANGED <<got, snd, q, inHand, owed, closed, discard, writer, flushing>>
      /\ reader' \in {"drain", "arm"} /\ cur' = 0
  BY DEF SerialEnds, goto, readUnchanged, queueVars, writerVars, ended
<1>2. cur # 0 /\ cur \in Frames
  BY <1>1 DEF LoopInv, Types
<1>3. PICK f \in Frames : f = cur
  BY <1>2
<1>4. fr[f] \in Frame
  BY DEF Types
<1> DEFINE n == [fr[f] EXCEPT !.at = "done", !.i = 1, !.last = 0, !.status = "success"]
<1>5. n \in Frame
  BY <1>4 DEF Frame
<1>6. /\ n.at = "done" /\ n.chain = fr[f].chain /\ n.sealed = fr[f].sealed /\ n.pend = fr[f].pend
      /\ n.i = 1 /\ n.failed = fr[f].failed /\ n.last = 0 /\ n.live = fr[f].live
  BY <1>4 DEF Frame
<1>7. fr' = [fr EXCEPT ![f] = n]
  BY <1>1, <1>3
<1> HIDE DEF n
<1>i. n.i >= 1
  BY <1>6
<1>8. Changes(f) /\ fr'[f] = n
  BY <1>5, <1>6, <1>7, <1>i, Update
<1> QED  BY <1>1, <1>2, <1>3, <1>6, <1>8 DEF Fields

LEMMA ReadFrameFacts ==
    ASSUME Types, NEW f \in Frames, NEW m \in Inbound[f], ReadFrame(f, m)
    PROVE  /\ fr' \in [Frames -> Frame] /\ \A g \in Frames : g # f => fr'[g] = fr[g]
           /\ fr[f].at = "unsent" /\ fr'[f].sealed = m.sealed /\ fr'[f].chain = m.chain
           /\ fr'[f].pend = fr[f].pend
           /\ Fields(f, "read", fr[f].i, fr[f].failed, fr[f].last, fr[f].live)
           /\ reader = "read" /\ cur' = f /\ reader' \in {"drainSerial", "submit"}
           /\ got' = got \cup ({m.sealed} \ {NoSession}) /\ got' \subseteq Sessions
           /\ UNCHANGED <<snd, q, inHand, owed, closed, discard, writer, flushing>>
<1>1. /\ m \in [chain : Seq(Member) \ {<<>>}, sealed : Sessions \cup {NoSession}]
      /\ fr[f] \in Frame /\ got \subseteq Sessions
  BY TransportConstants DEF Types
<1>2. m.chain \in Seq(Member) /\ m.sealed \in Sessions \cup {NoSession}
  BY <1>1
<1>3. /\ fr' = [fr EXCEPT ![f].at = "read", ![f].chain = m.chain, ![f].sealed = m.sealed]
      /\ got' = got \cup ({m.sealed} \ {NoSession})
      /\ reader = "read" /\ cur' = f /\ reader' \in {"drainSerial", "submit"}
      /\ fr[f].at = "unsent"
      /\ UNCHANGED <<snd, q, inHand, owed, closed, discard, writer, flushing>>
  BY DEF ReadFrame, goto, readUnchanged, queueVars, writerVars, SetGotEncrypted
<1> DEFINE n == [fr[f] EXCEPT !.at = "read", !.chain = m.chain, !.sealed = m.sealed]
<1>4. n \in Frame
  BY <1>1, <1>2 DEF Frame
<1>5. /\ n.at = "read" /\ n.chain = m.chain /\ n.sealed = m.sealed /\ n.pend = fr[f].pend
      /\ n.i = fr[f].i /\ n.failed = fr[f].failed /\ n.last = fr[f].last /\ n.live = fr[f].live
  BY <1>1 DEF Frame
<1>6. fr' = [fr EXCEPT ![f] = n]
  BY <1>3
<1> HIDE DEF n
<1>7. fr'[f] = n /\ fr' \in [Frames -> Frame] /\ \A g \in Frames : g # f => fr'[g] = fr[g]
  BY <1>4, <1>6 DEF Types
<1> QED  BY <1>1, <1>2, <1>3, <1>5, <1>7 DEF Fields

LEMMA ReaderFrameKeeps ==
    ASSUME DeliveryInv,
           \/ DrainForSerial \/ Submit \/ SerialEnds
           \/ \E f \in Frames : \E m \in Inbound[f] : ReadFrame(f, m)
    PROVE  DeliveryInv'
<1> USE DEF DeliveryInv
<1>0. 0 \notin Frames
  BY TransportConstants DEF Frames
<1>1. CASE DrainForSerial \/ Submit
  <2>1. /\ cur \in Frames /\ Changes(cur) /\ fr[cur].at = "read"
        /\ fr'[cur].pend = fr[cur].pend /\ fr'[cur].at = "chain"
        /\ cur' \in {0, cur} /\ (cur' = 0 <=> reader' # "serial") /\ reader' \in {"serial", "arm"}
        /\ UNCHANGED <<got, snd, q, inHand, owed, closed, discard, writer, flushing>>
        /\ reader \in {"drainSerial", "submit"}
    BY <1>1, BeginFacts DEF Fields, DrainForSerial, Submit
  <2>2. Types'
    BY <2>1 DEF Types, Changes, ReaderSteps
  <2>3. LoopInv'
    BY <2>1, <1>0 DEF LoopInv, Changes, frameOf
  <2>4. ShutInv'
    BY <2>1 DEF ShutInv
  <2>5. OwedInv'
    BY <2>1, OwedStays DEF Changes
  <2> QED  BY <2>2, <2>3, <2>4, <2>5
<1>2. CASE SerialEnds
  <2>1. /\ cur \in Frames /\ Changes(cur) /\ Flushed(cur)
        /\ fr'[cur].pend = fr[cur].pend
        /\ reader = "serial" /\ cur' = 0 /\ reader' \in {"drain", "arm"}
        /\ UNCHANGED <<got, snd, q, inHand, owed, closed, discard, writer, flushing>>
    BY <1>2, SerialEndsFacts
  <2>2. Types'
    BY <2>1 DEF Types, Changes, ReaderSteps
  <2>3. LoopInv'
    BY <2>1, <1>0 DEF LoopInv, Changes, frameOf, Flushed, idle
  <2>4. ShutInv'
    BY <2>1 DEF ShutInv
  <2>5. OwedInv'
    BY <2>1, OwedStays DEF Changes
  <2> QED  BY <2>2, <2>3, <2>4, <2>5
<1>3. ASSUME NEW f \in Frames, NEW m \in Inbound[f], ReadFrame(f, m)
      PROVE  DeliveryInv'
  <2>1. /\ fr' \in [Frames -> Frame] /\ \A g \in Frames : g # f => fr'[g] = fr[g]
        /\ fr[f].at = "unsent" /\ fr'[f].at = "read" /\ fr'[f].i = fr[f].i
        /\ fr'[f].pend = fr[f].pend
        /\ reader = "read" /\ cur' = f /\ reader' \in {"drainSerial", "submit"}
        /\ got' \subseteq Sessions
        /\ UNCHANGED <<snd, q, inHand, owed, closed, discard, writer, flushing>>
    BY <1>3, ReadFrameFacts DEF Fields
  <2>2. Types'
    BY <2>1 DEF Types, ReaderSteps
  <2>3. LoopInv'
    BY <2>1, <1>0 DEF LoopInv, frameOf
  <2>4. ShutInv'
    BY <2>1 DEF ShutInv
  <2>5. OwedInv'
    BY <2>1, OwedStays
  <2> QED  BY <2>2, <2>3, <2>4, <2>5
<1> QED  BY <1>1, <1>2, <1>3

\* A sender goes on, or returns.
LEMMA SenderFields ==
    ASSUME Types, NEW s \in Senders
    PROVE  /\ \A step \in SendSteps : sendStep(s, step) =>
                 /\ snd' \in [Senders -> [at : SendSteps, buf : Seq(Answer), ok : BOOLEAN]]
                 /\ \A w \in Senders : w # s => snd'[w] = snd[w]
                 /\ snd'[s].at = step /\ snd'[s].buf = snd[s].buf
           /\ \A err \in BOOLEAN : sendReturns(s, err) =>
                 /\ snd' \in [Senders -> [at : SendSteps, buf : Seq(Answer), ok : BOOLEAN]]
                 /\ \A w \in Senders : w # s => snd'[w] = snd[w]
                 /\ snd'[s].at = "idle" /\ snd'[s].buf = <<>>
           /\ snd[s].buf \in Seq(Answer)
<1> DEFINE R == [at : SendSteps, buf : Seq(Answer), ok : BOOLEAN]
<1>0. snd \in [Senders -> R] /\ snd[s] \in R /\ snd[s].buf \in Seq(Answer)
  BY DEF Types
<1>1. ASSUME NEW step \in SendSteps, sendStep(s, step)
      PROVE  /\ snd' \in [Senders -> R] /\ \A w \in Senders : w # s => snd'[w] = snd[w]
             /\ snd'[s].at = step /\ snd'[s].buf = snd[s].buf
  BY <1>0, <1>1 DEF sendStep
<1>2. ASSUME NEW err \in BOOLEAN, sendReturns(s, err)
      PROVE  /\ snd' \in [Senders -> R] /\ \A w \in Senders : w # s => snd'[w] = snd[w]
             /\ snd'[s].at = "idle" /\ snd'[s].buf = <<>>
  <2>1. PICK ok \in BOOLEAN : ok = ~err
    OBVIOUS
  <2>2. snd' = [snd EXCEPT ![s] = [at |-> "idle", buf |-> <<>>, ok |-> ok]]
    BY <1>2, <2>1 DEF sendReturns
  <2>3. [at |-> "idle", buf |-> <<>>, ok |-> ok] \in R
    BY DEF SendSteps
  <2> QED  BY <1>0, <2>2, <2>3
<1> QED  BY <1>0, <1>1, <1>2

\* The steps inside send leave everything but the writer's side alone.
LEMMA SendFrame ==
    ASSUME NEW s \in Senders, SendStep(s)
    PROVE  UNCHANGED <<reader, cur, fr, got, writer, flushing, inHand, owed>>
  BY DEF SendStep, SendAdd, SendPut, SendRefused, StallDiscard, StallClose, readVars, writerVars

LEMMA SendKeeps ==
    ASSUME DeliveryInv, NEW s \in Senders, SendStep(s)
    PROVE  DeliveryInv'
<1> USE DEF DeliveryInv
<1>0. UNCHANGED <<reader, cur, fr, got, writer, flushing, inHand, owed>>
  BY SendFrame
<1>1. snd[s].at # "idle" /\ \A g \in Frames : fr[g].at \notin Busy => frameOf(g) # s
  BY DEF SendStep, SendAdd, SendPut, SendRefused, StallDiscard, StallClose, LoopInv
\* It is enough to follow the answers.
<1>2. ASSUME snd' \in [Senders -> [at : SendSteps, buf : Seq(Answer), ok : BOOLEAN]],
             \A w \in Senders : w # s => snd'[w] = snd[w],
             q' \in Seq(Seq(Answer)),
             closed => closed', discard => discard', closed' => closed \/ discard',
             snd'[s].at = "close" => discard',
             \A k \in DOMAIN q : k \in DOMAIN q' /\ q'[k] = q[k],
             ~discard' => \/ snd'[s].at # "idle" /\ snd'[s].buf = snd[s].buf
                          \/ \E k \in DOMAIN q' : q'[k] = snd[s].buf
                          \/ \A g \in Frames : frameOf(g) # s
      PROVE  DeliveryInv'
  <2>1. Types'
    BY <1>0, <1>2 DEF Types
  <2>2. LoopInv'
    <3>1. \A g \in Frames : fr[g].at \notin Busy => snd'[frameOf(g)] = snd[frameOf(g)]
      BY <1>1, <1>2, FrameSender
    <3> QED  BY <1>0, <3>1 DEF LoopInv
  <2>3. ShutInv'
    BY <1>0, <1>2 DEF ShutInv
  <2>4. ASSUME ~discard', writer # "discard", NEW b \in owed
        PROVE  OnItsWay(b)'
    <3>1. OnItsWay(b) /\ b.f \in Frames
      BY <1>2, <2>4 DEF OwedInv, Types, Answer
    <3>2. frameOf(b.f) \in Senders
      BY <3>1, FrameSender
    <3>3. CASE \E k \in DOMAIN q : In(b, q[k])
      BY <3>3, <1>2 DEF OnItsWay
    <3>4. CASE snd[frameOf(b.f)].at # "idle" /\ In(b, snd[frameOf(b.f)].buf)
      <4>1. CASE frameOf(b.f) # s
        BY <3>2, <3>4, <4>1, <1>2 DEF OnItsWay
      <4>2. CASE frameOf(b.f) = s
        BY <3>1, <3>4, <4>2, <1>2, <2>4 DEF OnItsWay
      <4> QED  BY <4>1, <4>2
    <3> QED  BY <3>1, <3>3, <3>4, <1>0 DEF OnItsWay
  <2>5. OwedInv'
    BY <1>0, <1>2, <2>4 DEF OwedInv
  <2> QED  BY <2>1, <2>2, <2>3, <2>5
<1>3. CASE SendAdd(s)
  <2>1. PICK step \in {"refused", "put"} : sendStep(s, step)
    BY <1>3 DEF SendAdd
  <2>2. UNCHANGED <<q, closed, discard>>
    BY <1>3 DEF SendAdd
  <2>3. step \in SendSteps
    BY DEF SendSteps
  <2> QED  BY <1>2, <2>1, <2>2, <2>3, SenderFields DEF Types
<1>4. CASE SendPut(s)
  <2>0. UNCHANGED <<closed, discard>>
    BY <1>4 DEF SendPut
  <2>1. CASE q' = Append(q, snd[s].buf) /\ sendReturns(s, FALSE)
    <3>1. snd[s].buf \in Seq(Answer) /\ q \in Seq(Seq(Answer))
      BY SenderFields DEF Types
    <3>2. /\ q' \in Seq(Seq(Answer))
          /\ \A k \in DOMAIN q : k \in DOMAIN q' /\ q'[k] = q[k]
          /\ \E k \in DOMAIN q' : q'[k] = snd[s].buf
      BY <2>1, <3>1, AppendElements
    <3> QED  BY <1>2, <2>0, <2>1, <3>2, SenderFields
  <2>2. CASE closed /\ sendReturns(s, TRUE) /\ q' = q
    <3>1. ~discard => \A g \in Frames : frameOf(g) # s
      BY <2>2, <1>1 DEF ShutInv, LoopInv
    <3> QED  BY <1>2, <2>0, <2>2, <3>1, SenderFields DEF Types
  <2>3. CASE sendStep(s, "refused") /\ q' = q
    <3>1. "refused" \in SendSteps
      BY DEF SendSteps
    <3> QED  BY <1>2, <2>0, <2>3, <3>1, SenderFields DEF Types
  <2> QED  BY <1>4, <2>1, <2>2, <2>3 DEF SendPut
<1>5. CASE SendRefused(s)
  <2>1. sendStep(s, "discard") /\ UNCHANGED <<q, closed, discard>> /\ "discard" \in SendSteps
    BY <1>5 DEF SendRefused, SendSteps
  <2> QED  BY <1>2, <2>1, SenderFields DEF Types
<1>6. CASE StallDiscard(s)
  <2>1. sendStep(s, "close") /\ UNCHANGED <<q, closed>> /\ discard' = TRUE /\ "close" \in SendSteps
    BY <1>6 DEF StallDiscard, SendSteps
  <2> QED  BY <1>2, <2>1, SenderFields DEF Types
<1>7. CASE StallClose(s)
  <2>1. sendReturns(s, TRUE) /\ UNCHANGED <<q, discard>> /\ closed' = TRUE /\ discard
    BY <1>7 DEF StallClose, ShutInv
  <2> QED  BY <1>2, <2>1, SenderFields DEF Types
<1> QED  BY <1>3, <1>4, <1>5, <1>6, <1>7 DEF SendStep

LEMMA WriterKeeps ==
    ASSUME DeliveryInv, WriterStep
    PROVE  DeliveryInv'
<1> USE DEF DeliveryInv
<1>0. UNCHANGED <<reader, cur, fr, got, snd>>
  BY DEF WriterStep, WriterTakes, WriterSeesClosed, WriterCounts, WriteSucceeds, WriteFails,
         WriterDiscards, WriterSignals, Flush, keepsRest, readVars
<1>l. LoopInv'
  BY <1>0 DEF LoopInv, frameOf
\* Taking a frame off the queue keeps its answers in the writer's hand.
<1>t. ASSUME q # <<>>, inHand = <<>>, inHand' = Head(q), q' = Tail(q), UNCHANGED owed
      PROVE  /\ Types'
             /\ \A b \in owed : OnItsWay(b) => OnItsWay(b)'
  <2>1. q \in Seq(Seq(Answer))
    BY DEF Types
  <2>2. /\ Head(q) \in Seq(Answer) /\ Tail(q) \in Seq(Seq(Answer)) /\ Head(q) = q[1]
        /\ \A k \in DOMAIN q : k = 1 \/ (k - 1 \in DOMAIN Tail(q) /\ Tail(q)[k - 1] = q[k])
    BY <2>1, <1>t, TailElements
  <2>3. ASSUME NEW b \in owed, NEW k \in DOMAIN q, In(b, q[k])
        PROVE  OnItsWay(b)'
    <3>1. CASE k = 1
      BY <2>2, <2>3, <3>1, <1>t DEF OnItsWay
    <3>2. CASE k - 1 \in DOMAIN Tail(q) /\ Tail(q)[k - 1] = q[k]
      BY <2>3, <3>2, <1>t DEF OnItsWay
    <3> QED  BY <2>2, <3>1, <3>2
  <2>4. \A b : ~In(b, inHand)
    BY <1>t DEF In
  <2>5. \A b \in owed : OnItsWay(b) => OnItsWay(b)'
    BY <2>3, <2>4, <1>0 DEF OnItsWay, frameOf
  <2> QED  BY <2>2, <2>5, <1>0, <1>t DEF Types
<1>1. CASE WriterTakes
  <2>1. /\ writer = "select" /\ q # <<>> /\ inHand' = Head(q) /\ q' = Tail(q) /\ writer' = "count"
        /\ UNCHANGED <<owed, closed, discard, flushing>> /\ inHand = <<>>
    BY <1>1 DEF WriterTakes, keepsRest, ShutInv
  <2>2. Types' /\ \A b \in owed : OnItsWay(b) => OnItsWay(b)'
    BY <2>1, <1>t
  <2>3. ShutInv'
    BY <2>1, <1>0 DEF ShutInv
  <2>4. OwedInv'
    BY <2>1, <2>2 DEF OwedInv
  <2> QED  BY <2>2, <2>3, <2>4, <1>l
<1>2. CASE WriterSeesClosed \/ WriterCounts \/ WriterDiscards
  <2>1. /\ UNCHANGED <<owed, q, inHand, closed>> /\ (discard => discard')
        /\ \/ writer = "select" /\ closed /\ writer' = "flush" /\ discard' = discard
           \/ writer = "count" /\ writer' = "write" /\ UNCHANGED <<discard, flushing>>
           \/ writer = "discard" /\ writer' = "close" /\ discard' = TRUE /\ flushing' = flushing
    BY <1>2 DEF WriterSeesClosed, WriterCounts, WriterDiscards, keepsRest, queueVars
  <2>2. Types'
    BY <2>1, <1>0 DEF Types
  <2>3. ShutInv'
    BY <2>1, <1>0 DEF ShutInv
  <2>4. \A b \in owed : OnItsWay(b) => OnItsWay(b)'
    BY <2>1, <1>0 DEF OnItsWay, frameOf
  <2>5. OwedInv'
    BY <2>1, <2>4 DEF OwedInv
  <2> QED  BY <2>2, <2>3, <2>5, <1>l
<1>3. CASE WriteSucceeds
  <2>1. /\ writer = "write" /\ owed' = owed \ ToSet(inHand) /\ inHand' = <<>>
        /\ writer' = (IF flushing THEN "flush" ELSE "select")
        /\ UNCHANGED <<q, closed, discard, flushing>>
    BY <1>3 DEF WriteSucceeds, queueVars
  <2>2. Types'
    BY <2>1, <1>0 DEF Types
  <2>3. ShutInv'
    BY <2>1, <1>0 DEF ShutInv
  <2>4. ASSUME NEW b \in owed', OnItsWay(b)  PROVE OnItsWay(b)'
    <3>1. ~In(b, inHand)
      BY <2>1, <2>4 DEF In, ToSet
    <3> QED  BY <2>1, <2>4, <3>1, <1>0 DEF OnItsWay, frameOf
  <2>5. OwedInv'
    BY <2>1, <2>4 DEF OwedInv
  <2> QED  BY <2>2, <2>3, <2>5, <1>l
<1>4. CASE WriteFails
  <2>1. /\ inHand' = <<>> /\ writer' = "discard" /\ UNCHANGED <<owed, q, closed, discard, flushing>>
    BY <1>4 DEF WriteFails, keepsRest, queueVars
  <2>2. Types'
    BY <2>1, <1>0 DEF Types
  <2>3. ShutInv'
    BY <2>1, <1>0 DEF ShutInv
  <2>4. OwedInv'
    BY <2>1 DEF OwedInv
  <2> QED  BY <2>2, <2>3, <2>4, <1>l
<1>5. CASE WriterSignals
  <2>1. /\ writer = "close" /\ closed' = TRUE /\ writer' = "exited"
        /\ UNCHANGED <<owed, q, discard, flushing, inHand>>
    BY <1>5 DEF WriterSignals, keepsRest
  <2>2. Types'
    BY <2>1, <1>0 DEF Types
  <2>3. discard
    BY <2>1 DEF ShutInv
  <2>4. ShutInv'
    BY <2>1, <2>3, <1>0 DEF ShutInv
  <2>5. OwedInv'
    BY <2>1, <2>3 DEF OwedInv
  <2> QED  BY <2>2, <2>4, <2>5, <1>l
<1>6. CASE Flush
  <2>1. writer = "flush" /\ inHand = <<>> /\ closed /\ UNCHANGED <<owed, closed, discard, flushing>>
    BY <1>6 DEF Flush, keepsRest, ShutInv
  <2>2. CASE ~(discard \/ q = <<>>)
    <3>1. writer' = "count" /\ inHand' = Head(q) /\ q' = Tail(q) /\ q # <<>>
      BY <1>6, <2>2 DEF Flush
    <3>2. Types' /\ \A b \in owed : OnItsWay(b) => OnItsWay(b)'
      BY <2>1, <3>1, <1>t
    <3>3. ShutInv'
      BY <2>1, <3>1, <1>0 DEF ShutInv
    <3>4. OwedInv'
      BY <2>1, <3>1, <3>2 DEF OwedInv
    <3> QED  BY <3>2, <3>3, <3>4, <1>l
  <2>3. CASE discard \/ q = <<>>
    <3>1. writer' = "exited" /\ UNCHANGED <<q, inHand>>
      BY <1>6, <2>3 DEF Flush
    <3>2. Types'
      BY <2>1, <3>1, <1>0 DEF Types
    <3>3. ShutInv'
      BY <2>1, <3>1, <1>0 DEF ShutInv
    <3>4. ASSUME ~discard, NEW b \in owed  PROVE FALSE
      <4>1. OnItsWay(b) /\ b.f \in Frames
        BY <2>1, <3>4 DEF OwedInv, Types, Answer
      <4>2. fr[b.f].at \in {"unsent", "done"}
        BY <2>1, <3>4, <4>1 DEF ShutInv, LoopInv
      <4>3. fr[b.f].pend = <<>> /\ snd[frameOf(b.f)].at = "idle"
        BY <4>1, <4>2 DEF LoopInv
      <4>4. q = <<>> /\ inHand = <<>>
        BY <2>1, <2>3, <3>4
      <4> QED  BY <4>1, <4>3, <4>4 DEF OnItsWay, In
    <3>5. OwedInv'
      BY <2>1, <3>1, <3>4 DEF OwedInv
    <3> QED  BY <3>2, <3>3, <3>5, <1>l
  <2> QED  BY <2>2, <2>3
<1> QED  BY <1>1, <1>2, <1>3, <1>4, <1>5, <1>6 DEF WriterStep

\* What is left of the reader's steps touches no frame.
LEMMA TurnedSteps ==
    ASSUME Types,
           \/ Arm \/ TestAborted \/ Drain \/ CancelAllNotifies \/ SignalClose \/ WriterDone
           \/ DrainTimeout \/ ForceSocket \/ CloseSocket \/ ReadFails \/ ServerStops
    PROVE  Turned
<1> USE DEF goto, readUnchanged, readVars, queueVars, writerVars, Turned, ReaderSteps
<1>1. CASE Arm
  BY <1>1 DEF Arm
<1>2. CASE TestAborted
  BY <1>2 DEF TestAborted
<1>3. CASE Drain
  BY <1>3 DEF Drain
<1>4. CASE CancelAllNotifies
  BY <1>4 DEF CancelAllNotifies
<1>5. CASE SignalClose
  BY <1>5 DEF SignalClose
<1>6. CASE WriterDone
  BY <1>6 DEF WriterDone
<1>7. CASE DrainTimeout
  BY <1>7 DEF DrainTimeout
<1>8. CASE ForceSocket
  BY <1>8 DEF ForceSocket
<1>9. CASE CloseSocket
  BY <1>9 DEF CloseSocket
<1>10. CASE ReadFails
  BY <1>10 DEF ReadFails
<1>11. CASE ServerStops
  BY <1>11 DEF ServerStops, Types
<1> QED  BY <1>1, <1>2, <1>3, <1>4, <1>5, <1>6, <1>7, <1>8, <1>9, <1>10, <1>11

\* Every step is of one of the kinds.
StepKind ==
    \/ \E f \in Frames : \/ Answered(f) \/ SentAlone(f) \/ Moved(f) \/ FlushGroup(f) \/ Complete(f)
                         \/ \E m \in Inbound[f] : ReadFrame(f, m)
    \/ DrainForSerial \/ Submit \/ SerialEnds \/ Turned \/ WriterStep
    \/ \E s \in Senders : SendStep(s)

LEMMA FrameKinds ==
    ASSUME Types, NEW f \in Frames, FrameStep(f)
    PROVE  Answered(f) \/ SentAlone(f) \/ Moved(f) \/ FlushGroup(f)
<1>1. CASE Inherit(f) \/ Create(f) \/ Operate(f) \/ Close(f) \/ Fatal(f) \/ Park(f) \/ SessionSetup(f)
  BY <1>1, InheritStep, CreateStep, OperateStep, CloseStep, FatalStep, ParkStep, SetupStep
<1>2. CASE \/ Cancel(f) \/ SessionSetupReturns(f) \/ Garbled(f) \/ ChainEnds(f) \/ FrameEnds(f)
           \/ AbortFlag(f) \/ AbortDeadline(f)
  BY <1>2, CancelStep, SessionSetupReturnsStep, GarbledStep, ChainEndsStep, FrameEndsStep,
     AbortFlagStep, AbortDeadlineStep
<1> QED  BY <1>1, <1>2 DEF FrameStep

LEMMA NextKinds ==
    ASSUME Types, Next
    PROVE  StepKind
<1>1. CASE ReaderStep \/ ReadFails \/ ServerStops
  BY <1>1, TurnedSteps DEF ReaderStep, StepKind
<1>2. CASE \E f \in Frames : FrameStep(f) \/ Complete(f) \/ \E m \in Inbound[f] : ReadFrame(f, m)
  BY <1>2, FrameKinds DEF StepKind
<1>3. CASE WriterStep \/ \E s \in Senders : SendStep(s)
  BY <1>3 DEF StepKind
<1> QED  BY <1>1, <1>2, <1>3 DEF Next

LEMMA DeliveryStep ==
    ASSUME DeliveryInv, [Next]_vars
    PROVE  DeliveryInv'
<1>1. CASE UNCHANGED vars
  BY <1>1 DEF DeliveryInv, Types, LoopInv, ShutInv, OwedInv, OnItsWay, frameOf,
              vars, readVars, queueVars, writerVars
<1>2. CASE Next
  <2>1. StepKind
    BY <1>2, NextKinds DEF DeliveryInv
  <2> QED  BY <2>1, AnsweredKeeps, SentAloneKeeps, MovedKeeps, FlushGroupKeeps, CompleteKeeps,
              ReaderFrameKeeps, TurnedKeeps, WriterKeeps, SendKeeps DEF StepKind
<1> QED  BY <1>1, <1>2

LEMMA DeliveryInit ==
    ASSUME Init
    PROVE  DeliveryInv
<1>1. Types
  <2>1. [at |-> "unsent", chain |-> <<>>, i |-> 1, sealed |-> NoSession,
         pend |-> <<>>, failed |-> FALSE, last |-> 0, status |-> "success", live |-> {}] \in Frame
    BY DEF Frame
  <2>2. [at |-> "idle", buf |-> <<>>, ok |-> TRUE] \in [at : SendSteps, buf : Seq(Answer), ok : BOOLEAN]
    BY DEF SendSteps
  <2> QED  BY <2>1, <2>2 DEF Init, Types, ReaderSteps
<1>2. LoopInv
  BY FrameSender DEF Init, LoopInv
<1>3. ShutInv /\ OwedInv
  BY DEF Init, ShutInv, OwedInv
<1> QED  BY <1>1, <1>2, <1>3 DEF DeliveryInv

\* For every peer, pool and queue: a writer that ends without having to discard
\* anything has written every answer of every frame that was served.
THEOREM OwedDelivered == Spec => []OwedAnswersDelivered
<1>1. Init => DeliveryInv
  BY DeliveryInit
<1>2. DeliveryInv /\ [Next]_vars => DeliveryInv'
  BY DeliveryStep
<1>3. DeliveryInv => OwedAnswersDelivered
  BY DEF DeliveryInv, OwedInv, OwedAnswersDelivered
<1> QED  BY <1>1, <1>2, <1>3, PTL DEF Spec

-----------------------------------------------------------------------------
(* Each kind of step preserves SealInv.                                    *)

\* A frame that was read stays read, under the same session.
Grows == \A g \in Frames : fr[g].at # "unsent" =>
             fr'[g].at # "unsent" /\ fr'[g].sealed = fr[g].sealed

LEMMA SealedStays ==
    ASSUME Grows, NEW p \in Seq(Answer), AllSealed(p, fr)
    PROVE  AllSealed(p, fr')
<1>0. \A n \in DOMAIN p : p[n] \in Answer
  OBVIOUS
<1>1. \A n \in DOMAIN p : p[n].f \in Frames
  BY <1>0 DEF Answer
<1> QED  BY <1>1 DEF AllSealed, Sealed, Grows

LEMMA SealedFacts ==
    ASSUME Types, SealInv, Grows
    PROVE  /\ \A g \in Frames : AllSealed(fr[g].pend, fr')
           /\ \A s \in Senders : Uniform(snd[s].buf) /\ AllSealed(snd[s].buf, fr')
           /\ \A k \in DOMAIN q : Uniform(q[k]) /\ AllSealed(q[k], fr')
<1>1. ASSUME NEW g \in Frames  PROVE AllSealed(fr[g].pend, fr')
  <2>1. fr[g].pend \in Seq(Answer) /\ AllSealed(fr[g].pend, fr)
    BY DEF Types, Frame, SealInv
  <2> QED  BY <2>1, SealedStays
<1>2. ASSUME NEW s \in Senders  PROVE Uniform(snd[s].buf) /\ AllSealed(snd[s].buf, fr')
  <2>1. snd[s].buf \in Seq(Answer) /\ AllSealed(snd[s].buf, fr) /\ Uniform(snd[s].buf)
    BY DEF Types, SealInv
  <2> QED  BY <2>1, SealedStays
<1>3. ASSUME NEW k \in DOMAIN q  PROVE Uniform(q[k]) /\ AllSealed(q[k], fr')
  <2>1. q[k] \in Seq(Answer) /\ AllSealed(q[k], fr) /\ Uniform(q[k])
    BY DEF Types, SealInv
  <2> QED  BY <2>1, SealedStays
<1> QED  BY <1>1, <1>2, <1>3

\* A message of one answer.
LEMMA OneAnswer ==
    ASSUME NEW a \in Answer, NEW frames
    PROVE  /\ Uniform(<<>>) /\ AllSealed(<<>>, frames) /\ Uniform(<<a>>)
           /\ Sealed(a, frames) => AllSealed(<<a>>, frames)
<1>1. DOMAIN <<a>> = {1} /\ <<a>>[1] = a /\ \A n \in DOMAIN <<>> : FALSE
  OBVIOUS
<1> QED  BY <1>1, Zenon DEF Uniform, AllSealed

\* Steps that leave the answers where they are.
LEMMA SealStays ==
    ASSUME Types, SealInv, Grows, UNCHANGED <<snd, q>>,
           \A g \in Frames : /\ fr'[g].pend = fr[g].pend
                             /\ fr'[g].sealed \in got' \cup {NoSession}
                             /\ fr'[g].at = "unsent" => fr'[g].chain = <<>>
    PROVE  SealInv'
  BY SealedFacts DEF SealInv

\* Steps of a frame, which keep what it came as.
LEMMA ChangesFacts ==
    ASSUME Types, SealInv, NEW f \in Frames, Changes(f), fr'[f].at # "unsent", got \subseteq got'
    PROVE  /\ Grows
           /\ \A g \in Frames : /\ fr'[g].sealed \in got' \cup {NoSession}
                                /\ fr'[g].at = "unsent" => fr'[g].chain = <<>>
  BY DEF Changes, Grows, SealInv

LEMMA AnsweredSeals ==
    ASSUME Types, SealInv, NEW f \in Frames, Answered(f)
    PROVE  SealInv'
<1>1. PICK s \in Sessions \cup {NoSession} :
          fr'[f].pend = Append(fr[f].pend, answer(f, "sync", s, willEncryptResponse(f, s)))
  BY DEF Answered
<1> DEFINE a == answer(f, "sync", s, willEncryptResponse(f, s))
<1>2. a \in Answer /\ fr[f].pend \in Seq(Answer)
  BY DEF Types, Frame, Answer, answer, willEncryptResponse
<1>3. /\ Changes(f) /\ fr'[f].at # "unsent" /\ UNCHANGED <<got, snd, q>>
  BY DEF Answered, loopVars
<1>4. /\ Grows
      /\ \A g \in Frames : /\ fr'[g].sealed \in got' \cup {NoSession}
                           /\ fr'[g].at = "unsent" => fr'[g].chain = <<>>
  BY <1>3, ChangesFacts
<1>5. Sealed(a, fr')
  BY <1>3 DEF Sealed, answer, willEncryptResponse, Changes
<1>6. fr'[f].pend = Append(fr[f].pend, a)
  BY <1>1
<1> HIDE DEF a
<1>7. AllSealed(fr[f].pend, fr')
  BY <1>4, SealedFacts
<1>8. AllSealed(fr'[f].pend, fr')
  <2>1. \A k \in DOMAIN fr'[f].pend :
            fr'[f].pend[k] = a \/ (k \in DOMAIN fr[f].pend /\ fr'[f].pend[k] = fr[f].pend[k])
    BY <1>2, <1>6, AppendElements
  <2> QED  BY <2>1, <1>5, <1>7 DEF AllSealed
<1>9. \A g \in Frames : AllSealed(fr'[g].pend, fr')
  BY <1>3, <1>4, <1>8, SealedFacts DEF Changes
<1>10. /\ \A s2 \in Senders : Uniform(snd[s2].buf) /\ AllSealed(snd[s2].buf, fr')
       /\ \A k \in DOMAIN q : Uniform(q[k]) /\ AllSealed(q[k], fr')
  BY <1>4, SealedFacts
<1> QED  BY <1>3, <1>4, <1>9, <1>10 DEF SealInv

\* A new message of a sender.
LEMMA SendSeals ==
    ASSUME Types, SealInv, NEW s \in Senders, NEW buf \in Seq(Answer), send(s, buf), Grows,
           Uniform(buf), AllSealed(buf, fr'), q' = q,
           \A g \in Frames : /\ AllSealed(fr'[g].pend, fr')
                             /\ fr'[g].sealed \in got' \cup {NoSession}
                             /\ fr'[g].at = "unsent" => fr'[g].chain = <<>>
    PROVE  SealInv'
<1>1. /\ \A w \in Senders : w # s => snd'[w] = snd[w]
      /\ snd'[s].buf = <<>> \/ snd'[s].buf = buf
  BY SendEnters
<1>2. Uniform(<<>>) /\ AllSealed(<<>>, fr')
  BY DEF Uniform, AllSealed
<1>3. /\ \A w \in Senders : Uniform(snd[w].buf) /\ AllSealed(snd[w].buf, fr')
      /\ \A k \in DOMAIN q : Uniform(q[k]) /\ AllSealed(q[k], fr')
  BY SealedFacts
<1>4. \A w \in Senders : Uniform(snd'[w].buf) /\ AllSealed(snd'[w].buf, fr')
  BY <1>1, <1>2, <1>3, Zenon
<1> QED  BY <1>3, <1>4 DEF SealInv

LEMMA SentAloneSeals ==
    ASSUME Types, SealInv, NEW f \in Frames, SentAlone(f)
    PROVE  SealInv'
<1>1. PICK a \in Answer : /\ a.f = f /\ (a.kind = "setup" \/ a.enc = (a.sess \in got))
                          /\ send(frameOf(f), <<a>>)
  BY DEF SentAlone
<1>2. /\ Changes(f) /\ fr'[f].at # "unsent" /\ fr'[f].pend = fr[f].pend
      /\ UNCHANGED <<got, q>>
  BY DEF SentAlone, loopVars
<1>3. /\ Grows
      /\ \A g \in Frames : /\ fr'[g].sealed \in got' \cup {NoSession}
                           /\ fr'[g].at = "unsent" => fr'[g].chain = <<>>
  BY <1>2, ChangesFacts
<1>4. Sealed(a, fr')
  BY <1>1, <1>2, <1>3 DEF Sealed
<1>5. \A g \in Frames : AllSealed(fr'[g].pend, fr')
  BY <1>2, <1>3, SealedFacts DEF Changes
<1>6. Uniform(<<a>>) /\ AllSealed(<<a>>, fr') /\ <<a>> \in Seq(Answer)
  BY <1>1, <1>4, OneAnswer
<1> QED  BY <1>1, <1>2, <1>3, <1>5, <1>6, FrameSender, SendSeals

LEMMA FlushGroupSeals ==
    ASSUME Types, SealInv, NEW f \in Frames, FlushGroup(f)
    PROVE  SealInv'
<1>1. Changes(f) /\ fr'[f].at # "unsent" /\ UNCHANGED <<got, q>>
  BY FlushFacts DEF Fields
<1>2. PICK h, t \in Seq(Answer) :
          /\ send(frameOf(f), h) /\ fr'[f].pend = t /\ Uniform(h)
          /\ \A k \in DOMAIN h : In(h[k], fr[f].pend)
          /\ \A k \in DOMAIN t : In(t[k], fr[f].pend)
  BY FlushFacts
<1>3. /\ Grows
      /\ \A g \in Frames : /\ fr'[g].sealed \in got' \cup {NoSession}
                           /\ fr'[g].at = "unsent" => fr'[g].chain = <<>>
  BY <1>1, ChangesFacts
<1>4. \A g \in Frames : AllSealed(fr[g].pend, fr')
  BY <1>3, SealedFacts
<1>5. AllSealed(h, fr') /\ AllSealed(t, fr')
  BY <1>2, <1>4, Zenon DEF AllSealed, In
<1>6. \A g \in Frames : AllSealed(fr'[g].pend, fr')
  BY <1>1, <1>2, <1>4, <1>5 DEF Changes
<1> QED  BY <1>1, <1>2, <1>3, <1>5, <1>6, FrameSender, SendSeals

LEMMA CompleteSeals ==
    ASSUME Types, SealInv, NEW f \in Frames, Complete(f)
    PROVE  SealInv'
<1> DEFINE w == <<f, "async">>
<1>1. /\ UNCHANGED <<got, fr, q>> /\ \A s \in Senders : s # w => snd'[s] = snd[s]
      /\ \/ snd'[w].buf = <<>>
         \/ \E a \in Answer : /\ snd'[w].buf = <<a>> /\ a.f = f /\ a.enc = (a.sess \in got)
                              /\ fr[f].chain # <<>>
  BY CompleteFacts
<1> HIDE DEF w
<1>2. Uniform(snd'[w].buf) /\ AllSealed(snd'[w].buf, fr)
  <2>1. CASE snd'[w].buf = <<>>
    BY <2>1 DEF Uniform, AllSealed
  <2>2. ASSUME NEW a \in Answer, snd'[w].buf = <<a>>, a.f = f, a.enc = (a.sess \in got),
               fr[f].chain # <<>>
        PROVE  Uniform(snd'[w].buf) /\ AllSealed(snd'[w].buf, fr)
    <3>1. Sealed(a, fr)
      BY <2>2 DEF Sealed, SealInv
    <3> QED  BY <2>2, <3>1, OneAnswer
  <2> QED  BY <1>1, <2>1, <2>2
<1>3. \A s \in Senders : Uniform(snd'[s].buf) /\ AllSealed(snd'[s].buf, fr)
  BY <1>1, <1>2 DEF SealInv
<1> QED  BY <1>1, <1>3 DEF SealInv

LEMMA SendStepSeals ==
    ASSUME Types, SealInv, NEW s \in Senders, SendStep(s)
    PROVE  SealInv'
<1>0. UNCHANGED <<fr, got>>
  BY SendFrame
<1>1. /\ \A w \in Senders : w # s => snd'[w] = snd[w]
      /\ snd'[s].buf = <<>> \/ snd'[s].buf = snd[s].buf
  <2>1. \E step \in SendSteps, err \in BOOLEAN : sendStep(s, step) \/ sendReturns(s, err)
    BY DEF SendStep, SendAdd, SendPut, SendRefused, StallDiscard, StallClose, SendSteps
  <2> QED  BY <2>1, SenderFields
<1>2. q' = q \/ q' = Append(q, snd[s].buf)
  BY DEF SendStep, SendAdd, SendPut, SendRefused, StallDiscard, StallClose
<1>3. Uniform(<<>>) /\ AllSealed(<<>>, fr)
  BY DEF Uniform, AllSealed
<1>4. \A w \in Senders : Uniform(snd'[w].buf) /\ AllSealed(snd'[w].buf, fr)
  BY <1>1, <1>3 DEF SealInv
<1>5. \A k \in DOMAIN q' : Uniform(q'[k]) /\ AllSealed(q'[k], fr)
  <2>1. snd[s].buf \in Seq(Answer) /\ q \in Seq(Seq(Answer))
    BY DEF Types
  <2>2. Uniform(snd[s].buf) /\ AllSealed(snd[s].buf, fr)
    BY DEF SealInv
  <2>3. CASE q' = Append(q, snd[s].buf)
    <3>1. \A k \in DOMAIN q' : q'[k] = snd[s].buf \/ (k \in DOMAIN q /\ q'[k] = q[k])
      BY <2>1, <2>3, AppendElements
    <3> QED  BY <2>2, <3>1 DEF SealInv
  <2>4. CASE q' = q
    BY <2>4 DEF SealInv
  <2> QED  BY <1>2, <2>3, <2>4
<1> QED  BY <1>0, <1>4, <1>5 DEF SealInv

LEMMA WriterSeals ==
    ASSUME Types, SealInv, WriterStep
    PROVE  SealInv'
<1>1. UNCHANGED <<fr, got, snd>>
  BY DEF WriterStep, WriterTakes, WriterSeesClosed, WriterCounts, WriteSucceeds, WriteFails,
         WriterDiscards, WriterSignals, Flush, keepsRest, readVars
<1>2. q' = q \/ (q # <<>> /\ q' = Tail(q))
  BY DEF WriterStep, WriterTakes, WriterSeesClosed, WriterCounts, WriteSucceeds, WriteFails,
         WriterDiscards, WriterSignals, Flush, queueVars
<1>3. \A k \in DOMAIN q' : \E j \in DOMAIN q : q'[k] = q[j]
  <2>1. CASE q # <<>> /\ q' = Tail(q)
    <3>1. q \in Seq(Seq(Answer))
      BY DEF Types
    <3>2. \A k \in DOMAIN Tail(q) : k + 1 \in DOMAIN q /\ Tail(q)[k] = q[k + 1]
      BY <2>1, <3>1, TailElements
    <3> QED  BY <2>1, <3>2
  <2> QED  BY <1>2, <2>1
<1> QED  BY <1>1, <1>3 DEF SealInv

LEMMA ReaderSeals ==
    ASSUME Types, LoopInv, SealInv,
           \/ DrainForSerial \/ Submit \/ SerialEnds \/ Turned
           \/ \E f \in Frames : Moved(f) \/ \E m \in Inbound[f] : ReadFrame(f, m)
    PROVE  SealInv'
<1>1. CASE \/ DrainForSerial \/ Submit \/ SerialEnds \/ \E f \in Frames : Moved(f)
  <2>1. PICK f \in Frames : /\ Changes(f) /\ fr'[f].at # "unsent" /\ fr'[f].pend = fr[f].pend
                            /\ UNCHANGED <<got, snd, q>>
    <3>1. CASE DrainForSerial \/ Submit
      BY <3>1, BeginFacts DEF Fields
    <3>2. CASE SerialEnds
      BY <3>2, SerialEndsFacts DEF Fields
    <3>3. CASE \E f \in Frames : Moved(f)
      BY <3>3 DEF Moved, loopVars
    <3> QED  BY <1>1, <3>1, <3>2, <3>3
  <2>2. /\ Grows
        /\ \A g \in Frames : /\ fr'[g].sealed \in got' \cup {NoSession}
                             /\ fr'[g].at = "unsent" => fr'[g].chain = <<>>
    BY <2>1, ChangesFacts
  <2>3. \A g \in Frames : fr'[g].pend = fr[g].pend
    BY <2>1 DEF Changes
  <2> QED  BY <2>1, <2>2, <2>3, SealStays
<1>2. CASE Turned
  <2>1. UNCHANGED <<fr, got, snd, q>>
    BY <1>2 DEF Turned
  <2> QED  BY <2>1 DEF SealInv
<1>3. ASSUME NEW f \in Frames, NEW m \in Inbound[f], ReadFrame(f, m)
      PROVE  SealInv'
  <2>1. /\ \A g \in Frames : g # f => fr'[g] = fr[g]
        /\ fr[f].at = "unsent" /\ fr'[f].sealed = m.sealed /\ fr'[f].at = "read"
        /\ fr'[f].pend = fr[f].pend
        /\ got' = got \cup ({m.sealed} \ {NoSession})
        /\ UNCHANGED <<snd, q>>
    BY <1>3, ReadFrameFacts DEF Fields
  <2>2. Grows
    BY <2>1 DEF Grows
  <2>3. \A g \in Frames : /\ fr'[g].pend = fr[g].pend
                          /\ fr'[g].sealed \in got' \cup {NoSession}
                          /\ fr'[g].at = "unsent" => fr'[g].chain = <<>>
    BY <2>1 DEF SealInv
  <2> QED  BY <2>1, <2>2, <2>3, SealStays
<1> QED  BY <1>1, <1>2, <1>3

\* For every peer, pool and queue: what is queued as one message is for one
\* session and sealed or not as one, and the answer to a sealed request is sealed.
THEOREM SealedLikeItsRequest == Spec => []AnswersStaySealed
<1> DEFINE I == DeliveryInv /\ SealInv
<1>1. Init => I
  <2>1. Init => SealInv
    BY DEF Init, SealInv, Uniform, AllSealed
  <2> QED  BY <2>1, DeliveryInit
<1>2. I /\ [Next]_vars => I'
  <2> SUFFICES ASSUME I, [Next]_vars PROVE SealInv'
    BY DeliveryStep
  <2>1. CASE UNCHANGED vars
    BY <2>1 DEF SealInv, vars, queueVars
  <2>2. CASE Next
    <3>1. StepKind /\ Types /\ LoopInv
      BY <2>2, NextKinds DEF DeliveryInv
    <3> QED  BY <3>1, AnsweredSeals, SentAloneSeals, FlushGroupSeals, CompleteSeals,
                ReaderSeals, WriterSeals, SendStepSeals DEF StepKind
  <2> QED  BY <2>1, <2>2
<1>3. I => AnswersStaySealed
  BY DEF SealInv, AnswersStaySealed, Uniform, AllSealed, Sealed
<1> QED  BY <1>1, <1>2, <1>3, PTL DEF Spec

-----------------------------------------------------------------------------
(* A chain and its handles.                                                *)

\* The walk past member p, by what the member did.
LEMMA TrackedOn ==
    ASSUME NEW c \in Seq(Member), NEW p \in DOMAIN c, NEW last, NEW live,
           Tracked(c, p, last, live)
    PROVE  /\ (\A i \in live : ~Matched(c, i, p)) => Tracked(c, p + 1, last, live)
           /\ c[p].cmd = "create" => Tracked(c, p + 1, p, live \cup {p})
           /\ Tracked(c, p + 1, 0, live \ {last})
           /\ \A i \in live : Matched(c, i, p) => last = i
<1>0. DOMAIN c = 1..Len(c) /\ Len(c) \in Nat /\ p \in Nat /\ p >= 1
  OBVIOUS
<1>1. /\ last # 0 => last \in DOMAIN c /\ last < p /\ c[last].cmd = "create"
      /\ \A i \in live : i \in DOMAIN c /\ i < p
      /\ \A i \in live : (\A k \in (i + 1)..(p - 1) : c[k].cmd # "create") => last = i
      /\ \A i \in live : \A j \in DOMAIN c : j < p => ~Matched(c, i, j)
  BY DEF Tracked
<1>2. \A i \in live : Matched(c, i, p) => last = i
  BY <1>1 DEF Matched
<1>3. \A j \in DOMAIN c : j < p + 1 => j < p \/ j = p
  BY <1>0
<1>4. ASSUME NEW i \in live, \A k \in (i + 1)..((p + 1) - 1) : c[k].cmd # "create"
      PROVE  c[p].cmd # "create" /\ last = i
  <2>1. i \in Nat /\ i < p
    BY <1>0, <1>1
  <2>2. p \in (i + 1)..((p + 1) - 1) /\ \A k \in (i + 1)..(p - 1) : k \in (i + 1)..((p + 1) - 1)
    BY <2>1, <1>0
  <2> QED  BY <2>2, <1>1, <1>4
<1>5. last # 0 => last < p + 1
  BY <1>0, <1>1
<1>6. \A i \in live : i < p + 1
  BY <1>0, <1>1
<1>7. ASSUME \A i \in live : ~Matched(c, i, p)
      PROVE  Tracked(c, p + 1, last, live)
  BY <1>1, <1>3, <1>4, <1>5, <1>6, <1>7, Zenon DEF Tracked
<1>8. ASSUME c[p].cmd = "create"
      PROVE  Tracked(c, p + 1, p, live \cup {p})
  <2>1. \A j \in DOMAIN c : j < p + 1 => ~Matched(c, p, j)
    BY <1>0 DEF Matched
  <2>2. p < p + 1 /\ \A i \in live : ~Matched(c, i, p)
    BY <1>0, <1>8 DEF Matched
  <2> QED  BY <1>1, <1>3, <1>4, <1>6, <1>8, <2>1, <2>2, Zenon DEF Tracked
<1>9. Tracked(c, p + 1, 0, live \ {last})
  BY <1>1, <1>2, <1>3, <1>4, <1>6, Zenon DEF Tracked
<1> QED  BY <1>2, <1>7, <1>8, <1>9

\* A frame goes on with its chain.
LEMMA KeptAlong ==
    ASSUME Types, ChainInv, NEW f \in Frames, Changes(f), Kept(fr'[f])
    PROVE  ChainInv'
  BY DEF ChainInv, Changes

\* One member was answered, or needs no answer.
LEMMA MemberKept ==
    ASSUME Types, ChainInv, NEW f \in Frames, InChain(f), Changes(f),
           NEW last, NEW live,
           Fields(f, "chain", fr[f].i + 1, fr[f].failed, last, live),
           Tracked(fr[f].chain, fr[f].i + 1, last, live)
    PROVE  ChainInv'
<1>1. Kept(fr'[f])
  BY DEF Kept, Changes, Fields, ChainInv
<1> QED  BY <1>1, KeptAlong

LEMMA InChainFacts ==
    ASSUME Types, ChainInv, NEW f \in Frames, InChain(f)
    PROVE  LET c == fr[f].chain IN
           /\ c \in Seq(Member) /\ fr[f].i \in DOMAIN c /\ next(f) = c[fr[f].i] /\ OneSession(c)
           /\ Tracked(c, fr[f].i, fr[f].last, fr[f].live)
<1>1. fr[f].i \in DOMAIN fr[f].chain /\ fr[f] \in Frame /\ fr[f].at = "chain"
  BY NextIsMember DEF InChain
<1> QED  BY <1>1 DEF Frame, next, ChainInv, Kept

LEMMA FrameStepKept ==
    ASSUME Types, ChainInv, NEW f \in Frames, FrameStep(f)
    PROVE  ChainInv'
<1> DEFINE c == fr[f].chain
           p == fr[f].i
<1>0. ASSUME InChain(f)
      PROVE  /\ c \in Seq(Member) /\ p \in DOMAIN c /\ next(f) = c[p] /\ OneSession(c)
             /\ Tracked(c, p, fr[f].last, fr[f].live)
  BY <1>0, InChainFacts
\* A member that closes no handle.
<1>s. ASSUME InChain(f), Changes(f), \A i \in fr[f].live : ~Matched(c, i, p),
             Fields(f, "chain", p + 1, fr[f].failed, fr[f].last, fr[f].live)
      PROVE  ChainInv'
  <2>1. Tracked(c, p + 1, fr[f].last, fr[f].live)
    BY <1>0, <1>s, TrackedOn
  <2> QED  BY <1>s, <2>1, MemberKept
<1>m. ASSUME InChain(f), NEW i \in fr[f].live, Matched(c, i, p)
      PROVE  closesLiveHandle(f) /\ next(f).cmd = "close"
  <2>0. fr[f].last = i
    BY <1>0, <1>m, TrackedOn, Zenon
  <2>1. fr[f].last = i /\ i \in DOMAIN c
    BY <2>0, <1>0, <1>m DEF Tracked
  <2>2. i # 0
    BY <2>1, <1>0, <1>m
  <2> QED  BY <2>1, <2>2, <1>0, <1>m DEF Matched, closesLiveHandle
<1>1. CASE Inherit(f)
  <2>1. /\ Answered(f) /\ inherits(f)
        /\ Fields(f, "chain", p + 1, fr[f].failed, fr[f].last, fr[f].live)
    BY <1>1, InheritStep
  <2>2. ~closesLiveHandle(f) /\ InChain(f) /\ Changes(f)
    BY <2>1 DEF inherits, Answered
  <2> QED  BY <2>1, <2>2, <1>m, <1>s
<1>2. CASE Create(f)
  <2>1. Answered(f) /\ next(f).cmd = "create" /\ InChain(f) /\ Changes(f)
    BY <1>2, CreateStep DEF Answered
  <2>2. CASE Fields(f, "chain", p + 1, fr[f].failed, fr[f].last, fr[f].live)
    <3>1. \A i \in fr[f].live : ~Matched(c, i, p)
      BY <2>1, <1>m
    <3> QED  BY <2>1, <2>2, <3>1, <1>s
  <2>3. CASE Fields(f, "chain", p + 1, fr[f].failed, p, fr[f].live \cup {p})
    <3>0. c[p].cmd = "create"
      BY <2>1, <1>0
    <3>1. Tracked(c, p + 1, p, fr[f].live \cup {p})
      BY <2>1, <3>0, <1>0, TrackedOn, Zenon
    <3> QED  BY <2>1, <2>3, <3>1, MemberKept
  <2> QED  BY <1>2, <2>2, <2>3, CreateStep
<1>3. CASE Operate(f) \/ Park(f) \/ Cancel(f)
  <2>1. /\ InChain(f) /\ Changes(f) /\ next(f).cmd # "close"
        /\ Fields(f, "chain", p + 1, fr[f].failed, fr[f].last, fr[f].live)
    <3>1. CASE Operate(f)
      BY <3>1, OperateStep DEF Answered
    <3>2. CASE Park(f)
      BY <3>2, ParkStep DEF Answered, SentAlone
    <3>3. CASE Cancel(f)
      BY <3>3, CancelStep DEF Moved
    <3> QED  BY <1>3, <3>1, <3>2, <3>3
  <2> QED  BY <2>1, <1>m, <1>s
<1>4. CASE Close(f)
  <2>1. /\ InChain(f) /\ Changes(f) /\ next(f).cmd = "close" /\ ~inherits(f)
        /\ Fields(f, "chain", p + 1, fr[f].failed,
                  IF closesLiveHandle(f) THEN 0 ELSE fr[f].last,
                  fr[f].live \ (IF closesLiveHandle(f) /\ ~namesNothing(f)
                                THEN {fr[f].last} ELSE {}))
    BY <1>4, CloseStep DEF Answered
  <2>2. CASE closesLiveHandle(f)
    <3>1. /\ fr[f].last \in DOMAIN c /\ c[fr[f].last].cmd = "create"
          /\ next(f).related /\ sentinel(next(f)) /\ fr[f].last # 0
      BY <2>1, <2>2, <1>0 DEF closesLiveHandle, Tracked
    <3>2. ~namesNothing(f)
      BY <2>1, <3>1, <1>0 DEF namesNothing, OneSession
    <3>3. Tracked(c, p + 1, 0, fr[f].live \ {fr[f].last})
      BY ZenonT(40), <2>1, <1>0, TrackedOn
    <3>4. Fields(f, "chain", p + 1, fr[f].failed, 0, fr[f].live \ {fr[f].last})
      BY <2>1, <2>2, <3>2
    <3> QED  BY <2>1, <3>3, <3>4, MemberKept
  <2>3. CASE ~closesLiveHandle(f)
    <3>1. Fields(f, "chain", p + 1, fr[f].failed, fr[f].last, fr[f].live)
      BY <2>1, <2>3 DEF Fields
    <3> QED  BY <2>1, <2>3, <3>1, <1>m, <1>s
  <2> QED  BY <2>2, <2>3
<1>5. CASE SessionSetup(f)
  <2>1. /\ InChain(f) /\ Changes(f) /\ next(f).cmd = "setup"
        /\ Fields(f, "setup", p, fr[f].failed, fr[f].last, fr[f].live)
    BY <1>5, SetupStep DEF SentAlone
  <2>2. Kept(fr'[f])
    BY <2>1, <1>0 DEF Kept, Fields, Changes
  <2> QED  BY <2>1, <2>2, KeptAlong
<1>6. CASE SessionSetupReturns(f)
  <2>1. /\ Changes(f) /\ fr[f].at = "setup"
        /\ \/ Fields(f, "flush", p + 1, TRUE, fr[f].last, fr[f].live)
           \/ Fields(f, "chain", p + 1, FALSE, fr[f].last, fr[f].live)
    BY <1>6, SessionSetupReturnsStep DEF Moved
  <2>2. /\ c \in Seq(Member) /\ p \in DOMAIN c /\ c[p].cmd = "setup" /\ OneSession(c)
        /\ Tracked(c, p, fr[f].last, fr[f].live)
    BY <2>1 DEF ChainInv, Kept, Types, Frame
  <2>3. \A i \in fr[f].live : ~Matched(c, i, p)
    BY <2>2 DEF Matched
  <2>4. Tracked(c, p + 1, fr[f].last, fr[f].live)
    <3>1. c \in Seq(Member) /\ p \in DOMAIN c /\ Tracked(c, p, fr[f].last, fr[f].live)
      BY <2>2
    <3> HIDE DEF c, p
    <3> QED  BY <2>3, <3>1, TrackedOn
  <2>5. Kept(fr'[f])
    BY <2>1, <2>2, <2>4 DEF Kept, Fields, Changes
  <2> QED  BY <2>1, <2>5, KeptAlong
<1>7. CASE Fatal(f) \/ Garbled(f)
  <2>1. Changes(f) /\ fr'[f].at = "flush" /\ fr'[f].failed = TRUE
    BY <1>7, FatalStep, GarbledStep DEF Answered, Moved, Fields
  <2>2. Kept(fr'[f])
    BY <2>1 DEF Kept, Changes, ChainInv
  <2> QED  BY <2>1, <2>2, KeptAlong
<1>8. CASE ChainEnds(f)
  <2>1. /\ Changes(f) /\ fr[f].at = "chain" /\ p > Len(c)
        /\ Fields(f, "flush", p, fr[f].failed, fr[f].last, fr[f].live)
    BY <1>8, ChainEndsStep DEF Moved
  <2>2. OneSession(c) /\ Tracked(c, p, fr[f].last, fr[f].live) /\ c \in Seq(Member) /\ p \in Nat
    BY <2>1 DEF ChainInv, Kept, Types, Frame
  <2>3. \A j \in DOMAIN c : j < p
    BY <2>1, <2>2
  <2>4. \A i \in fr[f].live : \A j \in DOMAIN c : ~Matched(c, i, j)
    BY <2>2, <2>3 DEF Tracked
  <2>5. Kept(fr'[f])
    BY <2>1, <2>2, <2>4 DEF Kept, Fields, Changes
  <2> QED  BY <2>1, <2>5, KeptAlong
<1>9. CASE FlushGroup(f) \/ FrameEnds(f) \/ AbortFlag(f) \/ AbortDeadline(f)
  <2>1. /\ Changes(f) /\ fr[f].at \in {"flush", "abort", "deadline"}
        /\ fr'[f].at \in {"flush", "abort", "deadline", "done"}
        /\ fr'[f].failed = fr[f].failed /\ fr'[f].live = fr[f].live
    <3>1. CASE FlushGroup(f)
      BY <3>1, FlushFacts DEF Fields
    <3>2. CASE FrameEnds(f)
      BY <3>2, FrameEndsStep DEF Fields, Moved, Flushed
    <3>3. CASE AbortFlag(f) \/ AbortDeadline(f)
      BY <3>3, AbortFlagStep, AbortDeadlineStep DEF Fields, Moved
    <3> QED  BY <1>9, <3>1, <3>2, <3>3
  <2>2. Kept(fr'[f])
    BY <2>1 DEF Kept, Changes, ChainInv
  <2> QED  BY <2>1, <2>2, KeptAlong
<1> QED  BY <1>1, <1>2, <1>3, <1>4, <1>5, <1>6, <1>7, <1>8, <1>9 DEF FrameStep

LEMMA ReaderKept ==
    ASSUME Types, LoopInv, ChainInv, ChainsOfOneSession,
           \/ DrainForSerial \/ Submit \/ SerialEnds
           \/ \E f \in Frames : \E m \in Inbound[f] : ReadFrame(f, m)
    PROVE  ChainInv'
<1>1. CASE DrainForSerial \/ Submit
  <2>1. /\ cur \in Frames /\ Changes(cur) /\ fr[cur].at = "read"
        /\ Fields(cur, "chain", fr[cur].i, fr[cur].failed, fr[cur].last, fr[cur].live)
    BY <1>1, BeginFacts
  <2>2. Tracked(fr[cur].chain, fr[cur].i, fr[cur].last, fr[cur].live) /\ OneSession(fr[cur].chain)
    BY <2>1 DEF ChainInv, Kept, Tracked
  <2>3. Kept(fr'[cur])
    BY <2>1, <2>2 DEF Kept, Fields, Changes
  <2> QED  BY <2>1, <2>3, KeptAlong
<1>2. CASE SerialEnds
  <2>1. /\ cur \in Frames /\ Changes(cur) /\ fr[cur].at = "flush"
        /\ Fields(cur, "done", 1, fr[cur].failed, 0, fr[cur].live)
    BY <1>2, SerialEndsFacts DEF Flushed
  <2>2. Kept(fr'[cur])
    BY <2>1 DEF Kept, Fields, Changes, ChainInv
  <2> QED  BY <2>1, <2>2, KeptAlong
<1>3. ASSUME NEW f \in Frames, NEW m \in Inbound[f], ReadFrame(f, m)
      PROVE  ChainInv'
  <2>1. /\ \A g \in Frames : g # f => fr'[g] = fr[g]
        /\ fr[f].at = "unsent" /\ fr'[f].chain = m.chain
        /\ Fields(f, "read", fr[f].i, fr[f].failed, fr[f].last, fr[f].live)
    BY <1>3, ReadFrameFacts
  <2>2. Kept(fr'[f])
    BY <2>1 DEF Kept, Fields, ChainInv, ChainsOfOneSession
  <2> QED  BY <2>1, <2>2 DEF ChainInv
<1> QED  BY <1>1, <1>2, <1>3

\* For every peer that closes the handles of a chain in the session that opened
\* them: a related chain that ends in a CLOSE of its own handle leaves no handle.
THEOREM ChainLeavesNoHandle == ChainsOfOneSession => (Spec => []ChainClosesItsHandle)
<1> SUFFICES ASSUME ChainsOfOneSession PROVE Spec => []ChainClosesItsHandle
  OBVIOUS
<1> DEFINE I == DeliveryInv /\ ChainInv
<1>1. Init => I
  <2>1. Init => ChainInv
    BY DEF Init, ChainInv, Kept, OneSession
  <2> QED  BY <2>1, DeliveryInit
<1>2. I /\ [Next]_vars => I'
  <2> SUFFICES ASSUME I, [Next]_vars PROVE ChainInv'
    BY DeliveryStep
  <2>0. Types /\ LoopInv
    BY DEF DeliveryInv
  <2>s. ASSUME fr' = fr  PROVE ChainInv'
    BY <2>s DEF ChainInv
  <2>1. CASE UNCHANGED vars
    BY <2>1, <2>s DEF vars
  <2>2. CASE \E f \in Frames : FrameStep(f)
    BY <2>0, <2>2, FrameStepKept
  <2>3. CASE \/ DrainForSerial \/ Submit \/ SerialEnds
             \/ \E f \in Frames : \E m \in Inbound[f] : ReadFrame(f, m)
    BY <2>0, <2>3, ReaderKept
  <2>4. CASE \/ Arm \/ TestAborted \/ Drain \/ CancelAllNotifies \/ SignalClose \/ WriterDone
             \/ DrainTimeout \/ ForceSocket \/ CloseSocket \/ ReadFails \/ ServerStops
    BY <2>0, <2>4, <2>s, TurnedSteps DEF Turned
  <2>5. CASE WriterStep
    BY <2>5, <2>s DEF WriterStep, WriterTakes, WriterSeesClosed, WriterCounts, WriteSucceeds,
           WriteFails, WriterDiscards, WriterSignals, Flush, keepsRest
  <2>6. CASE \E s \in Senders : SendStep(s)
    BY <2>6, <2>s, SendFrame
  <2>7. CASE \E f \in Frames : Complete(f)
    BY <2>7, <2>s DEF Complete
  <2> QED  BY <2>1, <2>2, <2>3, <2>4, <2>5, <2>6, <2>7 DEF Next, ReaderStep
<1>3. I => ChainClosesItsHandle
  BY DEF ChainInv, Kept, ChainClosesItsHandle, Matched
<1> QED  BY <1>1, <1>2, <1>3, PTL DEF Spec

-----------------------------------------------------------------------------
(* Sums.  What sums computes is found by induction on its places, which a  *)
(* set of naturals and its least counterexample stand for.                 *)

\* A set of naturals that has 0, and with i below n also i + 1, has all of 0..n.
LEMMA Induction ==
    ASSUME NEW n \in Nat, NEW P, 0 \in P, \A i \in 0..n : i \in P /\ i < n => i + 1 \in P
    PROVE  \A i \in 0..n : i \in P
<1> SUFFICES ASSUME NEW k \in 0..n, k \notin P  PROVE FALSE
  OBVIOUS
<1> DEFINE B == {i \in 0..n : i \notin P}
<1>1. PICK m \in B : \A i \in B : m <= i
  <2>1. B \subseteq Nat /\ B # {}
    OBVIOUS
  <2> HIDE DEF B
  <2> QED  BY <2>1, LeastElement
<1>2. m \in 0..n /\ m # 0 /\ m - 1 \in 0..n /\ m - 1 < n /\ (m - 1) + 1 = m
  OBVIOUS
<1>3. m - 1 \in P
  BY <1>1, <1>2
<1> QED  BY <1>1, <1>2, <1>3

\* g is what sums recurses to.
SumRun(w, n, g) ==
    /\ DOMAIN g = 0..n
    /\ g = [i \in 0..n |-> IF i = 0 THEN 0 ELSE g[i - 1] + w[i]]

\* A function that sums up exists: it is extended one place at a time.
LEMMA SumRuns ==
    ASSUME NEW w, NEW n \in Nat
    PROVE  \E g : SumRun(w, n, g)
<1> DEFINE plus(f, i) == f + w[i]
           run(m, g) == /\ DOMAIN g = 0..m
                        /\ g = [i \in 0..m |-> IF i = 0 THEN 0 ELSE plus(g[i - 1], i)]
           P == {m \in Nat : \E g : run(m, g)}
<1> HIDE DEF plus
<1>1. 0 \in P
  <2>1. run(0, [i \in 0..0 |-> 0])
    OBVIOUS
  <2> QED  BY <2>1
<1>2. ASSUME NEW m \in 0..n, m \in P  PROVE m + 1 \in P
  <2>1. PICK g : run(m, g)
    BY <1>2
  <2> DEFINE h == [i \in 0..(m + 1) |-> IF i = m + 1 THEN plus(g[m], m + 1) ELSE g[i]]
  <2>2. DOMAIN h = 0..(m + 1) /\ h = [i \in 0..(m + 1) |-> h[i]]
    OBVIOUS
  <2>3. \A i \in 0..m : h[i] = g[i]
    OBVIOUS
  <2>4. h[m + 1] = plus(g[m], m + 1)
    OBVIOUS
  <2> HIDE DEF h
  <2>5. ASSUME NEW i \in 0..(m + 1)
        PROVE  h[i] = IF i = 0 THEN 0 ELSE plus(h[i - 1], i)
    <3>1. CASE i = m + 1
      <4>1. i # 0 /\ i - 1 = m /\ h[m] = g[m]
        BY <3>1, <2>3
      <4> QED  BY <3>1, <4>1, <2>4
    <3>2. CASE i \in 0..m
      <4>1. g[i] = IF i = 0 THEN 0 ELSE plus(g[i - 1], i)
        BY <3>2, <2>1
      <4>2. CASE i = 0
        BY <4>1, <4>2, <3>2, <2>3
      <4>3. CASE i # 0
        <5>1. i - 1 \in 0..m
          BY <3>2, <4>3
        <5> QED  BY <4>1, <4>3, <5>1, <3>2, <2>3
      <4> QED  BY <4>2, <4>3
    <3> QED  BY <3>1, <3>2
  <2>6. run(m + 1, h)
    BY <2>2, <2>5
  <2> QED  BY <2>6
<1> HIDE DEF P
<1>3. \A i \in 0..n : i \in P
  BY <1>1, <1>2, Induction, Zenon
<1>4. n \in P
  BY <1>3
<1> QED  BY <1>4 DEF P, plus, SumRun

\* What sums is, place by place.
LEMMA SumIs ==
    ASSUME NEW w, NEW n \in Nat
    PROVE  \A i \in 0..n : sums(w, n)[i] = IF i = 0 THEN 0 ELSE sums(w, n)[i - 1] + w[i]
<1> DEFINE good(g) == g = [i \in 0..n |-> IF i = 0 THEN 0 ELSE g[i - 1] + w[i]]
           f == CHOOSE g : good(g)
<1>0. \E g : SumRun(w, n, g)
  BY SumRuns, Zenon
<1>1. \E g : good(g)
  BY <1>0, Zenon DEF SumRun
<1>2. sums(w, n) = f
  BY DEF sums
<1> HIDE DEF f, good
<1>3. good(f)
  BY <1>1 DEF f
<1>4. f = [i \in 0..n |-> IF i = 0 THEN 0 ELSE f[i - 1] + w[i]]
  BY <1>3 DEF good
<1> QED  BY <1>2, <1>4

Weights(w, n) == \A k \in 1..n : w[k] \in Nat

LEMMA SumNat ==
    ASSUME NEW w, NEW n \in Nat, Weights(w, n)
    PROVE  \A i \in 0..n : sums(w, n)[i] \in Nat
<1> DEFINE g == sums(w, n)
           P == {i \in Nat : g[i] \in Nat}
<1>1. \A i \in 0..n : g[i] = IF i = 0 THEN 0 ELSE g[i - 1] + w[i]
  BY SumIs
<1> HIDE DEF g
<1>2. 0 \in P
  BY <1>1
<1>3. ASSUME NEW k \in 0..n, k \in P, k < n  PROVE k + 1 \in P
  <2>1. k + 1 \in 1..n /\ k + 1 \in 0..n /\ k + 1 # 0 /\ (k + 1) - 1 = k
    BY <1>3
  <2>2. w[k + 1] \in Nat
    BY <2>1 DEF Weights
  <2>3. g[k + 1] = g[k] + w[k + 1]
    BY <1>1, <2>1
  <2> QED  BY <2>1, <2>2, <2>3, <1>3
<1> HIDE DEF P
<1>4. \A i \in 0..n : i \in P
  BY <1>2, <1>3, Induction, Zenon
<1> QED  BY <1>4 DEF P, g

\* Naturals add up to a natural, and none to 0.
LEMMA TotalNat ==
    ASSUME NEW w, NEW n \in Nat, Weights(w, n)
    PROVE  /\ total(w, n) \in Nat
           /\ n = 0 => total(w, n) = 0
  BY SumIs, SumNat DEF total

\* Weights at most as large have a total at most as large.
LEMMA TotalMonotone ==
    ASSUME NEW v, NEW w, NEW n \in Nat, Weights(v, n), Weights(w, n), \A k \in 1..n : v[k] <= w[k]
    PROVE  total(v, n) <= total(w, n)
<1> DEFINE f == sums(v, n)
           g == sums(w, n)
           P == {i \in Nat : f[i] <= g[i]}
<1>1. /\ \A i \in 0..n : f[i] = IF i = 0 THEN 0 ELSE f[i - 1] + v[i]
      /\ \A i \in 0..n : g[i] = IF i = 0 THEN 0 ELSE g[i - 1] + w[i]
      /\ \A i \in 0..n : f[i] \in Nat /\ g[i] \in Nat
  BY SumIs, SumNat
<1>t. total(v, n) = f[n] /\ total(w, n) = g[n]
  BY DEF total
<1> HIDE DEF f, g
<1>2. 0 \in P
  BY <1>1
<1>3. ASSUME NEW k \in 0..n, k \in P, k < n  PROVE k + 1 \in P
  <2>1. k + 1 \in 1..n /\ k + 1 \in 0..n /\ k + 1 # 0 /\ (k + 1) - 1 = k
    BY <1>3
  <2>2. v[k + 1] \in Nat /\ w[k + 1] \in Nat /\ v[k + 1] <= w[k + 1]
    BY <2>1 DEF Weights
  <2>3. f[k + 1] = f[k] + v[k + 1] /\ g[k + 1] = g[k] + w[k + 1] /\ f[k] \in Nat /\ g[k] \in Nat
    BY <1>1, <2>1
  <2> QED  BY <2>1, <2>2, <2>3, <1>3
<1> HIDE DEF P
<1>4. \A i \in 0..n : i \in P
  BY <1>2, <1>3, Induction, Zenon
<1> QED  BY <1>4, <1>t DEF P

\* One weight changes: the total changes by as much.
LEMMA TotalChanges ==
    ASSUME NEW v, NEW w, NEW n \in Nat, Weights(v, n), Weights(w, n), NEW j \in 1..n,
           \A k \in 1..n : k # j => v[k] = w[k]
    PROVE  total(v, n) + w[j] = total(w, n) + v[j]
<1> DEFINE f == sums(v, n)
           g == sums(w, n)
           P == {i \in Nat : /\ i < j => f[i] = g[i]
                             /\ i >= j => f[i] + w[j] = g[i] + v[j]}
<1>1. /\ \A i \in 0..n : f[i] = IF i = 0 THEN 0 ELSE f[i - 1] + v[i]
      /\ \A i \in 0..n : g[i] = IF i = 0 THEN 0 ELSE g[i - 1] + w[i]
      /\ \A i \in 0..n : f[i] \in Nat /\ g[i] \in Nat
  BY SumIs, SumNat
<1>t. total(v, n) = f[n] /\ total(w, n) = g[n]
  BY DEF total
<1>j. v[j] \in Nat /\ w[j] \in Nat
  BY DEF Weights
<1> HIDE DEF f, g
<1>2. 0 \in P
  BY <1>1
<1>3. ASSUME NEW k \in 0..n, k \in P, k < n  PROVE k + 1 \in P
  <2>1. k + 1 \in 1..n /\ k + 1 \in 0..n /\ k + 1 # 0 /\ (k + 1) - 1 = k
    BY <1>3
  <2>2. v[k + 1] \in Nat /\ w[k + 1] \in Nat /\ (k + 1 # j => v[k + 1] = w[k + 1])
    BY <2>1 DEF Weights
  <2>3. f[k + 1] = f[k] + v[k + 1] /\ g[k + 1] = g[k] + w[k + 1] /\ f[k] \in Nat /\ g[k] \in Nat
    BY <1>1, <2>1
  <2>4. (k < j => f[k] = g[k]) /\ (k >= j => f[k] + w[j] = g[k] + v[j])
    BY <1>3
  <2>5. CASE k + 1 = j
    BY <2>1, <2>2, <2>3, <2>4, <2>5
  <2>6. CASE k + 1 # j
    BY <2>1, <2>2, <2>3, <2>4, <2>6, <1>j
  <2> QED  BY <2>5, <2>6
<1> HIDE DEF P
<1>4. \A i \in 0..n : i \in P
  BY <1>2, <1>3, Induction, Zenon
<1> QED  BY <1>4, <1>t DEF P

\* The first n of n + 1 weights.
LEMMA TotalAppend ==
    ASSUME NEW v, NEW w, NEW n \in Nat, Weights(v, n), \A k \in 1..n : v[k] = w[k]
    PROVE  total(w, n + 1) = total(v, n) + w[n + 1]
<1> DEFINE f == sums(v, n)
           g == sums(w, n + 1)
           P == {i \in Nat : f[i] = g[i]}
<1>0. n + 1 \in Nat /\ n + 1 \in 0..(n + 1) /\ n + 1 # 0 /\ (n + 1) - 1 = n /\ n \in 0..n
  OBVIOUS
<1>1. /\ \A i \in 0..n : f[i] = IF i = 0 THEN 0 ELSE f[i - 1] + v[i]
      /\ \A i \in 0..(n + 1) : g[i] = IF i = 0 THEN 0 ELSE g[i - 1] + w[i]
  BY <1>0, SumIs
<1>t. total(v, n) = f[n] /\ total(w, n + 1) = g[n + 1]
  BY DEF total
<1> HIDE DEF f, g
<1>2. 0 \in P
  BY <1>1
<1>3. ASSUME NEW k \in 0..n, k \in P, k < n  PROVE k + 1 \in P
  <2>1. k + 1 \in 1..n /\ k + 1 \in 0..n /\ k + 1 \in 0..(n + 1) /\ k + 1 # 0 /\ (k + 1) - 1 = k
    BY <1>3
  <2>2. v[k + 1] = w[k + 1]
    BY <2>1
  <2>3. f[k + 1] = f[k] + v[k + 1] /\ g[k + 1] = g[k] + w[k + 1]
    BY <1>1, <2>1
  <2> QED  BY <2>1, <2>2, <2>3, <1>3
<1> HIDE DEF P
<1>4. \A i \in 0..n : i \in P
  BY <1>2, <1>3, Induction, Zenon
<1>5. f[n] = g[n]
  BY <1>0, <1>4 DEF P
<1>6. g[n + 1] = g[n] + w[n + 1]
  BY <1>0, <1>1
<1> QED  BY <1>5, <1>6, <1>t

\* The last n of n + 1 weights.
LEMMA TotalTail ==
    ASSUME NEW v, NEW w, NEW n \in Nat, Weights(v, n), Weights(w, n + 1),
           \A k \in 1..n : v[k] = w[k + 1]
    PROVE  total(w, n + 1) = w[1] + total(v, n)
<1> DEFINE f == sums(v, n)
           g == sums(w, n + 1)
           P == {i \in Nat : g[i + 1] = w[1] + f[i]}
<1>0. n + 1 \in Nat /\ n \in 0..n /\ 1 \in 1..(n + 1) /\ 0 \in 0..(n + 1) /\ 1 \in 0..(n + 1)
  OBVIOUS
<1>1. /\ \A i \in 0..n : f[i] = IF i = 0 THEN 0 ELSE f[i - 1] + v[i]
      /\ \A i \in 0..(n + 1) : g[i] = IF i = 0 THEN 0 ELSE g[i - 1] + w[i]
      /\ \A i \in 0..n : f[i] \in Nat
  BY <1>0, SumIs, SumNat
<1>t. total(v, n) = f[n] /\ total(w, n + 1) = g[n + 1]
  BY DEF total
<1>w. w[1] \in Nat
  BY <1>0 DEF Weights
<1> HIDE DEF f, g
<1>2. 0 \in P
  BY <1>0, <1>1, <1>w
<1>3. ASSUME NEW k \in 0..n, k \in P, k < n  PROVE k + 1 \in P
  <2>1. /\ k + 1 \in 1..n /\ k + 1 \in 0..n /\ k + 1 # 0 /\ (k + 1) - 1 = k
        /\ (k + 1) + 1 \in 0..(n + 1) /\ (k + 1) + 1 # 0 /\ ((k + 1) + 1) - 1 = k + 1
    BY <1>3
  <2>2. v[k + 1] = w[(k + 1) + 1] /\ v[k + 1] \in Nat
    BY <2>1 DEF Weights
  <2>3. f[k + 1] = f[k] + v[k + 1] /\ g[(k + 1) + 1] = g[k + 1] + w[(k + 1) + 1] /\ f[k] \in Nat
    BY <1>1, <2>1
  <2>4. g[k + 1] = w[1] + f[k]
    BY <1>3
  <2> QED  BY <2>1, <2>2, <2>3, <2>4, <1>w
<1> HIDE DEF P
<1>4. \A i \in 0..n : i \in P
  BY <1>2, <1>3, Induction, Zenon
<1>5. g[n + 1] = w[1] + f[n]
  BY <1>0, <1>4 DEF P
<1> QED  BY <1>5, <1>t

LEMMA TotalZero ==
    ASSUME NEW w, NEW n \in Nat, \A k \in 1..n : w[k] = 0
    PROVE  total(w, n) = 0
<1> DEFINE g == sums(w, n)
           P == {i \in Nat : g[i] = 0}
<1>1. \A i \in 0..n : g[i] = IF i = 0 THEN 0 ELSE g[i - 1] + w[i]
  BY SumIs
<1>t. total(w, n) = g[n]
  BY DEF total
<1> HIDE DEF g
<1>2. 0 \in P
  BY <1>1
<1>3. ASSUME NEW k \in 0..n, k \in P, k < n  PROVE k + 1 \in P
  <2>1. k + 1 \in 1..n /\ k + 1 \in 0..n /\ k + 1 # 0 /\ (k + 1) - 1 = k
    BY <1>3
  <2>2. g[k + 1] = g[k] + w[k + 1]
    BY <1>1, <2>1
  <2> QED  BY <2>1, <2>2, <1>3
<1> HIDE DEF P
<1>4. \A i \in 0..n : i \in P
  BY <1>2, <1>3, Induction, Zenon
<1> QED  BY <1>4, <1>t DEF P

-----------------------------------------------------------------------------
(* The backlog, and the count of its bytes.                                *)

\* The sums of the model, by what they depend on.
lens(bufs) == [k \in DOMAIN bufs |-> Len(bufs[k])]

heldBy(r, steps, s) == IF r[s].at \in steps THEN Len(r[s].buf) ELSE 0

loads(r, steps) ==
    [f \in Frames |-> heldBy(r, steps, <<f, "frame">>) + heldBy(r, steps, <<f, "async">>)]

carried(r, steps) == total(loads(r, steps), FrameCount)

senderTable == [Senders -> [at : SendSteps, buf : Seq(Answer), ok : BOOLEAN]]

\* The bytes of a queue.
LEMMA BytesNat ==
    ASSUME NEW bufs \in Seq(Seq(Answer))
    PROVE  /\ Len(bufs) \in Nat /\ Weights(lens(bufs), Len(bufs))
           /\ \A k \in 1..Len(bufs) : lens(bufs)[k] = Len(bufs[k])
           /\ bytes(bufs) = total(lens(bufs), Len(bufs))
           /\ bytes(bufs) \in Nat
<1>1. Len(bufs) \in Nat /\ DOMAIN bufs = 1..Len(bufs) /\ \A k \in 1..Len(bufs) : bufs[k] \in Seq(Answer)
  OBVIOUS
<1>2. \A k \in 1..Len(bufs) : Len(bufs[k]) \in Nat /\ lens(bufs)[k] = Len(bufs[k])
  BY <1>1 DEF lens
<1>3. Weights(lens(bufs), Len(bufs))
  BY <1>2 DEF Weights
<1>4. bytes(bufs) = total(lens(bufs), Len(bufs))
  BY DEF bytes, lens
<1> QED  BY <1>1, <1>2, <1>3, <1>4, TotalNat

\* A message joins the queue.
LEMMA BytesAppend ==
    ASSUME NEW bufs \in Seq(Seq(Answer)), NEW b \in Seq(Answer)
    PROVE  bytes(Append(bufs, b)) = bytes(bufs) + Len(b)
<1> DEFINE n == Len(bufs)
           p == Append(bufs, b)
<1>1. /\ p \in Seq(Seq(Answer)) /\ Len(p) = n + 1 /\ n \in Nat
      /\ p[n + 1] = b /\ \A k \in 1..n : p[k] = bufs[k]
      /\ n + 1 \in 1..(n + 1) /\ \A k \in 1..n : k \in 1..(n + 1)
  OBVIOUS
<1> HIDE DEF p
<1>2. /\ Weights(lens(bufs), n) /\ bytes(bufs) = total(lens(bufs), n)
      /\ \A k \in 1..n : lens(bufs)[k] = Len(bufs[k])
  BY BytesNat
<1> HIDE DEF n
<1>3. /\ bytes(p) = total(lens(p), n + 1)
      /\ \A k \in 1..(n + 1) : lens(p)[k] = Len(p[k])
  BY <1>1, BytesNat
<1>4. \A k \in 1..n : lens(bufs)[k] = lens(p)[k]
  BY <1>1, <1>2, <1>3
<1>5. lens(p)[n + 1] = Len(b)
  BY <1>1, <1>3
<1>6. total(lens(p), n + 1) = total(lens(bufs), n) + lens(p)[n + 1]
  BY <1>1, <1>2, <1>4, TotalAppend
<1> QED  BY <1>2, <1>3, <1>5, <1>6 DEF p

\* A message leaves it.
LEMMA BytesTail ==
    ASSUME NEW bufs \in Seq(Seq(Answer)), bufs # <<>>
    PROVE  bytes(bufs) = Len(Head(bufs)) + bytes(Tail(bufs))
<1>0. PICK n \in Nat : Len(bufs) = n + 1
  <2>1. Len(bufs) \in Nat /\ Len(bufs) # 0
    OBVIOUS
  <2>2. Len(bufs) - 1 \in Nat /\ Len(bufs) = (Len(bufs) - 1) + 1
    BY <2>1
  <2> QED  BY <2>2
<1> DEFINE p == Tail(bufs)
<1>1. /\ p \in Seq(Seq(Answer)) /\ Len(p) = n /\ Head(bufs) = bufs[1]
      /\ \A k \in 1..n : p[k] = bufs[k + 1]
      /\ 1 \in 1..(n + 1) /\ \A k \in 1..n : k + 1 \in 1..(n + 1)
  BY <1>0
<1> HIDE DEF p
<1>2. /\ Weights(lens(bufs), n + 1) /\ bytes(bufs) = total(lens(bufs), n + 1)
      /\ \A k \in 1..(n + 1) : lens(bufs)[k] = Len(bufs[k])
  BY <1>0, BytesNat
<1>3. /\ bytes(p) = total(lens(p), n) /\ Weights(lens(p), n)
      /\ \A k \in 1..n : lens(p)[k] = Len(p[k])
  BY <1>1, BytesNat
<1>4. \A k \in 1..n : lens(p)[k] = lens(bufs)[k + 1]
  BY <1>1, <1>2, <1>3
<1>5. lens(bufs)[1] = Len(Head(bufs))
  BY <1>1, <1>2
<1>6. total(lens(bufs), n + 1) = lens(bufs)[1] + total(lens(p), n)
  BY <1>2, <1>3, <1>4, TotalTail
<1> QED  BY <1>2, <1>3, <1>5, <1>6 DEF p

\* The bytes the senders carry.
LEMMA CarriedNat ==
    ASSUME NEW r \in senderTable, NEW steps
    PROVE  /\ \A s \in Senders : heldBy(r, steps, s) \in Nat
           /\ FrameCount \in Nat /\ Weights(loads(r, steps), FrameCount)
           /\ \A f \in Frames : loads(r, steps)[f] =
                 heldBy(r, steps, <<f, "frame">>) + heldBy(r, steps, <<f, "async">>)
           /\ carried(r, steps) \in Nat
<1>0. FrameCount \in Nat
  BY TransportConstants
<1>1. ASSUME NEW s \in Senders  PROVE heldBy(r, steps, s) \in Nat
  <2>1. r[s].buf \in Seq(Answer)
    BY DEF senderTable
  <2>2. Len(r[s].buf) \in Nat
    BY <2>1
  <2> QED  BY <2>2 DEF heldBy
<1>2. ASSUME NEW f \in Frames
      PROVE  /\ loads(r, steps)[f] = heldBy(r, steps, <<f, "frame">>) + heldBy(r, steps, <<f, "async">>)
             /\ loads(r, steps)[f] \in Nat
  <2>1. <<f, "frame">> \in Senders /\ <<f, "async">> \in Senders
    BY DEF Senders
  <2>2. heldBy(r, steps, <<f, "frame">>) \in Nat /\ heldBy(r, steps, <<f, "async">>) \in Nat
    BY <1>1, <2>1
  <2>3. loads(r, steps)[f] = heldBy(r, steps, <<f, "frame">>) + heldBy(r, steps, <<f, "async">>)
    BY DEF loads
  <2> QED  BY <2>2, <2>3
<1>3. Weights(loads(r, steps), FrameCount)
  BY <1>2 DEF Weights, Frames
<1> QED  BY <1>0, <1>1, <1>2, <1>3, TotalNat DEF carried

\* One sender moves: the sum changes by what it holds before and after.
LEMMA CarriedChanges ==
    ASSUME NEW r1 \in senderTable, NEW r2 \in senderTable, NEW steps, NEW s \in Senders,
           \A w \in Senders : w # s => r2[w] = r1[w]
    PROVE  carried(r2, steps) + heldBy(r1, steps, s) = carried(r1, steps) + heldBy(r2, steps, s)
<1>1. PICK f \in Frames, side \in {"frame", "async"} : s = <<f, side>>
  BY DEF Senders
<1>2. PICK other \in {"frame", "async"} : other # side /\ {side, other} = {"frame", "async"}
  OBVIOUS
<1>s. f \in 1..FrameCount /\ <<f, other>> \in Senders /\ <<f, other>> # s
  BY <1>1, <1>2 DEF Senders, Frames
<1>n. /\ heldBy(r1, steps, s) \in Nat /\ heldBy(r2, steps, s) \in Nat
      /\ heldBy(r1, steps, <<f, other>>) \in Nat /\ heldBy(r2, steps, <<f, other>>) \in Nat
      /\ carried(r1, steps) \in Nat /\ carried(r2, steps) \in Nat
      /\ FrameCount \in Nat
      /\ Weights(loads(r1, steps), FrameCount) /\ Weights(loads(r2, steps), FrameCount)
  BY <1>s, CarriedNat
<1>l. /\ \A g \in Frames : loads(r1, steps)[g] =
            heldBy(r1, steps, <<g, "frame">>) + heldBy(r1, steps, <<g, "async">>)
      /\ \A g \in Frames : loads(r2, steps)[g] =
            heldBy(r2, steps, <<g, "frame">>) + heldBy(r2, steps, <<g, "async">>)
  BY CarriedNat
<1>3. \A w \in Senders : w # s => heldBy(r2, steps, w) = heldBy(r1, steps, w)
  BY DEF heldBy
<1>4. ASSUME NEW g \in 1..FrameCount, g # f
      PROVE  loads(r2, steps)[g] = loads(r1, steps)[g]
  <2>1. /\ <<g, "frame">> \in Senders /\ <<g, "async">> \in Senders
        /\ <<g, "frame">> # s /\ <<g, "async">> # s /\ g \in Frames
    BY <1>1, <1>4 DEF Senders, Frames
  <2> QED  BY <2>1, <1>3, <1>l
<1>5. /\ loads(r1, steps)[f] = heldBy(r1, steps, s) + heldBy(r1, steps, <<f, other>>)
      /\ loads(r2, steps)[f] = heldBy(r2, steps, s) + heldBy(r1, steps, <<f, other>>)
  <2>1. heldBy(r2, steps, <<f, other>>) = heldBy(r1, steps, <<f, other>>)
    BY <1>3, <1>s
  <2>2. CASE side = "frame" /\ other = "async"
    BY <2>1, <2>2, <1>1, <1>l, <1>n
  <2>3. CASE side = "async" /\ other = "frame"
    BY <2>1, <2>3, <1>1, <1>l, <1>n
  <2> QED  BY <1>2, <2>2, <2>3
<1>6. carried(r2, steps) + loads(r1, steps)[f] = carried(r1, steps) + loads(r2, steps)[f]
  BY <1>4, <1>n, <1>s, TotalChanges DEF carried
<1> QED  BY <1>5, <1>6, <1>n

\* The more steps are looked at, the larger the sum.
LEMMA CarriedMore ==
    ASSUME NEW r \in senderTable, NEW steps, NEW more, steps \subseteq more
    PROVE  carried(r, steps) <= carried(r, more)
<1>1. /\ FrameCount \in Nat /\ Weights(loads(r, steps), FrameCount) /\ Weights(loads(r, more), FrameCount)
      /\ \A s \in Senders : heldBy(r, steps, s) \in Nat /\ heldBy(r, more, s) \in Nat
  BY CarriedNat
<1>2. \A s \in Senders : heldBy(r, steps, s) <= heldBy(r, more, s)
  BY <1>1 DEF heldBy
<1>3. ASSUME NEW f \in 1..FrameCount  PROVE loads(r, steps)[f] <= loads(r, more)[f]
  <2>1. <<f, "frame">> \in Senders /\ <<f, "async">> \in Senders /\ f \in Frames
    BY DEF Senders, Frames
  <2>2. /\ loads(r, steps)[f] = heldBy(r, steps, <<f, "frame">>) + heldBy(r, steps, <<f, "async">>)
        /\ loads(r, more)[f] = heldBy(r, more, <<f, "frame">>) + heldBy(r, more, <<f, "async">>)
    BY <2>1, CarriedNat
  <2> QED  BY <2>1, <2>2, <1>1, <1>2
<1> QED  BY <1>1, <1>3, TotalMonotone DEF carried

hand == IF writer = "count" THEN Len(inHand) ELSE 0

\* queued is exact, and what it may still let into the queue is within the budget.
QueueInv ==
    /\ queued = bytes(q) + carried(snd, {"put", "refused"}) + hand
    /\ bytes(q) + carried(snd, {"put"}) <= WriteQueueBytes

\* A parked request that has not answered is in no send.
ParkInv ==
    /\ parked \in [Frames -> {"none", "parked", "cancelled", "done"}]
    /\ \A f \in Frames : parked[f] # "done" => snd[<<f, "async">>].at = "idle"

\* A step outside the sends and the writer: at most one sender enters send.
Outside ==
    /\ UNCHANGED <<queued, writer, inHand>>
    /\ parked' \in [Frames -> {"none", "parked", "cancelled", "done"}]
    /\ \A f \in Frames : parked[f] = "done" => parked'[f] = "done"

Enters(s) ==
    /\ snd[s].at = "idle"
    /\ \E buf \in Seq(Answer) : send(s, buf)

\* A sender that enters send has nothing counted yet.
LEMMA EntersFacts ==
    ASSUME Types, NEW s \in Senders, Enters(s)
    PROVE  /\ snd' \in senderTable
           /\ \A w \in Senders : w # s => snd'[w] = snd[w]
           /\ snd'[s].at \in {"add", "idle"}
<1>1. PICK buf \in Seq(Answer) : send(s, buf)
  BY DEF Enters
<1>2. /\ snd' \in senderTable
      /\ \A w \in Senders : w # s => snd'[w] = snd[w]
      /\ ~closed => snd'[s].at = "add"
  BY <1>1, SendEnters DEF senderTable
<1>3. closed => snd'[s].at = "idle"
  BY <1>1 DEF send, sendReturns, Types
<1> QED  BY <1>2, <1>3

\* Frames and the reader are outside.
LEMMA ChainOutside ==
    ASSUME Types, ParkInv, NEW f \in Frames, FrameStep(f) \/ Complete(f)
    PROVE  Outside
<1>1. CASE \/ Inherit(f) \/ Create(f) \/ Operate(f) \/ Close(f) \/ Cancel(f)
           \/ SessionSetup(f) \/ SessionSetupReturns(f) \/ Fatal(f) \/ Garbled(f)
           \/ ChainEnds(f) \/ FlushGroup(f) \/ FrameEnds(f)
  <2>1. UNCHANGED <<queueVars, writerVars, parked>>
    BY <1>1 DEF chainUnchanged, Inherit, Create, Operate, Close, Cancel, SessionSetup,
       SessionSetupReturns, Fatal, Garbled, ChainEnds, FlushGroup, FrameEnds
  <2> QED  BY <2>1 DEF Outside, ParkInv, queueVars, writerVars
<1>2. CASE AbortFlag(f) \/ AbortDeadline(f)
  BY <1>2 DEF AbortFlag, AbortDeadline, Outside, ParkInv, queueVars, writerVars
<1>3. CASE Park(f)
  <2>1. UNCHANGED <<queueVars, writerVars>>
    BY <1>3 DEF Park, chainUnchanged
  <2>2. \/ parked' = parked
        \/ parked[f] = "none" /\ parked' = [parked EXCEPT ![f] = "parked"]
    BY <1>3 DEF Park
  <2> QED  BY <2>1, <2>2 DEF Outside, ParkInv, queueVars, writerVars
<1>4. CASE Complete(f)
  <2>1. UNCHANGED <<queueVars, writerVars>> /\ parked' = [parked EXCEPT ![f] = "done"]
    BY <1>4 DEF Complete, chainUnchanged
  <2> QED  BY <2>1 DEF Outside, ParkInv, queueVars, writerVars
<1> QED  BY <1>1, <1>2, <1>3, <1>4 DEF FrameStep

LEMMA ReaderOutside ==
    ASSUME Types, ParkInv,
           \/ ReaderStep \/ ReadFails \/ ServerStops
           \/ \E f \in Frames : \E m \in Inbound[f] : ReadFrame(f, m)
    PROVE  Outside /\ UNCHANGED <<snd, q>>
<1>1. /\ UNCHANGED <<snd, q, queued, writer, inHand>>
      /\ parked' = parked \/ CancelAllNotifies
  BY DEF ReaderStep, Arm, TestAborted, DrainForSerial, SerialEnds, Submit, Drain, SignalClose,
     WriterDone, DrainTimeout, ForceSocket, CloseSocket, CancelAllNotifies, ReadFails, ServerStops,
     ReadFrame, readUnchanged, queueVars, writerVars
<1>2. CASE parked' = parked
  BY <1>1, <1>2 DEF Outside, ParkInv
<1>3. CASE CancelAllNotifies
  BY <1>1, <1>3 DEF CancelAllNotifies, Outside, ParkInv
<1> QED  BY <1>1, <1>2, <1>3

\* What a frame's step does to the senders.
LEMMA FrameSends ==
    ASSUME Types, NEW f \in Frames, FrameStep(f)
    PROVE  /\ UNCHANGED q
           /\ UNCHANGED snd \/ Enters(frameOf(f))
<1>1. CASE Answered(f) \/ Moved(f)
  BY <1>1 DEF Answered, Moved
<1>2. CASE SentAlone(f)
  <2>1. PICK a \in Answer : send(frameOf(f), <<a>>)
    BY <1>2 DEF SentAlone
  <2>2. <<a>> \in Seq(Answer)
    BY <2>1
  <2>3. snd[frameOf(f)].at = "idle" /\ UNCHANGED q
    BY <1>2 DEF SentAlone, InChain, idle
  <2> QED  BY <2>1, <2>2, <2>3 DEF Enters
<1>3. CASE FlushGroup(f)
  BY <1>3, FlushFacts DEF Enters
<1> QED  BY <1>1, <1>2, <1>3, FrameKinds

\* A parked request answers once, so its sender is free.
LEMMA CompleteSends ==
    ASSUME Types, ParkInv, NEW f \in Frames, Complete(f)
    PROVE  /\ UNCHANGED q
           /\ Enters(<<f, "async">>)
           /\ parked'[f] = "done"
<1>1. UNCHANGED q /\ parked[f] # "done" /\ parked' = [parked EXCEPT ![f] = "done"]
  BY DEF Complete, chainUnchanged, queueVars
<1>2. PICK i \in DOMAIN fr[f].chain :
          send(<<f, "async">>, <<[f |-> f, i |-> i, kind |-> "async", sess |-> fr[f].chain[i].sess,
                     enc |-> fr[f].chain[i].sess \in got]>>)
  BY DEF Complete
<1> DEFINE a == [f |-> f, i |-> i, kind |-> "async", sess |-> fr[f].chain[i].sess,
                 enc |-> fr[f].chain[i].sess \in got]
<1>3. fr[f].chain \in Seq(Member)
  BY DEF Types, Frame
<1>4. fr[f].chain[i] \in Member /\ i \in Nat
  BY <1>2, <1>3
<1>5. a \in Answer
  BY <1>4 DEF Answer, Member
<1>6. send(<<f, "async">>, <<a>>)
  BY <1>2
<1> HIDE DEF a
<1>7. <<a>> \in Seq(Answer)
  BY <1>5
<1>8. parked'[f] = "done"
  BY <1>1 DEF ParkInv
<1> QED  BY <1>1, <1>6, <1>7, <1>8 DEF Enters, ParkInv

\* Entering send changes no sum.
LEMMA EntersKeeps ==
    ASSUME Types, QueueInv, Outside, UNCHANGED q, NEW s \in Senders, Enters(s)
    PROVE  QueueInv'
<1>1. /\ snd \in senderTable /\ snd' \in senderTable
      /\ \A w \in Senders : w # s => snd'[w] = snd[w]
      /\ snd[s].at = "idle" /\ snd'[s].at \in {"add", "idle"}
  BY EntersFacts DEF Types, senderTable, Enters
<1>2. ASSUME NEW steps, "add" \notin steps, "idle" \notin steps
      PROVE  carried(snd', steps) = carried(snd, steps)
  <2>1. heldBy(snd, steps, s) = 0 /\ heldBy(snd', steps, s) = 0
    BY <1>1, <1>2 DEF heldBy
  <2>2. carried(snd, steps) \in Nat /\ carried(snd', steps) \in Nat
    BY <1>1, CarriedNat
  <2>3. carried(snd', steps) + heldBy(snd, steps, s) = carried(snd, steps) + heldBy(snd', steps, s)
    BY <1>1, CarriedChanges
  <2> QED  BY <2>1, <2>2, <2>3
<1>3. /\ carried(snd', {"put", "refused"}) = carried(snd, {"put", "refused"})
      /\ carried(snd', {"put"}) = carried(snd, {"put"})
  BY <1>2
<1>4. hand' = hand /\ bytes(q)' = bytes(q) /\ queued' = queued
  BY DEF Outside, hand
<1> QED  BY <1>3, <1>4 DEF QueueInv

LEMMA StaysKeeps ==
    ASSUME QueueInv, UNCHANGED <<q, queued, snd, writer, inHand>>
    PROVE  QueueInv'
  BY DEF QueueInv, hand

\* The senders' own steps.
LEMMA SendQueues ==
    ASSUME Types, QueueInv, NEW s \in Senders, SendStep(s)
    PROVE  QueueInv'
<1> DEFINE both == {"put", "refused"}
           L == Len(snd[s].buf)
<1>0. UNCHANGED <<writer, inHand>>
  BY SendFrame
<1>1. /\ snd \in senderTable /\ L \in Nat /\ q \in Seq(Seq(Answer)) /\ snd[s].buf \in Seq(Answer)
      /\ WriteQueueBytes \in Nat
  <2>1. snd \in senderTable /\ snd[s].buf \in Seq(Answer) /\ q \in Seq(Seq(Answer))
    BY DEF Types, senderTable
  <2> QED  BY <2>1, TransportConstants
<1>2. /\ bytes(q) \in Nat /\ carried(snd, both) \in Nat /\ carried(snd, {"put"}) \in Nat
  BY <1>1, BytesNat, CarriedNat
<1>3. hand \in Nat /\ hand' = hand
  BY <1>0 DEF hand, Types
<1>4. /\ queued = bytes(q) + carried(snd, both) + hand
      /\ bytes(q) + carried(snd, {"put"}) <= WriteQueueBytes
  BY DEF QueueInv
<1>5. \A step \in SendSteps : sendStep(s, step) =>
         /\ snd' \in senderTable /\ \A w \in Senders : w # s => snd'[w] = snd[w]
         /\ snd'[s].at = step /\ snd'[s].buf = snd[s].buf
  BY SenderFields DEF senderTable
<1>6. \A err \in BOOLEAN : sendReturns(s, err) =>
         /\ snd' \in senderTable /\ \A w \in Senders : w # s => snd'[w] = snd[w]
         /\ snd'[s].at = "idle"
  BY SenderFields DEF senderTable
\* The sums after a step that moves s only, and keeps what it holds.
<1>7. ASSUME snd' \in senderTable, \A w \in Senders : w # s => snd'[w] = snd[w],
             snd'[s].at \in both => snd'[s].buf = snd[s].buf
      PROVE  /\ carried(snd', both) \in Nat /\ carried(snd', {"put"}) \in Nat
             /\ carried(snd', both) + (IF snd[s].at \in both THEN L ELSE 0)
                  = carried(snd, both) + (IF snd'[s].at \in both THEN L ELSE 0)
             /\ carried(snd', {"put"}) + (IF snd[s].at = "put" THEN L ELSE 0)
                  = carried(snd, {"put"}) + (IF snd'[s].at = "put" THEN L ELSE 0)
             /\ carried(snd', {"put"}) <= carried(snd', both)
  <2>1. /\ heldBy(snd, both, s) = (IF snd[s].at \in both THEN L ELSE 0)
        /\ heldBy(snd', both, s) = (IF snd'[s].at \in both THEN L ELSE 0)
        /\ heldBy(snd, {"put"}, s) = (IF snd[s].at = "put" THEN L ELSE 0)
        /\ heldBy(snd', {"put"}, s) = (IF snd'[s].at = "put" THEN L ELSE 0)
    BY <1>7 DEF heldBy
  <2>2. /\ carried(snd', both) + heldBy(snd, both, s) = carried(snd, both) + heldBy(snd', both, s)
        /\ carried(snd', {"put"}) + heldBy(snd, {"put"}, s)
             = carried(snd, {"put"}) + heldBy(snd', {"put"}, s)
    BY <1>1, <1>7, CarriedChanges
  <2>3. carried(snd', both) \in Nat /\ carried(snd', {"put"}) \in Nat
    BY <1>7, CarriedNat
  <2>4. carried(snd', {"put"}) <= carried(snd', both)
    BY <1>7, CarriedMore
  <2> QED  BY <2>1, <2>2, <2>3, <2>4
<1> HIDE DEF L
<1>8. CASE SendAdd(s)
  <2>1. snd[s].at = "add" /\ queued' = queued + L /\ q' = q
    BY <1>8 DEF SendAdd, L
  <2>2. PICK step \in {"put", "refused"} :
           sendStep(s, step) /\ (step = "put" => ~(queued' > WriteQueueBytes))
    BY <1>8 DEF SendAdd
  <2>3. /\ snd' \in senderTable /\ \A w \in Senders : w # s => snd'[w] = snd[w]
        /\ snd'[s].at = step /\ snd'[s].buf = snd[s].buf
    BY <1>5, <2>2 DEF SendSteps
  <2>4. /\ carried(snd', both) \in Nat /\ carried(snd', {"put"}) \in Nat
        /\ carried(snd', both) = carried(snd, both) + L
        /\ carried(snd', {"put"}) = carried(snd, {"put"}) + (IF step = "put" THEN L ELSE 0)
        /\ carried(snd', {"put"}) <= carried(snd', both)
    BY <1>2, <1>7, <2>1, <2>3
  <2>5. queued' = bytes(q) + carried(snd', both) + hand
    <3>1. PICK c \in Nat : c = carried(snd, both)
      BY <1>2
    <3>2. queued = bytes(q) + c + hand
      BY ONLY <3>1, <1>4
    <3>3. queued + L = bytes(q) + (c + L) + hand
      BY ONLY <3>2, c \in Nat, <1>1, <1>2, <1>3
    <3> QED  BY ONLY <3>1, <3>3, <2>1, <2>4
  <2>6. bytes(q) + carried(snd', {"put"}) <= WriteQueueBytes
    <3>1. CASE step = "put"
      <4>1. PICK c \in Nat, d \in Nat : c = carried(snd', both) /\ d = carried(snd', {"put"})
        BY <2>4
      <4>2. ~(queued' > WriteQueueBytes)
        BY <2>2, <3>1
      <4>3. ~(bytes(q) + c + hand > WriteQueueBytes)
        BY ONLY <4>1, <4>2, <2>5
      <4>4. d <= c
        BY ONLY <4>1, <2>4
      <4>5. bytes(q) + d <= WriteQueueBytes
        BY ONLY <4>3, <4>4, c \in Nat, d \in Nat, <1>1, <1>2, <1>3
      <4> QED  BY ONLY <4>1, <4>5
    <3>2. CASE step # "put"
      BY ONLY <2>4, <3>2, <1>1, <1>2, <1>4
    <3> QED  BY <3>1, <3>2
  <2> QED  BY <2>1, <2>5, <2>6, <1>3 DEF QueueInv
<1>9. CASE SendPut(s)
  <2>0. snd[s].at = "put"
    BY <1>9 DEF SendPut
  <2>1. CASE q' = Append(q, snd[s].buf) /\ sendReturns(s, FALSE) /\ queued' = queued
    <3>1. bytes(q)' = bytes(q) + L
      BY <2>1, <1>1, BytesAppend DEF L
    <3>2. snd'[s].at = "idle" /\ snd' \in senderTable /\ \A w \in Senders : w # s => snd'[w] = snd[w]
      BY <1>6, <2>1
    <3>3. /\ carried(snd', both) + L = carried(snd, both)
          /\ carried(snd', {"put"}) + L = carried(snd, {"put"})
          /\ carried(snd', both) \in Nat /\ carried(snd', {"put"}) \in Nat
      BY <1>2, <1>7, <2>0, <3>2
    <3>4. queued' = bytes(q)' + carried(snd', both) + hand'
      BY ONLY <3>1, <3>3, <2>1, <1>1, <1>2, <1>3, <1>4
    <3>5. bytes(q)' + carried(snd', {"put"}) <= WriteQueueBytes
      BY ONLY <3>1, <3>3, <1>1, <1>2, <1>4
    <3> QED  BY <3>4, <3>5 DEF QueueInv
  <2>2. CASE queued' = queued - L /\ sendReturns(s, TRUE) /\ q' = q
    <3>2. snd'[s].at = "idle" /\ snd' \in senderTable /\ \A w \in Senders : w # s => snd'[w] = snd[w]
      BY <1>6, <2>2
    <3>3. /\ carried(snd', both) + L = carried(snd, both)
          /\ carried(snd', {"put"}) + L = carried(snd, {"put"})
          /\ carried(snd', both) \in Nat /\ carried(snd', {"put"}) \in Nat
      BY <1>2, <1>7, <2>0, <3>2
    <3>4. queued' = bytes(q) + carried(snd', both) + hand'
      <4>1. PICK c \in Nat : c = carried(snd', both)
        BY <3>3
      <4>2. queued = bytes(q) + (c + L) + hand
        BY ONLY <4>1, <3>3, <1>4
      <4>3. queued - L = bytes(q) + c + hand
        BY ONLY <4>2, c \in Nat, <1>1, <1>2, <1>3
      <4> QED  BY ONLY <4>1, <4>3, <2>2, <1>3
    <3>5. bytes(q) + carried(snd', {"put"}) <= WriteQueueBytes
      <4>1. PICK c \in Nat : c = carried(snd', {"put"})
        BY <3>3
      <4>2. bytes(q) + (c + L) <= WriteQueueBytes
        BY ONLY <4>1, <3>3, <1>4
      <4>3. bytes(q) + c <= WriteQueueBytes
        BY ONLY <4>2, c \in Nat, <1>1, <1>2
      <4> QED  BY ONLY <4>1, <4>3
    <3> QED  BY <2>2, <3>4, <3>5 DEF QueueInv
  <2>3. CASE sendStep(s, "refused") /\ UNCHANGED <<q, queued>>
    <3>2. /\ snd'[s].at = "refused" /\ snd'[s].buf = snd[s].buf
          /\ snd' \in senderTable /\ \A w \in Senders : w # s => snd'[w] = snd[w]
      BY <1>5, <2>3 DEF SendSteps
    <3>3. /\ carried(snd', both) = carried(snd, both)
          /\ carried(snd', {"put"}) + L = carried(snd, {"put"})
          /\ carried(snd', both) \in Nat /\ carried(snd', {"put"}) \in Nat
      BY <1>1, <1>2, <1>7, <2>0, <3>2
    <3>5. bytes(q) + carried(snd', {"put"}) <= WriteQueueBytes
      <4>1. PICK c \in Nat : c = carried(snd', {"put"})
        BY <3>3
      <4>2. bytes(q) + (c + L) <= WriteQueueBytes
        BY ONLY <4>1, <3>3, <1>4
      <4>3. bytes(q) + c <= WriteQueueBytes
        BY ONLY <4>2, c \in Nat, <1>1, <1>2
      <4> QED  BY ONLY <4>1, <4>3
    <3> QED  BY <2>3, <3>3, <3>5, <1>3, <1>4 DEF QueueInv
  <2> QED  BY <1>9, <2>1, <2>2, <2>3 DEF SendPut, L
<1>10. CASE SendRefused(s)
  <2>1. snd[s].at = "refused" /\ queued' = queued - L /\ q' = q
    BY <1>10 DEF SendRefused, L
  <2>2. /\ snd'[s].at = "discard" /\ snd'[s].buf = snd[s].buf
        /\ snd' \in senderTable /\ \A w \in Senders : w # s => snd'[w] = snd[w]
    BY <1>5, <1>10 DEF SendSteps, SendRefused
  <2>3. /\ carried(snd', both) + L = carried(snd, both)
        /\ carried(snd', {"put"}) = carried(snd, {"put"})
        /\ carried(snd', both) \in Nat /\ carried(snd', {"put"}) \in Nat
    BY <1>2, <1>7, <2>1, <2>2
  <2>4. queued' = bytes(q) + carried(snd', both) + hand'
    <3>1. PICK c \in Nat : c = carried(snd', both)
      BY <2>3
    <3>2. queued = bytes(q) + (c + L) + hand
      BY ONLY <3>1, <2>3, <1>4
    <3>3. queued - L = bytes(q) + c + hand
      BY ONLY <3>2, c \in Nat, <1>1, <1>2, <1>3
    <3> QED  BY ONLY <3>1, <3>3, <2>1, <1>3
  <2> QED  BY <2>1, <2>3, <2>4, <1>4 DEF QueueInv
<1>11. CASE StallDiscard(s) \/ StallClose(s)
  <2>1. snd[s].at \in {"discard", "close"} /\ queued' = queued /\ q' = q
    BY <1>11 DEF StallDiscard, StallClose
  <2>2. /\ snd'[s].at \in {"close", "idle"}
        /\ snd' \in senderTable /\ \A w \in Senders : w # s => snd'[w] = snd[w]
    BY <1>5, <1>6, <1>11 DEF SendSteps, StallDiscard, StallClose
  <2>3. /\ carried(snd', both) = carried(snd, both)
        /\ carried(snd', {"put"}) = carried(snd, {"put"})
    BY <1>2, <1>7, <2>1, <2>2
  <2> QED  BY <2>1, <2>3, <1>3, <1>4 DEF QueueInv
<1> QED  BY <1>8, <1>9, <1>10, <1>11 DEF SendStep

\* The writer's.
LEMMA WriterQueues ==
    ASSUME Types, ShutInv, QueueInv, WriterStep
    PROVE  QueueInv'
<1> DEFINE sum == carried(snd, {"put", "refused"})
<1>0. /\ UNCHANGED snd
      /\ snd \in senderTable /\ q \in Seq(Seq(Answer)) /\ inHand \in Seq(Answer)
      /\ WriteQueueBytes \in Nat
  BY TransportConstants DEF Types, senderTable, WriterStep, WriterTakes, WriterSeesClosed, WriterCounts,
     WriteSucceeds, WriteFails, WriterDiscards, WriterSignals, Flush, keepsRest
<1>1. bytes(q) \in Nat /\ sum \in Nat /\ carried(snd, {"put"}) \in Nat /\ Len(inHand) \in Nat
  BY <1>0, BytesNat, CarriedNat
<1>2. /\ queued = bytes(q) + sum + hand
      /\ bytes(q) + carried(snd, {"put"}) <= WriteQueueBytes
  BY DEF QueueInv
<1>3. CASE /\ writer \in {"select", "flush"} /\ q # <<>> /\ inHand' = Head(q) /\ q' = Tail(q)
           /\ writer' = "count" /\ queued' = queued
  <2>1. bytes(q) = Len(Head(q)) + bytes(Tail(q))
    BY <1>0, <1>3, BytesTail
  <2>2. bytes(Tail(q)) \in Nat /\ Len(Head(q)) \in Nat
    <3>1. PICK S : S = Seq(Answer)
      OBVIOUS
    <3>2. q \in Seq(S) /\ q # <<>>
      BY <1>0, <1>3, <3>1
    <3>3. Head(q) \in S /\ Tail(q) \in Seq(S)
      BY ONLY <3>2
    <3>4. Head(q) \in Seq(Answer) /\ Tail(q) \in Seq(Seq(Answer))
      BY ONLY <3>1, <3>3
    <3>5. Len(Head(q)) \in Nat
      BY ONLY <3>4
    <3> QED  BY ONLY <3>4, <3>5, BytesNat
  <2>3. hand = 0 /\ hand' = Len(Head(q)) /\ bytes(q)' = bytes(Tail(q))
    BY <1>3 DEF hand
  <2>4. queued' = bytes(q)' + sum + hand'
    BY ONLY <2>1, <2>2, <2>3, <1>1, <1>2, <1>3
  <2>5. bytes(q)' + carried(snd, {"put"}) <= WriteQueueBytes
    <3>1. bytes(Tail(q)) <= bytes(q)
      BY ONLY <2>1, <2>2
    <3> QED  BY ONLY <3>1, <2>2, <2>3, <1>0, <1>1, <1>2
  <2> QED  BY <1>0, <2>4, <2>5 DEF QueueInv
<1>4. CASE WriterCounts
  <2>1. hand = Len(inHand) /\ hand' = 0 /\ queued' = queued - Len(inHand) /\ q' = q
    BY <1>4 DEF WriterCounts, hand
  <2>2. queued' = bytes(q) + sum + hand'
    BY ONLY <2>1, <1>1, <1>2
  <2> QED  BY <1>0, <1>2, <2>1, <2>2 DEF QueueInv
<1>5. CASE writer # "count" /\ writer' # "count" /\ UNCHANGED <<q, queued>>
  BY <1>0, <1>2, <1>5 DEF QueueInv, hand
<1>6. WriterTakes \/ Flush => \/ /\ writer \in {"select", "flush"} /\ q # <<>>
                                 /\ inHand' = Head(q) /\ q' = Tail(q)
                                 /\ writer' = "count" /\ queued' = queued
                              \/ writer # "count" /\ writer' # "count" /\ UNCHANGED <<q, queued>>
  BY DEF WriterTakes, Flush
<1>7. WriterSeesClosed \/ WriteSucceeds \/ WriteFails \/ WriterDiscards \/ WriterSignals =>
         writer # "count" /\ writer' # "count" /\ UNCHANGED <<q, queued>>
  BY DEF WriterSeesClosed, WriteSucceeds, WriteFails, WriterDiscards, WriterSignals, queueVars
<1> QED  BY <1>3, <1>4, <1>5, <1>6, <1>7 DEF WriterStep

LEMMA QueueStep ==
    ASSUME Types, ShutInv, ParkInv, QueueInv, Next
    PROVE  QueueInv' /\ ParkInv'
<1>1. CASE \/ ReaderStep \/ ReadFails \/ ServerStops
           \/ \E f \in Frames : \E m \in Inbound[f] : ReadFrame(f, m)
  <2>1. Outside /\ UNCHANGED <<snd, q>>
    BY <1>1, ReaderOutside
  <2>2. QueueInv'
    BY <2>1, StaysKeeps DEF Outside
  <2>3. ParkInv'
    BY <2>1 DEF Outside, ParkInv
  <2> QED  BY <2>2, <2>3
<1>2. ASSUME NEW f \in Frames, FrameStep(f)
      PROVE  QueueInv' /\ ParkInv'
  <2>1. Outside /\ UNCHANGED q /\ (UNCHANGED snd \/ Enters(frameOf(f)))
    BY <1>2, ChainOutside, FrameSends
  <2>2. QueueInv'
    BY <2>1, EntersKeeps, StaysKeeps, FrameSender DEF Outside
  <2>3. \A g \in Frames : snd'[<<g, "async">>] = snd[<<g, "async">>]
    <3>1. CASE Enters(frameOf(f))
      <4>1. \A w \in Senders : w # frameOf(f) => snd'[w] = snd[w]
        BY <3>1, EntersFacts, FrameSender
      <4> QED  BY <4>1 DEF frameOf, Senders
    <3> QED  BY <2>1, <3>1
  <2> QED  BY <2>1, <2>2, <2>3 DEF Outside, ParkInv
<1>3. ASSUME NEW f \in Frames, Complete(f)
      PROVE  QueueInv' /\ ParkInv'
  <2> DEFINE s == <<f, "async">>
  <2>0. s \in Senders
    BY DEF Senders
  <2>1. Outside /\ UNCHANGED q /\ Enters(s) /\ parked'[f] = "done"
    BY <1>3, ChainOutside, CompleteSends
  <2>2. QueueInv'
    BY <2>0, <2>1, EntersKeeps
  <2>3. \A w \in Senders : w # s => snd'[w] = snd[w]
    BY <2>0, <2>1, EntersFacts
  <2>4. \A g \in Frames : g # f => snd'[<<g, "async">>] = snd[<<g, "async">>]
    BY <2>3 DEF Senders
  <2> QED  BY <2>1, <2>2, <2>4 DEF Outside, ParkInv
<1>4. CASE WriterStep
  <2>1. UNCHANGED <<snd, parked>>
    BY <1>4 DEF WriterStep, WriterTakes, WriterSeesClosed, WriterCounts,
       WriteSucceeds, WriteFails, WriterDiscards, WriterSignals, Flush, keepsRest
  <2> QED  BY <1>4, <2>1, WriterQueues DEF ParkInv
<1>5. ASSUME NEW s \in Senders, SendStep(s)
      PROVE  QueueInv' /\ ParkInv'
  <2>1. UNCHANGED parked /\ snd[s].at # "idle"
    BY <1>5 DEF SendStep, SendAdd, SendPut, SendRefused, StallDiscard, StallClose
  <2>2. \A w \in Senders : w # s => snd'[w] = snd[w]
    <3>1. \E step \in SendSteps, err \in BOOLEAN : sendStep(s, step) \/ sendReturns(s, err)
      BY <1>5 DEF SendStep, SendAdd, SendPut, SendRefused, StallDiscard, StallClose, SendSteps
    <3> QED  BY <3>1, SenderFields
  <2>3. \A g \in Frames : <<g, "async">> \in Senders
    BY DEF Senders
  <2>4. ParkInv'
    BY <2>1, <2>2, <2>3 DEF ParkInv
  <2> QED  BY <1>5, <2>4, SendQueues
<1> QED  BY <1>1, <1>2, <1>3, <1>4, <1>5 DEF Next

QueueingInv == DeliveryInv /\ ParkInv /\ QueueInv

LEMMA QueueingInit ==
    ASSUME Init
    PROVE  QueueingInv
<1>0. DeliveryInv
  BY DeliveryInit
<1>1. ParkInv
  BY DEF Init, ParkInv, Senders
<1>2. /\ bytes(q) = 0 /\ hand = 0 /\ queued = 0
  <2>1. <<>> \in Seq(Seq(Answer)) /\ Len(<<>>) = 0
    OBVIOUS
  <2>2. bytes(<<>>) = 0
    BY <2>1, BytesNat, TotalNat
  <2> QED  BY <2>2 DEF Init, hand
<1>3. ASSUME NEW steps, "idle" \notin steps  PROVE carried(snd, steps) = 0
  <2>1. snd \in senderTable
    BY <1>0 DEF DeliveryInv, Types, senderTable
  <2>2. /\ FrameCount \in Nat /\ Weights(loads(snd, steps), FrameCount)
        /\ \A f \in Frames : loads(snd, steps)[f] =
              heldBy(snd, steps, <<f, "frame">>) + heldBy(snd, steps, <<f, "async">>)
    BY <2>1, CarriedNat
  <2>3. \A s \in Senders : heldBy(snd, steps, s) = 0
    BY <1>3 DEF Init, heldBy
  <2>4. ASSUME NEW f \in 1..FrameCount  PROVE loads(snd, steps)[f] = 0
    <3>1. f \in Frames /\ <<f, "frame">> \in Senders /\ <<f, "async">> \in Senders
      BY DEF Senders, Frames
    <3>2. heldBy(snd, steps, <<f, "frame">>) = 0 /\ heldBy(snd, steps, <<f, "async">>) = 0
      BY <2>3, <3>1
    <3> QED  BY <2>2, <3>1, <3>2
  <2> QED  BY <2>2, <2>4, TotalZero DEF carried
<1>4. carried(snd, {"put", "refused"}) = 0 /\ carried(snd, {"put"}) = 0
  BY <1>3
<1>5. WriteQueueBytes \in Nat
  BY TransportConstants
<1> QED  BY <1>0, <1>1, <1>2, <1>4, <1>5 DEF QueueInv, QueueingInv

LEMMA QueueingStep ==
    ASSUME QueueingInv, [Next]_vars
    PROVE  QueueingInv'
<1>0. DeliveryInv'
  BY DeliveryStep DEF QueueingInv
<1>1. CASE UNCHANGED vars
  BY <1>0, <1>1 DEF QueueingInv, ParkInv, QueueInv, hand, vars, queueVars, writerVars
<1>2. CASE Next
  BY <1>0, <1>2, QueueStep DEF QueueingInv, DeliveryInv
<1> QED  BY <1>1, <1>2

\* For every peer, pool and queue: connWriter.queued is exact, and the backlog
\* stays within the budget of bytes.
THEOREM BacklogStaysBounded == Spec => []BacklogBounded
<1>1. Init => QueueingInv
  BY QueueingInit
<1>2. QueueingInv /\ [Next]_vars => QueueingInv'
  BY QueueingStep
<1>3. QueueingInv => BacklogBounded
  <2> SUFFICES ASSUME QueueingInv  PROVE BacklogBounded
    OBVIOUS
  <2>1. sending({"put", "refused"}) = carried(snd, {"put", "refused"})
    BY DEF sending, carried, loads, heldBy
  <2>2. snd \in senderTable /\ q \in Seq(Seq(Answer)) /\ WriteQueueBytes \in Nat
    BY TransportConstants DEF QueueingInv, DeliveryInv, Types, senderTable
  <2>3. carried(snd, {"put"}) \in Nat /\ bytes(q) \in Nat
    BY <2>2, CarriedNat, BytesNat
  <2>4. bytes(q) <= WriteQueueBytes
    BY <2>2, <2>3 DEF QueueingInv, QueueInv
  <2> QED  BY <2>1, <2>4 DEF QueueingInv, QueueInv, BacklogBounded, hand
<1> QED  BY <1>1, <1>2, <1>3, PTL DEF Spec

\* What Types leaves out of TypeOK, but for the counter.
RestTyped ==
    /\ deadline \in {"far", "now"} /\ aborted \in BOOLEAN
    /\ closed \in BOOLEAN /\ discard \in BOOLEAN
    /\ writer \in {"select", "count", "write", "discard", "close", "flush", "exited"}
    /\ flushing \in BOOLEAN
    /\ sock \in {"open", "closed"}
    /\ Len(q) <= WriteQueueDepth

LEMMA RestStep ==
    ASSUME Types, RestTyped, Next
    PROVE  RestTyped'
<1>1. ASSUME NEW f \in Frames, FrameStep(f) \/ Complete(f)
      PROVE  RestTyped'
  <2>1. CASE AbortFlag(f) \/ AbortDeadline(f)
    BY <2>1 DEF AbortFlag, AbortDeadline, RestTyped, readVars, queueVars, writerVars
  <2>2. CASE ~(AbortFlag(f) \/ AbortDeadline(f))
    <3>1. chainUnchanged
      BY <1>1, <2>2 DEF FrameStep, Inherit, Create, Operate, Close, Park, Cancel, SessionSetup,
         SessionSetupReturns, Fatal, Garbled, ChainEnds, FlushGroup, FrameEnds, Complete
    <3> QED  BY <3>1 DEF chainUnchanged, RestTyped, readVars, queueVars, writerVars
  <2> QED  BY <2>1, <2>2
<1>2. CASE \/ ReaderStep \/ ReadFails \/ ServerStops
           \/ \E f \in Frames : \E m \in Inbound[f] : ReadFrame(f, m)
  <2>1. /\ UNCHANGED <<aborted, q, writer, flushing>>
        /\ deadline' = deadline \/ deadline' = "far"
        /\ closed' = closed \/ closed' = TRUE
        /\ discard' = discard \/ discard' = TRUE
        /\ sock' = sock \/ sock' = "closed"
    BY <1>2 DEF ReaderStep, Arm, TestAborted, DrainForSerial, SerialEnds, Submit, Drain, SignalClose,
       WriterDone, DrainTimeout, ForceSocket, CloseSocket, CancelAllNotifies, ReadFails, ServerStops,
       ReadFrame, readUnchanged, readVars, queueVars, writerVars
  <2> QED  BY <2>1 DEF RestTyped
<1>3. CASE WriterStep
  <2>1. /\ UNCHANGED <<deadline, aborted>>
        /\ closed' = closed \/ closed' = TRUE
        /\ discard' = discard \/ discard' = TRUE
        /\ sock' = sock \/ sock' = "closed"
        /\ flushing' = flushing \/ flushing' = TRUE
        /\ writer' \in {"select", "count", "write", "discard", "close", "flush", "exited"}
        /\ q' = q \/ (q # <<>> /\ q' = Tail(q))
    BY <1>3 DEF WriterStep, WriterTakes, WriterSeesClosed, WriterCounts, WriteSucceeds, WriteFails,
       WriterDiscards, WriterSignals, Flush, keepsRest, readVars, queueVars
  <2>2. Len(q') <= WriteQueueDepth
    <3>1. CASE q # <<>> /\ q' = Tail(q)
      <4>1. Len(Tail(q)) = Len(q) - 1 /\ Len(q) \in Nat
        BY <3>1 DEF Types
      <4> QED  BY <3>1, <4>1, TransportConstants DEF RestTyped
    <3> QED  BY <2>1, <3>1 DEF RestTyped
  <2> QED  BY <2>1, <2>2 DEF RestTyped
<1>4. ASSUME NEW s \in Senders, SendStep(s)
      PROVE  RestTyped'
  <2>1. /\ UNCHANGED <<deadline, aborted, writer, flushing>>
        /\ closed' = closed \/ closed' = TRUE
        /\ discard' = discard \/ discard' = TRUE
        /\ sock' = sock \/ sock' = "closed"
        /\ q' = q \/ (Len(q) < WriteQueueDepth /\ q' = Append(q, snd[s].buf))
    BY <1>4 DEF SendStep, SendAdd, SendPut, SendRefused, StallDiscard, StallClose, readVars, writerVars
  <2>2. Len(q') <= WriteQueueDepth
    <3>1. CASE Len(q) < WriteQueueDepth /\ q' = Append(q, snd[s].buf)
      <4>1. Len(q') = Len(q) + 1 /\ Len(q) \in Nat
        BY <3>1 DEF Types
      <4> QED  BY <3>1, <4>1, TransportConstants
    <3> QED  BY <2>1, <3>1 DEF RestTyped
  <2> QED  BY <2>1, <2>2 DEF RestTyped
<1> QED  BY <1>1, <1>2, <1>3, <1>4 DEF Next

\* For every peer, pool and queue: every variable keeps its type, the counter of
\* bytes never goes below zero, and the queue stays within its depth.
THEOREM TypeCorrect == Spec => []TypeOK
<1> DEFINE I == QueueingInv /\ RestTyped
<1>1. Init => I
  <2> SUFFICES ASSUME Init  PROVE RestTyped
    BY QueueingInit
  <2>1. Len(<<>>) = 0 /\ 0 <= WriteQueueDepth
    BY TransportConstants
  <2> QED  BY <2>1 DEF Init, RestTyped
<1>2. I /\ [Next]_vars => I'
  <2> SUFFICES ASSUME I, [Next]_vars  PROVE RestTyped'
    BY QueueingStep
  <2>1. CASE UNCHANGED vars
    BY <2>1 DEF RestTyped, vars, readVars, queueVars, writerVars
  <2>2. CASE Next
    BY <2>2, RestStep DEF QueueingInv, DeliveryInv
  <2> QED  BY <2>1, <2>2
<1>3. I => TypeOK
  <2> SUFFICES ASSUME I  PROVE TypeOK
    OBVIOUS
  <2>1. snd \in senderTable /\ q \in Seq(Seq(Answer)) /\ Types
    BY DEF QueueingInv, DeliveryInv, Types, senderTable
  <2>2. /\ carried(snd, {"put", "refused"}) \in Nat /\ bytes(q) \in Nat /\ hand \in Nat
    BY <2>1, CarriedNat, BytesNat DEF hand, Types
  <2>3. queued \in Nat
    BY <2>2 DEF QueueingInv, QueueInv
  <2> QED  BY <2>1, <2>3 DEF TypeOK, Types, RestTyped, QueueingInv, ParkInv
<1> QED  BY <1>1, <1>2, <1>3, PTL DEF Spec
=============================================================================
