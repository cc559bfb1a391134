------------------------- MODULE SessionSetupProofs -------------------------
(***************************************************************************)
(* Keys, policy and privileges of one connection, for every set of         *)
(* sessions, users and offers, every number of frames on the pool and      *)
(* every limit on half-open sessions.                                      *)
(***************************************************************************)
EXTENDS SessionSetup, TLAPS

\* Before NEGOTIATE has been answered.
Negotiating == conn \in {"negotiate", "upgraded"}

\* The records have their fields, whatever they hold.
Shapes ==
    /\ DOMAIN sess = Sessions /\ DOMAIN job = Workers /\ DOMAIN told = Sessions
    /\ \A s \in Sessions : {"authenticated", "user", "keys", "chain"} \subseteq DOMAIN sess[s]
    /\ \A w \in Workers : {"at", "sess", "cmd", "prot", "asTold"} \subseteq DOMAIN job[w]
    /\ halfOpen \subseteq Sessions

\* No frame is on the pool outside the serving loop and the wait for it to drain.
FramesWithinLoop ==
    /\ conn \in {"negotiate", "upgraded", "hook", "closed"} => drained
    /\ \A w \in Workers : job[w].at # "free" =>
          job[w].sess \in Sessions /\ job[w].prot \in Protections

\* There is no session before NEGOTIATE, and after it the policy can be met and
\* the chain holds the NEGOTIATE exchange only.
Negotiated ==
    /\ Negotiating => \A s \in Sessions : sess[s] = NewSession /\ told[s] = None
    /\ Negotiating => halfOpen = {}
    /\ conn \in {"serving", "hook", "ending"} =>
          /\ preauth = IF sel.dialect = "3.1.1" THEN negotiated ELSE <<>>
          /\ cfg.encryption => sel.cipher # None

\* The chain of a half-open session is the connection's and its own first
\* exchange.
HalfOpenChains ==
    \A s \in halfOpen :
        /\ ~sess[s].authenticated
        /\ sess[s].chain = preauth \o <<<<"type 1", s>>, <<"challenge", s>>>>

\* An authenticated session has the client's keys, or none if it is the guest's.
SessionKeys ==
    \A s \in Sessions : sess[s].authenticated =>
        /\ sess[s].user \in Users \cup {Guest}
        /\ sess[s].keys = IF sess[s].user = Guest THEN None ELSE ClientKeys(s)

\* What the client was told is what the server keeps of the session.
ToldOfSession ==
    \A s \in Sessions : told[s] # None =>
        sess[s].authenticated /\ told[s] = sessFlags(sess[s].user)

\* A message protected as told meets the policy of its session, which does not
\* change while the message is on the pool.
FramesConform ==
    \A w \in Workers :
        job[w].at # "free" /\ job[w].asTold /\ Policed(job[w].sess) =>
            /\ job[w].prot # "encrypted" => ~cfg.encryption \/ Exempt(job[w].cmd)
            /\ job[w].prot = "plain" => ~cfg.signing

KeyInv ==
    /\ Shapes /\ FramesWithinLoop /\ Negotiated /\ HalfOpenChains /\ SessionKeys
    /\ ToldOfSession /\ FramesConform /\ refused = {}

-----------------------------------------------------------------------------
(* The chain and the keys.                                                 *)

\* The chain that forks in handleType1, with the TYPE 3 appended, is the one the
\* client hashes.
LEMMA ChainOfHandshake ==
    ASSUME NEW s
    PROVE  Append(negotiated \o <<<<"type 1", s>>, <<"challenge", s>>>>, <<"type 3", s>>)
             = negotiated \o <<<<"type 1", s>>, <<"challenge", s>>, <<"type 3", s>>>>
<1>1. PICK a, b, c, d, e :
         /\ a = <<"negotiate request", None>> /\ b = <<"negotiate response", None>>
         /\ c = <<"type 1", s>> /\ d = <<"challenge", s>> /\ e = <<"type 3", s>>
  OBVIOUS
<1>2. Append(<<a, b>> \o <<c, d>>, e) = <<a, b>> \o <<c, d, e>>
  OBVIOUS
<1>3. Append(negotiated \o <<c, d>>, e) = negotiated \o <<c, d, e>>
  <2>1. negotiated = <<a, b>>
    BY <1>1 DEF negotiated
  <2> QED BY <1>2, <2>1
<1>4. /\ <<c, d>> = <<<<"type 1", s>>, <<"challenge", s>>>>
      /\ <<c, d, e>> = <<<<"type 1", s>>, <<"challenge", s>>, <<"type 3", s>>>>
  BY <1>1
<1> QED BY <1>1, <1>3, <1>4

\* What handleType3 derives is what the client derives.
LEMMA DerivedKeys ==
    ASSUME NEW s, NEW u, sess'[s].user = u, sel' = sel,
           sess[s].chain = preauth \o <<<<"type 1", s>>, <<"challenge", s>>>>,
           preauth = IF sel.dialect = "3.1.1" THEN negotiated ELSE <<>>,
           NEW chain,
           chain = IF sel.dialect = "3.1.1"
                   THEN Append(sess[s].chain, <<"type 3", s>>) ELSE sess[s].chain
    PROVE  deriveKeys(sel, u, chain) = ClientKeys(s)'
<1>1. CASE sel.dialect = "3.1.1"
  <2>1. chain = negotiated \o <<<<"type 1", s>>, <<"challenge", s>>, <<"type 3", s>>>>
    BY <1>1, ChainOfHandshake
  <2> QED BY <1>1, <2>1 DEF deriveKeys, ClientKeys, keyBits
<1>2. CASE sel.dialect # "3.1.1"
  BY <1>2 DEF deriveKeys, ClientKeys
<1> QED BY <1>1, <1>2

-----------------------------------------------------------------------------
LEMMA InitKeyInv == Init => KeyInv
  BY SetupConstants DEF Init, KeyInv, Shapes, FramesWithinLoop, Negotiated, HalfOpenChains,
     SessionKeys, ToldOfSession, FramesConform, Negotiating, NewSession, FreeJob, drained

\* A step that leaves the sessions and what clients know of them alone, and
\* only frees frames, or takes the connection on within the loop or out of it.
LEMMA QuietKeeps ==
    ASSUME KeyInv, UNCHANGED <<cfg, sel, preauth, sess, told>>,
           halfOpen' \subseteq halfOpen, refused' = {},
           DOMAIN job' = Workers,
           \A w \in Workers : job'[w] = job[w] \/ job'[w] = FreeJob,
           \/ conn' = conn
           \/ /\ conn \in {"serving", "hook", "ending"} /\ ~Negotiating'
              /\ conn' \in {"hook", "closed"} => drained'
    PROVE  KeyInv'
<1> USE DEF KeyInv
<1>1. Shapes'
  BY DEF Shapes, FreeJob
<1>2. FramesWithinLoop'
  BY DEF FramesWithinLoop, FreeJob, drained, Negotiating
<1>3. Negotiated'
  BY DEF Negotiated, Negotiating
<1>4. HalfOpenChains' /\ SessionKeys' /\ ToldOfSession'
  BY ZenonT(40) DEF HalfOpenChains, SessionKeys, ToldOfSession, ClientKeys, sessFlags
<1>5. FramesConform'
  BY DEF FramesConform, FreeJob, Policed, Exempt
<1> QED BY <1>1, <1>2, <1>3, <1>4, <1>5

LEMMA Type1Keeps ==
    ASSUME KeyInv, NEW s \in Sessions, Type1(s)
    PROVE  KeyInv'
<1> USE DEF KeyInv
<1> DEFINE new == [NewSession EXCEPT !.chain =
                      preauth \o <<<<"type 1", s>>, <<"challenge", s>>>>]
<1>1. /\ sess' = [sess EXCEPT ![s] = new] /\ sess[s] = NewSession
      /\ conn = "serving" /\ drained /\ halfOpen' = halfOpen \cup {s}
      /\ UNCHANGED <<cfg, conn, sel, preauth, told, job, refused>>
  BY DEF Type1, ReadsSetup
<1>2. /\ new.authenticated = FALSE
      /\ new.chain = preauth \o <<<<"type 1", s>>, <<"challenge", s>>>>
      /\ {"authenticated", "user", "keys", "chain"} \subseteq DOMAIN new
  BY DEF NewSession
<1> HIDE DEF new
<1>3. /\ sess'[s] = new /\ DOMAIN sess' = Sessions
      /\ \A t \in Sessions \ {s} : sess'[t] = sess[t]
      /\ sess[s].authenticated = FALSE
  BY <1>1 DEF Shapes, NewSession
<1>4. Shapes' /\ FramesWithinLoop' /\ Negotiated'
  BY <1>1, <1>2, <1>3 DEF Shapes, FramesWithinLoop, Negotiated, Negotiating, drained
<1>5. HalfOpenChains' /\ SessionKeys' /\ ToldOfSession'
  BY ZenonT(40), <1>1, <1>2, <1>3 DEF Shapes, HalfOpenChains, SessionKeys, ToldOfSession, ClientKeys,
     sessFlags
<1>6. FramesConform'
  BY <1>1 DEF FramesConform, drained
<1> QED BY <1>1, <1>4, <1>5, <1>6

LEMMA Type3Keeps ==
    ASSUME KeyInv, NEW s \in Sessions, NEW u \in Users \cup {Guest},
           NEW p \in Sessions \cup {None}, Type3(s, u, p)
    PROVE  KeyInv'
<1> USE DEF KeyInv
<1> DEFINE chain == IF sel.dialect = "3.1.1"
                    THEN Append(sess[s].chain, <<"type 3", s>>) ELSE sess[s].chain
           keys == IF u = Guest THEN None ELSE deriveKeys(sel, u, chain)
           new == [sess[s] EXCEPT !.chain = chain, !.authenticated = TRUE, !.user = u,
                                  !.keys = keys]
<1>1. /\ sess' = [sess EXCEPT ![s] = new]
      /\ s \in halfOpen /\ conn = "serving" /\ drained /\ halfOpen' = halfOpen \ {s}
      /\ told' = [t \in Sessions |-> IF t = s THEN sessFlags(u)
                                     ELSE IF t = p THEN None ELSE told[t]]
      /\ conn' \in {"hook", "serving"}
      /\ UNCHANGED <<cfg, sel, preauth, job, refused>>
  BY DEF Type3, ReadsSetup, MarkAuthenticated
<1>2. /\ new.authenticated = TRUE /\ new.user = u /\ new.keys = keys
      /\ {"authenticated", "user", "keys", "chain"} \subseteq DOMAIN new
  BY DEF Shapes
<1> HIDE DEF new
<1>3. /\ sess'[s] = new /\ DOMAIN sess' = Sessions
      /\ \A t \in Sessions \ {s} : sess'[t] = sess[t]
  BY <1>1 DEF Shapes
<1>4. /\ sess[s].chain = preauth \o <<<<"type 1", s>>, <<"challenge", s>>>>
      /\ preauth = IF sel.dialect = "3.1.1" THEN negotiated ELSE <<>>
  BY <1>1 DEF HalfOpenChains, Negotiated
<1>5. u # Guest => sess'[s].keys = ClientKeys(s)'
  <2>1. sess'[s].user = u /\ sel' = sel
    BY <1>1, <1>2, <1>3
  <2>2. chain = IF sel.dialect = "3.1.1"
                THEN Append(sess[s].chain, <<"type 3", s>>) ELSE sess[s].chain
    OBVIOUS
  <2>3. u # Guest => keys = deriveKeys(sel, u, chain)
    OBVIOUS
  <2> HIDE DEF chain, keys
  <2>4. deriveKeys(sel, u, chain) = ClientKeys(s)'
    BY <1>4, <2>1, <2>2, DerivedKeys
  <2> QED BY <1>2, <1>3, <2>3, <2>4
<1> HIDE DEF keys, chain
<1>6. Shapes' /\ FramesWithinLoop' /\ Negotiated'
  BY <1>1, <1>2, <1>3 DEF Shapes, FramesWithinLoop, Negotiated, Negotiating, drained
<1>7. HalfOpenChains'
  BY <1>1, <1>3 DEF Shapes, HalfOpenChains
<1>8. SessionKeys'
  <2>1. \A t \in Sessions \ {s} : ClientKeys(t)' = ClientKeys(t)
    BY <1>1, <1>3 DEF ClientKeys
  <2>2. u = Guest => sess'[s].keys = None
    BY <1>2, <1>3 DEF keys
  <2> QED BY <1>2, <1>3, <1>5, <2>1, <2>2 DEF SessionKeys
<1>9. ToldOfSession'
  BY <1>1, <1>2, <1>3 DEF ToldOfSession, sessFlags
<1>10. FramesConform'
  BY <1>1 DEF FramesConform, drained
<1> QED BY <1>1, <1>6, <1>7, <1>8, <1>9, <1>10

\* What a user with keys is told.
LEMMA UserFlags ==
    ASSUME NEW u, u # Guest
    PROVE  /\ ~sessFlags(u).guest
           /\ cfg.encryption /\ sel.cipher # None => sessFlags(u).encrypt
  BY DEF sessFlags

LEMMA SubmitKeeps ==
    ASSUME KeyInv, NEW w \in Workers, NEW s \in Sessions, NEW cmd \in Commands,
           NEW prot \in Protections, Submit(w, s, cmd, prot)
    PROVE  KeyInv'
<1> USE DEF KeyInv
<1> DEFINE new == [at |-> "submitted", sess |-> s, cmd |-> cmd, prot |-> prot,
                   asTold |-> AsTold(s, cmd, prot)]
<1>1. /\ job' = [job EXCEPT ![w] = new] /\ conn = "serving" /\ CanSend(s, prot)
      /\ UNCHANGED <<cfg, conn, sel, preauth, halfOpen, sess, refused>>
  BY DEF Submit
<1>2. /\ new.at = "submitted" /\ new.sess = s /\ new.cmd = cmd /\ new.prot = prot
      /\ new.asTold = AsTold(s, cmd, prot)
      /\ {"at", "sess", "cmd", "prot", "asTold"} \subseteq DOMAIN new
  OBVIOUS
<1>3. DOMAIN told' = Sessions /\ \A t \in Sessions : told'[t] \in {told[t], None}
  BY DEF Submit, Shapes
<1> HIDE DEF new
<1>4. /\ job'[w] = new /\ DOMAIN job' = Workers
      /\ \A v \in Workers \ {w} : job'[v] = job[v]
  BY <1>1 DEF Shapes
<1>5. Shapes' /\ FramesWithinLoop' /\ Negotiated'
  BY <1>1, <1>2, <1>3, <1>4 DEF Shapes, FramesWithinLoop, Negotiated, Negotiating
<1>6. HalfOpenChains' /\ SessionKeys' /\ ToldOfSession'
  BY ZenonT(40), <1>1, <1>3 DEF Shapes, HalfOpenChains, SessionKeys, ToldOfSession, ClientKeys,
     sessFlags
<1>7. ASSUME AsTold(s, cmd, prot), Policed(s)
      PROVE  /\ prot # "encrypted" => ~cfg.encryption \/ Exempt(cmd)
             /\ prot = "plain" => ~cfg.signing
  <2>1. sess[s].user # Guest /\ s \notin halfOpen
    BY <1>7 DEF Policed, SessionKeys, HalfOpenChains
  <2>2. told[s] # None /\ told[s] = sessFlags(sess[s].user)
    BY <1>1, <2>1 DEF CanSend, ToldOfSession
  <2>3. cfg.encryption => sel.cipher # None
    BY <1>1 DEF Negotiated
  <2> QED BY <1>7, <2>1, <2>2, <2>3, UserFlags DEF AsTold
<1>8. FramesConform'
  BY <1>1, <1>2, <1>4, <1>7 DEF FramesConform, Policed
<1> QED BY <1>1, <1>5, <1>6, <1>8

\* The policy refuses no message that is protected as told.
LEMMA PolicyKeeps ==
    ASSUME KeyInv, NEW w \in Workers, PolicyRefuses(w)
    PROVE  refused' = {}
<1> SUFFICES ASSUME job[w].asTold PROVE FALSE
  BY DEF PolicyRefuses, KeyInv
<1> DEFINE s == job[w].sess
<1>1. /\ s \in Sessions /\ job[w].prot \in Protections /\ Policed(s)
      /\ job[w].at # "free"
  BY DEF PolicyRefuses, NeedsEncryption, BadSignature, KeyInv, FramesWithinLoop
<1>2. sess[s].keys = ClientKeys(s)
  BY <1>1 DEF Policed, KeyInv, SessionKeys
<1>3. /\ job[w].prot # "encrypted" => ~cfg.encryption \/ Exempt(job[w].cmd)
      /\ job[w].prot = "plain" => ~cfg.signing
  BY <1>1 DEF KeyInv, FramesConform
<1> QED BY <1>1, <1>2, <1>3 DEF PolicyRefuses, NeedsEncryption, BadSignature, Protections

\* Nor is a frame from a client with the session's keys taken for damaged.
LEMMA DecryptKeeps ==
    ASSUME KeyInv, NEW s \in Sessions, DecryptFails(s)
    PROVE  refused' = {}
<1> SUFFICES ASSUME s \in table PROVE FALSE
  BY DEF DecryptFails, KeyInv
<1>1. told[s] # None /\ ~told[s].guest /\ sess[s].keys # ClientKeys(s)
  BY DEF DecryptFails, CanSend, Decrypts
<1>2. sess[s].authenticated /\ told[s] = sessFlags(sess[s].user)
  BY <1>1 DEF KeyInv, ToldOfSession
<1>3. sess[s].user = Guest
  BY <1>1, <1>2 DEF KeyInv, SessionKeys
<1>4. sessFlags(Guest).guest
  BY DEF sessFlags
<1> QED BY <1>1, <1>2, <1>3, <1>4

LEMMA KeyInvInductive == KeyInv /\ [Next]_vars => KeyInv'
<1> SUFFICES ASSUME KeyInv, [Next]_vars PROVE KeyInv'
  OBVIOUS
<1> USE DEF sessionVars, servingVars
<1>1. CASE Upgrade \/ \E o \in Offers : Negotiate(o) \/ NegotiateFails(o)
  <2> USE DEF KeyInv
  <2>1. /\ Negotiating /\ UNCHANGED <<cfg, sess, told, job, halfOpen, refused>>
        /\ conn' \in {"upgraded", "serving", "closed"}
        /\ conn' = "serving" =>
              /\ preauth' = IF sel'.dialect = "3.1.1" THEN negotiated ELSE <<>>
              /\ cfg.encryption => sel'.cipher # None
    BY <1>1 DEF Upgrade, Negotiate, NegotiateFails, Negotiating, Selectable
  <2>2. \A s \in Sessions : sess[s].authenticated = FALSE
    BY <2>1 DEF Negotiated, NewSession
  <2>3. drained
    BY <2>1 DEF Negotiating, FramesWithinLoop
  <2>4. Shapes' /\ FramesWithinLoop' /\ Negotiated'
    BY <2>1, <2>3 DEF Shapes, FramesWithinLoop, Negotiated, Negotiating, drained
  <2>5. HalfOpenChains' /\ SessionKeys' /\ ToldOfSession'
    BY <2>1, <2>2 DEF Negotiated, HalfOpenChains, SessionKeys, ToldOfSession
  <2>6. FramesConform'
    BY <2>1, <2>3 DEF FramesConform, drained
  <2> QED BY <2>1, <2>4, <2>5, <2>6
<1>2. CASE \/ TooManyHalfOpen \/ LoopEnds \/ SecondUserRefused \/ DropFails
           \/ \E s \in Sessions : Type3Fails(s)
  BY <1>2, QuietKeeps DEF TooManyHalfOpen, LoopEnds, SecondUserRefused, DropFails,
     Type3Fails, EndConnection, ReadsSetup, KeyInv, Shapes, Negotiating
<1>3. CASE Closed \/ OnAuthenticated
  BY <1>3, QuietKeeps DEF Closed, OnAuthenticated, KeyInv, Shapes, Negotiating, drained
<1>4. ASSUME NEW s \in Sessions, DecryptFails(s) \/ Superseded(s) PROVE KeyInv'
  <2>1. refused' = {}
    BY <1>4, DecryptKeeps DEF Superseded, KeyInv
  <2> QED BY <1>4, <2>1, QuietKeeps DEF DecryptFails, Superseded, KeyInv, Shapes, Negotiating
<1>5. ASSUME NEW w \in Workers, NoSession(w) \/ Unauthenticated(w) \/ PolicyRefuses(w)
      PROVE  KeyInv'
  <2>1. refused' = {}
    BY <1>5, PolicyKeeps DEF NoSession, Unauthenticated, KeyInv
  <2>2. /\ DOMAIN job' = Workers
        /\ \A v \in Workers : job'[v] = job[v] \/ job'[v] = FreeJob
        /\ UNCHANGED <<cfg, conn, sel, preauth, sess, told, halfOpen>>
    BY <1>5 DEF NoSession, Unauthenticated, PolicyRefuses, respondError, KeyInv, Shapes
  <2> QED BY <2>1, <2>2, QuietKeeps
<1>6. ASSUME NEW w \in Workers, Execute(w) PROVE KeyInv'
  <2>1. /\ DOMAIN job' = Workers /\ UNCHANGED <<cfg, conn, sel, preauth, sess, told, halfOpen, refused>>
        /\ job[w].at # "free" /\ DOMAIN job'[w] = DOMAIN job[w]
        /\ job'[w].sess = job[w].sess /\ job'[w].cmd = job[w].cmd
        /\ job'[w].prot = job[w].prot /\ job'[w].asTold = job[w].asTold
        /\ job'[w].at = "executing"
        /\ \A v \in Workers \ {w} : job'[v] = job[v]
    BY <1>6 DEF Execute, KeyInv, Shapes
  <2>2. Shapes' /\ FramesWithinLoop'
    BY <2>1 DEF KeyInv, Shapes, FramesWithinLoop, drained
  <2>3. FramesConform'
    BY <2>1 DEF KeyInv, FramesConform, Policed
  <2> QED BY ZenonT(40), <2>1, <2>2, <2>3 DEF KeyInv, Negotiated, Negotiating, HalfOpenChains,
             SessionKeys, ToldOfSession, ClientKeys, sessFlags
<1>7. ASSUME NEW w \in Workers, Finish(w) PROVE KeyInv'
  <2>1. /\ DOMAIN job' = Workers
        /\ \A v \in Workers : job'[v] = job[v] \/ job'[v] = FreeJob
        /\ UNCHANGED <<cfg, conn, sel, preauth, sess, told, refused>>
        /\ halfOpen' \subseteq halfOpen
    BY <1>7 DEF Finish, KeyInv, Shapes
  <2> QED BY <2>1, QuietKeeps DEF KeyInv
<1>8. CASE UNCHANGED vars
  BY <1>8, QuietKeeps DEF vars, KeyInv, Shapes
<1> QED BY <1>1, <1>2, <1>3, <1>4, <1>5, <1>6, <1>7, <1>8, Type1Keeps, Type3Keeps,
           SubmitKeeps DEF Next, Terminated

LEMMA KeyInvariance == Spec => []KeyInv
  BY InitKeyInv, KeyInvInductive, PTL DEF Spec

\* Client and server derive the same keys for every session, in whatever order
\* handshakes, failures and messages interleave on the connection (session.go
\* 664-672, 744-757).
THEOREM SameKeys == Spec => []KeysAgree
<1>1. KeyInv => KeysAgree
  BY DEF KeyInv, SessionKeys, KeysAgree
<1> QED BY <1>1, KeyInvariance, PTL

\* No policy of the server refuses a message that is protected as NEGOTIATE and
\* SESSION_SETUP told the client (session.go 489-495, 811-821).
THEOREM ConformingServed == Spec => []ConformingClientServed
<1>1. KeyInv => ConformingClientServed
  BY DEF KeyInv, ConformingClientServed
<1> QED BY <1>1, KeyInvariance, PTL

-----------------------------------------------------------------------------
(* The privilege-drop worker.                                              *)

\* The session belongs to the user the process runs as.
OwnedByProcess(s) == proc.dropped /\ uidOf(s) = proc.euid

\* The drop is final, and every session that has passed the hook is of the user
\* it dropped to.  A second user's session is in the table, authenticated, from
\* its SESSION_SETUP to the end of the connection: no frame of it is on the pool,
\* because the pool is drained in the hook and the loop does not go on after it.
PrivInv ==
    /\ proc \in [euid : Uids, dropped : BOOLEAN, droppedUID : Uids \cup {None}]
    /\ IF proc.dropped THEN proc.euid = proc.droppedUID ELSE proc.euid = Root
    /\ conn = "hook" => authed \in Sessions /\ sess[authed].authenticated
    /\ cfg.worker =>
         /\ conn = "serving" =>
              \A s \in Sessions : sess[s].authenticated => OwnedByProcess(s)
         /\ conn = "hook" =>
              \A s \in Sessions \ {authed} : sess[s].authenticated => OwnedByProcess(s)
         /\ \A w \in Workers : job[w].at # "free" /\ sess[job[w].sess].authenticated =>
              OwnedByProcess(job[w].sess)
    /\ \A w \in Workers : job[w].at = "executing" => sess[job[w].sess].authenticated

\* A step that changes neither the process nor the sessions, and does not bring
\* the connection back into the loop.
LEMMA PrivQuiet ==
    ASSUME KeyInv, PrivInv, UNCHANGED <<cfg, proc, sess>>,
           \/ UNCHANGED <<conn, authed>>
           \/ conn' \notin {"hook", "serving"}
           \/ Negotiating /\ conn' = "serving",
           \A w \in Workers : job'[w] = job[w] \/ job'[w] = FreeJob
    PROVE  PrivInv'
<1>1. Negotiating => \A s \in Sessions : ~sess[s].authenticated
  BY DEF KeyInv, Negotiated, NewSession
<1> QED BY <1>1 DEF PrivInv, OwnedByProcess, uidOf, FreeJob

\* The hook: the first user's uid becomes the process's, or is it already.
LEMMA HookKeeps ==
    ASSUME KeyInv, PrivInv, OnAuthenticated
    PROVE  PrivInv'
<1>1. /\ drained /\ authed \in Sessions /\ sess[authed].authenticated
      /\ conn = "hook" /\ conn' = "serving" /\ UNCHANGED <<cfg, sess, job>>
  BY DEF OnAuthenticated, PrivInv, KeyInv, FramesWithinLoop, sessionVars
<1>2. uidOf(authed) \in Uids /\ Root \in Uids
  BY <1>1 DEF KeyInv, SessionKeys, uidOf, Uids
<1>3. /\ proc' \in [euid : Uids, dropped : BOOLEAN, droppedUID : Uids \cup {None}]
      /\ proc'.dropped /\ proc'.euid = proc'.droppedUID /\ proc'.euid = uidOf(authed)
      /\ proc.dropped => proc' = proc
  BY <1>2 DEF OnAuthenticated, PrivInv, decidePrivDrop
<1>4. cfg.worker => \A s \in Sessions : sess[s].authenticated =>
         proc'.dropped /\ uidOf(s) = proc'.euid
  BY <1>1, <1>3 DEF PrivInv, OwnedByProcess
<1> QED BY <1>1, <1>3, <1>4 DEF PrivInv, OwnedByProcess, uidOf, drained

LEMMA PrivInductive == KeyInv /\ PrivInv /\ [Next]_vars => PrivInv'
<1> SUFFICES ASSUME KeyInv, PrivInv, [Next]_vars PROVE PrivInv'
  OBVIOUS
<1> USE DEF sessionVars, servingVars
<1>1. CASE \/ Upgrade \/ \E o \in Offers : Negotiate(o) \/ NegotiateFails(o)
           \/ TooManyHalfOpen \/ LoopEnds \/ Closed \/ SecondUserRefused \/ DropFails
           \/ \E s \in Sessions : Type3Fails(s) \/ DecryptFails(s) \/ Superseded(s)
           \/ UNCHANGED vars
  <2>1. /\ UNCHANGED <<cfg, proc, sess, job>>
        /\ \/ UNCHANGED <<conn, authed>>
           \/ conn' \notin {"hook", "serving"}
           \/ Negotiating /\ conn' = "serving"
    BY <1>1 DEF Upgrade, Negotiate, NegotiateFails, TooManyHalfOpen, LoopEnds, Closed,
       SecondUserRefused, DropFails, Type3Fails, DecryptFails, Superseded, EndConnection,
       Negotiating, vars
  <2> QED BY <2>1, PrivQuiet
<1>2. CASE OnAuthenticated
  BY <1>2, HookKeeps
<1>3. ASSUME NEW s \in Sessions, Type1(s) PROVE PrivInv'
  <2>1. /\ drained /\ conn = "serving" /\ sess[s] = NewSession
        /\ UNCHANGED <<cfg, conn, authed, job, proc>>
        /\ \A t \in Sessions \ {s} : sess'[t] = sess[t]
    BY <1>3 DEF Type1, ReadsSetup, KeyInv, Shapes
  <2>2. PICK c : sess'[s] = [sess[s] EXCEPT !.chain = c]
    BY <1>3 DEF Type1, KeyInv, Shapes
  <2>3. sess'[s].authenticated = FALSE
    BY <2>1, <2>2 DEF NewSession
  <2> QED BY <2>1, <2>3 DEF PrivInv, OwnedByProcess, uidOf, drained
<1>4. ASSUME NEW s \in Sessions, NEW u \in Users \cup {Guest}, NEW p, Type3(s, u, p)
      PROVE  PrivInv'
  <2>1. /\ drained /\ conn = "serving" /\ ~sess[s].authenticated
        /\ UNCHANGED <<cfg, job, proc>>
        /\ \A t \in Sessions \ {s} : sess'[t] = sess[t]
        /\ sess'[s].authenticated
    BY <1>4 DEF Type3, ReadsSetup, KeyInv, Shapes, HalfOpenChains
  <2>2. conn' = (IF cfg.worker THEN "hook" ELSE "serving") /\ (cfg.worker => authed' = s)
    BY <1>4 DEF Type3
  <2>3. conn' = "hook" => cfg.worker /\ authed' = s
    BY <2>2
  <2> QED BY <2>1, <2>2, <2>3 DEF PrivInv, OwnedByProcess, uidOf, drained
<1>5. ASSUME NEW w \in Workers, NEW s \in Sessions, NEW cmd, NEW prot,
             Submit(w, s, cmd, prot)
      PROVE  PrivInv'
  <2>1. /\ conn = "serving" /\ UNCHANGED <<cfg, conn, authed, sess, proc>>
        /\ \A v \in Workers \ {w} : job'[v] = job[v]
        /\ job'[w].sess = s /\ job'[w].at = "submitted"
    BY <1>5 DEF Submit, KeyInv, Shapes
  <2> QED BY <2>1 DEF PrivInv, OwnedByProcess, uidOf
<1>6. ASSUME NEW w \in Workers,
             NoSession(w) \/ Unauthenticated(w) \/ PolicyRefuses(w) \/ Finish(w)
      PROVE  PrivInv'
  <2>1. /\ \A v \in Workers : job'[v] = job[v] \/ job'[v] = FreeJob
        /\ UNCHANGED <<cfg, conn, authed, proc, sess>>
    BY <1>6 DEF NoSession, Unauthenticated, PolicyRefuses, Finish, respondError,
       KeyInv, Shapes
  <2> QED BY <2>1, PrivQuiet
<1>7. ASSUME NEW w \in Workers, Execute(w) PROVE PrivInv'
  <2>1. /\ UNCHANGED <<cfg, conn, authed, sess, proc>>
        /\ \A v \in Workers \ {w} : job'[v] = job[v]
        /\ job[w].at # "free" /\ job'[w].sess = job[w].sess
        /\ sess[job[w].sess].authenticated
    BY <1>7 DEF Execute, KeyInv, Shapes
  <2> QED BY <2>1 DEF PrivInv, OwnedByProcess, uidOf
<1> QED BY <1>1, <1>2, <1>3, <1>4, <1>5, <1>6, <1>7 DEF Next, Terminated

\* A worker that has dropped its privileges executes every request as the user
\* the request's session belongs to, although a second user's SESSION_SETUP is
\* answered with success before the hook refuses it (worker.go 365-383).
THEOREM RunsAsOwner == Spec => []ServedAsOwner
<1>1. Init => PrivInv
  BY DEF Init, PrivInv, Uids, NewSession, FreeJob
<1>2. PrivInv => ServedAsOwner
  BY DEF PrivInv, OwnedByProcess, ServedAsOwner
<1> QED BY <1>1, <1>2, PrivInductive, KeyInvariance, PTL DEF Spec

-----------------------------------------------------------------------------
(* NEGOTIATE: what Select picks.                                           *)

\* The preference lists have at most five entries.
LEMMA LeastOfFew ==
    ASSUME NEW c \in SUBSET {1, 2, 3, 4, 5}, c # {}
    PROVE  Min(c) \in c /\ \A m \in c : Min(c) <= m
<1>1. \E n \in c : \A m \in c : n <= m
  <2>1. CASE 1 \in c
    BY <2>1
  <2>2. CASE 1 \notin c /\ 2 \in c
    BY <2>2
  <2>3. CASE 1 \notin c /\ 2 \notin c /\ 3 \in c
    BY <2>3
  <2>4. CASE 1 \notin c /\ 2 \notin c /\ 3 \notin c /\ 4 \in c
    BY <2>4
  <2>5. CASE 1 \notin c /\ 2 \notin c /\ 3 \notin c /\ 4 \notin c
    <3>1. 5 \in c /\ \A m \in c : m = 5
      BY <2>5
    <3> QED BY <3>1
  <2> QED BY <2>1, <2>2, <2>3, <2>4, <2>5
<1> QED BY <1>1 DEF Min

LEMMA PreferredIsFirst ==
    ASSUME NEW prefs, DOMAIN prefs \subseteq {1, 2, 3, 4, 5}, NEW offered,
           preferred(prefs, offered) # None
    PROVE  \E i \in DOMAIN prefs :
              /\ preferred(prefs, offered) = prefs[i] /\ prefs[i] \in offered
              /\ \A j \in DOMAIN prefs : j < i => prefs[j] \notin offered
<1> DEFINE common == {i \in DOMAIN prefs : prefs[i] \in offered}
<1>1. common # {} /\ preferred(prefs, offered) = prefs[Min(common)]
  BY DEF preferred
<1>2. common \subseteq {1, 2, 3, 4, 5}
  OBVIOUS
<1>3. Min(common) \in common /\ \A m \in common : Min(common) <= m
  <2> HIDE DEF common
  <2> QED BY <1>1, <1>2, LeastOfFew
<1>4. \A j \in DOMAIN prefs : j < Min(common) => prefs[j] \notin offered
  BY <1>2, <1>3
<1> QED BY <1>1, <1>3, <1>4

\* The dialect is the newest the client offers (selection.go 60-73): no offer makes
\* the server settle for an older one.
THEOREM NewestDialectSelected ==
    ASSUME NEW o, NEW e, Selectable(o, e),
           NEW i \in DOMAIN SupportedDialects, SupportedDialects[i] \in o.dialects
    PROVE  \E j \in DOMAIN SupportedDialects :
              j <= i /\ Select(o).dialect = SupportedDialects[j]
<1>1. DOMAIN SupportedDialects = {1, 2, 3, 4, 5}
  BY DEF SupportedDialects
<1>2. Select(o).dialect = preferred(SupportedDialects, o.dialects)
  BY DEF Select
<1>3. preferred(SupportedDialects, o.dialects) # None
  BY <1>2 DEF Selectable
<1>4. PICK j \in DOMAIN SupportedDialects :
         /\ preferred(SupportedDialects, o.dialects) = SupportedDialects[j]
         /\ \A k \in DOMAIN SupportedDialects :
               k < j => SupportedDialects[k] \notin o.dialects
  BY <1>1, <1>3, PreferredIsFirst
<1>5. j <= i
  BY <1>1, <1>4
<1> QED BY <1>2, <1>4, <1>5

\* An offer the server accepts gets a combination its dialect really has.
LEMMA SelectionType ==
    ASSUME NEW o, NEW e, Selectable(o, e)
    PROVE  Select(o) \in Selection
<1> DEFINE d == preferred(SupportedDialects, o.dialects)
           c == cipherFor(d, o)
           g == signingFor(d, o)
<1>1. d \in Elements(SupportedDialects)
  <2>1. DOMAIN SupportedDialects \subseteq {1, 2, 3, 4, 5}
    BY DEF SupportedDialects
  <2> QED BY <2>1, PreferredIsFirst DEF Selectable, Select, Elements
<1>2. ASSUME NEW x
      PROVE  preferred(SupportedCiphers, x) \in Elements(SupportedCiphers) \cup {None}
  <2>1. DOMAIN SupportedCiphers \subseteq {1, 2, 3, 4, 5}
    BY DEF SupportedCiphers
  <2> QED BY <2>1, PreferredIsFirst DEF Elements
<1>3. ASSUME NEW x
      PROVE  preferred(SupportedSigningAlgos, x)
               \in Elements(SupportedSigningAlgos) \cup {None}
  <2>1. DOMAIN SupportedSigningAlgos \subseteq {1, 2, 3, 4, 5}
    BY DEF SupportedSigningAlgos
  <2> QED BY <2>1, PreferredIsFirst DEF Elements
<1>4. /\ Elements(SupportedDialects) = {"3.1.1", "3.0.2", "3.0", "2.1", "2.0.2"}
      /\ Elements(SupportedSigningAlgos) = {"CMAC", "GMAC"}
  BY DEF Elements, SupportedDialects, SupportedSigningAlgos
<1>5. c \in IF d = "3.1.1" THEN Elements(SupportedCiphers) \cup {None}
            ELSE IF d \in {"3.0", "3.0.2"} THEN {"AES128CCM", None} ELSE {None}
  BY <1>2 DEF cipherFor
<1>6. g \in IF d = "3.1.1" THEN Elements(SupportedSigningAlgos) \cup {None}
            ELSE IF d \in {"3.0", "3.0.2"} THEN {"CMAC"} ELSE {"HMAC"}
  BY <1>3, <1>4 DEF signingFor
<1>7. Select(o) = [dialect |-> d, cipher |-> c, signing |-> g]
  BY DEF Select
<1>8. g # None
  BY <1>7 DEF Selectable
<1> HIDE DEF d, c, g
<1> QED BY <1>1, <1>4, <1>5, <1>6, <1>7, <1>8 DEF Selection

-----------------------------------------------------------------------------
(* Type correctness.                                                       *)

LEMMA ExchangeTypes ==
    /\ negotiated \in Seq(Message)
    /\ \A s \in Sessions :
          /\ <<<<"type 1", s>>, <<"challenge", s>>>> \in Seq(Message)
          /\ <<"type 3", s>> \in Message
<1>1. \A a, b \in Message : <<a, b>> \in Seq(Message)
  OBVIOUS
<1>2. /\ <<"negotiate request", None>> \in Message
      /\ <<"negotiate response", None>> \in Message
  BY DEF Message
<1>3. ASSUME NEW s \in Sessions
      PROVE  /\ <<"type 1", s>> \in Message /\ <<"challenge", s>> \in Message
             /\ <<"type 3", s>> \in Message
  BY DEF Message
<1>4. negotiated \in Seq(Message)
  BY <1>1, <1>2, Zenon DEF negotiated
<1>5. \A s \in Sessions : <<<<"type 1", s>>, <<"challenge", s>>>> \in Seq(Message)
  BY <1>1, <1>3, Zenon
<1> QED BY <1>3, <1>4, <1>5

LEMMA TypeStep == KeyInv /\ PrivInv /\ TypeOK /\ [Next]_vars => TypeOK'
<1> SUFFICES ASSUME KeyInv, PrivInv, TypeOK, [Next]_vars PROVE TypeOK'
  OBVIOUS
<1>0. proc' \in [euid : Uids, dropped : BOOLEAN, droppedUID : Uids \cup {None}]
  BY PrivInductive DEF PrivInv
<1> USE DEF sessionVars, servingVars
<1>1. ASSUME NEW o \in Offers, Negotiate(o) PROVE TypeOK'
  <2>1. sel' \in Selection
    BY <1>1, SelectionType DEF Negotiate
  <2>2. preauth' \in Seq(Message)
    <3>1. <<>> \in Seq(Message)
      OBVIOUS
    <3>2. preauth' = negotiated \/ preauth' = <<>>
      BY <1>1 DEF Negotiate
    <3> QED BY <3>1, <3>2, ExchangeTypes, Zenon
  <2> QED BY <1>0, <1>1, <2>1, <2>2 DEF Negotiate, TypeOK
<1>2. CASE \/ Upgrade \/ \E o \in Offers : NegotiateFails(o)
           \/ TooManyHalfOpen \/ LoopEnds \/ Closed \/ SecondUserRefused \/ DropFails
           \/ \E s \in Sessions : Type3Fails(s) \/ DecryptFails(s) \/ Superseded(s)
           \/ OnAuthenticated \/ UNCHANGED vars
  BY <1>0, <1>2 DEF Upgrade, NegotiateFails, TooManyHalfOpen, LoopEnds, Closed,
     SecondUserRefused, DropFails, Type3Fails, DecryptFails, Superseded, OnAuthenticated,
     EndConnection, TypeOK, vars
<1>3. ASSUME NEW s \in Sessions, Type1(s) PROVE TypeOK'
  <2>1. PICK c : /\ c = preauth \o <<<<"type 1", s>>, <<"challenge", s>>>>
                 /\ sess' = [sess EXCEPT ![s] = [@ EXCEPT !.chain = c]]
    BY <1>3 DEF Type1
  <2>2. c \in Seq(Message)
    <3>1. \A a, b \in Seq(Message) : a \o b \in Seq(Message)
      OBVIOUS
    <3> QED BY <2>1, <3>1, ExchangeTypes, Zenon DEF TypeOK
  <2>3. \A t \in Sessions :
          /\ sess'[t].chain \in Seq(Message)
          /\ sess'[t].user \in Users \cup {Guest, None}
          /\ sess'[t].authenticated \in BOOLEAN
    <3>1. /\ sess'[s].chain = c /\ sess'[s].user = sess[s].user
          /\ sess'[s].authenticated = sess[s].authenticated
      BY <2>1 DEF KeyInv, Shapes
    <3> QED BY <2>1, <2>2, <3>1 DEF TypeOK, KeyInv, Shapes
  <2> QED BY <1>0, <1>3, <2>3 DEF Type1, TypeOK
<1>4. ASSUME NEW s \in Sessions, NEW u \in Users \cup {Guest},
             NEW p \in Sessions \cup {None}, Type3(s, u, p)
      PROVE  TypeOK'
  <2> DEFINE c == IF sel.dialect = "3.1.1"
                  THEN Append(sess[s].chain, <<"type 3", s>>) ELSE sess[s].chain
             k == IF u = Guest THEN None ELSE deriveKeys(sel, u, c)
  <2>1. sess' = [sess EXCEPT ![s] = [@ EXCEPT !.chain = c, !.authenticated = TRUE,
                                              !.user = u, !.keys = k]]
    BY <1>4 DEF Type3
  <2>2. c \in Seq(Message)
    <3>1. \A a \in Seq(Message), b \in Message : Append(a, b) \in Seq(Message)
      OBVIOUS
    <3> QED BY <3>1, ExchangeTypes, Zenon DEF TypeOK
  <2> HIDE DEF c, k
  <2>3. \A t \in Sessions :
          /\ sess'[t].chain \in Seq(Message)
          /\ sess'[t].user \in Users \cup {Guest, None}
          /\ sess'[t].authenticated \in BOOLEAN
    <3>1. sess'[s].chain = c /\ sess'[s].user = u /\ sess'[s].authenticated = TRUE
      BY <2>1 DEF KeyInv, Shapes
    <3> QED BY <2>1, <2>2, <3>1 DEF TypeOK, KeyInv, Shapes
  <2>4. sessFlags(u) \in Told /\ None \in Told
    <3>1. sessFlags(u) \in [guest : BOOLEAN, encrypt : BOOLEAN]
      BY DEF sessFlags
    <3> QED BY <3>1, Zenon DEF Told
  <2>5. told' \in [Sessions -> Told]
    BY <1>4, <2>4 DEF Type3, TypeOK
  <2>6. conn' \in {"hook", "serving"} /\ authed' \in Sessions \cup {None}
        /\ (conn' = "hook" <=> authed' # None)
    BY <1>4, SetupConstants DEF Type3
  <2>7. UNCHANGED <<cfg, sel, preauth, job, aborted, refused>> /\ halfOpen' \subseteq halfOpen
        /\ table' \subseteq table
    BY <1>4 DEF Type3, MarkAuthenticated
  <2> QED BY <1>0, <2>3, <2>5, <2>6, <2>7 DEF TypeOK
<1>5. ASSUME NEW w \in Workers, NEW s \in Sessions, NEW cmd, NEW prot,
             Submit(w, s, cmd, prot)
      PROVE  TypeOK'
  <2>1. told' \in [Sessions -> Told]
    BY <1>5 DEF Submit, TypeOK, Told
  <2>2. \A v \in Workers : job'[v].at \in {"free", "submitted", "executing"}
    BY <1>5 DEF Submit, TypeOK, KeyInv, Shapes
  <2> QED BY <1>0, <1>5, <2>1, <2>2 DEF Submit, TypeOK
<1>6. ASSUME NEW w \in Workers,
             \/ NoSession(w) \/ Unauthenticated(w) \/ PolicyRefuses(w) \/ Finish(w)
             \/ Execute(w)
      PROVE  TypeOK'
  <2>1. \A v \in Workers : job'[v].at \in {"free", "submitted", "executing"}
    <3>1. job' = [job EXCEPT ![w] = FreeJob] \/ job' = [job EXCEPT ![w].at = "executing"]
      BY <1>6 DEF NoSession, Unauthenticated, PolicyRefuses, Finish, Execute, respondError
    <3> QED BY <3>1 DEF FreeJob, TypeOK, KeyInv, Shapes
  <2>2. refused' \subseteq Sessions
    BY <1>6, PolicyKeeps DEF NoSession, Unauthenticated, Finish, Execute, TypeOK
  <2>3. aborted' \in BOOLEAN
    BY <1>6 DEF NoSession, Unauthenticated, PolicyRefuses, Finish, Execute, respondError,
       TypeOK
  <2>4. /\ table' \subseteq table /\ halfOpen' \subseteq halfOpen
        /\ UNCHANGED <<cfg, conn, authed, sel, preauth, sess, told>>
    BY <1>6 DEF NoSession, Unauthenticated, PolicyRefuses, Finish, Execute, respondError
  <2> QED BY <1>0, <2>1, <2>2, <2>3, <2>4 DEF TypeOK
<1> QED BY <1>1, <1>2, <1>3, <1>4, <1>5, <1>6 DEF Next, Terminated

\* Every variable of the connection keeps its type; what is negotiated is a
\* combination the dialect has, whatever the client offers.
THEOREM TypeCorrect == Spec => []TypeOK
<1>1. Init => TypeOK
  <2> SUFFICES ASSUME Init PROVE TypeOK
    OBVIOUS
  <2>1. \A s \in Sessions : sess[s] = NewSession
    BY DEF Init
  <2>2. /\ NewSession.chain = <<>> /\ NewSession.user = None
        /\ NewSession.authenticated = FALSE
    BY DEF NewSession
  <2>3. <<>> \in Seq(Message)
    OBVIOUS
  <2>4. \A s \in Sessions :
          /\ sess[s].chain \in Seq(Message)
          /\ sess[s].user \in Users \cup {Guest, None}
          /\ sess[s].authenticated \in BOOLEAN
    BY <2>1, <2>2, <2>3
  <2>5. told \in [Sessions -> Told]
    BY DEF Init, Told
  <2> QED BY <2>3, <2>4, <2>5 DEF Init, TypeOK, Uids, FreeJob
<1>2. Init => PrivInv
  BY DEF Init, PrivInv, Uids, NewSession, FreeJob
<1> QED BY <1>1, <1>2, TypeStep, PrivInductive, KeyInvariance, PTL DEF Spec
=============================================================================
