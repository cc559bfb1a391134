---------------------------- MODULE SessionSetup ----------------------------
(***************************************************************************)
(* One connection from NEGOTIATE to its end: what is negotiated, how       *)
(* sessions are set up, which messages the server then accepts, and, in a  *)
(* privilege-drop worker, as whom it serves them.                          *)
(*                                                                         *)
(* Frames run side by side on the pool, SESSION_SETUP alone on the read    *)
(* goroutine.  Clients authenticate a session once and use the keys of the *)
(* session they name; they may fail to authenticate, send a command too    *)
(* early, or protect a message less than they were told to.  A hash, a key *)
(* and a signature are what they were computed from.                       *)
(***************************************************************************)
EXTENDS Naturals, Sequences, FiniteSets, FiniteSetsExt

CONSTANTS
    Sessions,      \* SessionIds, each allocated once
    Workers,       \* the pool's slots
    Users,         \* configured users
    UidOf,         \* SystemUID of each user, and of Guest
    Guest,         \* the guest user
    Offers,        \* what clients offer in NEGOTIATE
    MaxHalfOpen,   \* maxHalfOpenSessions
    None           \* nothing

Root == 0

ASSUME SetupConstants ==
    /\ UidOf \in [Users \cup {Guest} -> Nat]
    /\ Guest \notin Users /\ None \notin Users \cup {Guest} \cup Sessions
    /\ MaxHalfOpen \in Nat \ {0}
    /\ IsFiniteSet(Sessions)

-----------------------------------------------------------------------------
(* Negotiation.                                                            *)

SupportedDialects == <<"3.1.1", "3.0.2", "3.0", "2.1", "2.0.2">>
SupportedCiphers == <<"AES256GCM", "AES128GCM", "AES256CCM", "AES128CCM">>
SupportedSigningAlgos == <<"CMAC", "GMAC">>

Elements(s) == {s[i] : i \in DOMAIN s}

\* ciphers and signing are empty if the client sends no such context.
Offer == [dialects : SUBSET Elements(SupportedDialects), sha512 : BOOLEAN,
          ciphers : SUBSET Elements(SupportedCiphers), capEncryption : BOOLEAN,
          signing : SUBSET (Elements(SupportedSigningAlgos) \cup {"other"})]

\* The first of the server's preferences the client offers, or None.
preferred(prefs, offered) ==
    LET common == {i \in DOMAIN prefs : prefs[i] \in offered}
    IN  IF common = {} THEN None ELSE prefs[Min(common)]

cipherFor(d, o) ==
    CASE d = "3.1.1" -> preferred(SupportedCiphers, o.ciphers)
      [] d \in {"3.0", "3.0.2"} -> IF o.capEncryption THEN "AES128CCM" ELSE None
      [] OTHER -> None

signingFor(d, o) ==
    CASE d = "3.1.1" -> IF o.signing = {} THEN "CMAC"
                        ELSE preferred(SupportedSigningAlgos, o.signing)
      [] d \in {"3.0", "3.0.2"} -> "CMAC"
      [] OTHER -> "HMAC"

Select(o) ==
    LET d == preferred(SupportedDialects, o.dialects) IN
    [dialect |-> d, cipher |-> cipherFor(d, o), signing |-> signingFor(d, o)]

\* The cases in which Select returns an error.
Selectable(o, requireEncryption) ==
    LET sel == Select(o) IN
    /\ sel.dialect # None
    /\ sel.dialect = "3.1.1" => o.sha512
    /\ requireEncryption => sel.cipher # None
    /\ sel.signing # None

\* What each dialect can have: encryption needs 3.0, a choice of cipher 3.1.1.
Selection ==
    [dialect : {"3.1.1"}, cipher : Elements(SupportedCiphers) \cup {None},
     signing : Elements(SupportedSigningAlgos)]
    \cup [dialect : {"3.0", "3.0.2"}, cipher : {"AES128CCM", None}, signing : {"CMAC"}]
    \cup [dialect : {"2.1", "2.0.2"}, cipher : {None}, signing : {"HMAC"}]

-----------------------------------------------------------------------------
(* The preauth chain and the keys.                                         *)

\* MessageKinds of the two exchanges, as the hash sees them.
Message == ({"negotiate request", "negotiate response"} \X {None})
           \cup ({"type 1", "challenge", "type 3"} \X Sessions)

negotiated == <<<<"negotiate request", None>>, <<"negotiate response", None>>>>

\* smb3.CipherKeyBits.
keyBits(cipher) == IF cipher \in {"AES256GCM", "AES256CCM"} THEN 256 ELSE 128

\* Everything SigningKey and the cipher keys depend on.
deriveKeys(sel, user, chain) ==
    [user |-> user, dialect |-> sel.dialect,
     bits |-> IF sel.dialect = "3.1.1" THEN keyBits(sel.cipher) ELSE 128,
     chain |-> IF sel.dialect = "3.1.1" THEN chain ELSE <<>>]

-----------------------------------------------------------------------------
VARIABLES
    cfg,       \* the server's policy, and whether this process is a worker
    conn,      \* where the read goroutine stands
    authed,    \* the session HandleSessionSetup has just returned
    sel,       \* Connection.Selection
    preauth,   \* Connection.Preauth
    table,     \* SessionTable.byID
    halfOpen,  \* SessionTable.halfOpen
    sess,      \* the fields of each Session
    told,      \* what the SESSION_SETUP response told the client
    job,       \* the frames on the pool
    aborted,   \* ServeConn's aborted
    refused,   \* sessions of which a message protected as told was refused
    proc       \* the worker process: its euid, and dropped, droppedUID

vars == <<cfg, conn, authed, sel, preauth, table, halfOpen, sess, told, job, aborted,
          refused, proc>>

Config == [encryption : BOOLEAN, signing : BOOLEAN, guestShare : BOOLEAN,
           worker : BOOLEAN]

NewSession == [authenticated |-> FALSE, user |-> None, keys |-> None, chain |-> <<>>]

Told == [guest : BOOLEAN, encrypt : BOOLEAN] \cup {None}

\* asTold: the message is protected the way the client was told to.
FreeJob == [at |-> "free", sess |-> None, cmd |-> None, prot |-> None,
            asTold |-> TRUE]

Commands == {"DATA", "CONTROL", "LOGOFF"}
Protections == {"encrypted", "signed", "plain"}

Uids == {Root} \cup {UidOf[u] : u \in Users \cup {Guest}}

TypeOK ==
    /\ cfg \in Config
    /\ conn \in {"negotiate", "upgraded", "serving", "hook", "ending", "closed"}
    /\ authed \in Sessions \cup {None} /\ (conn = "hook" <=> authed # None)
    /\ sel \in Selection \cup {None}
    /\ preauth \in Seq(Message)
    /\ halfOpen \subseteq Sessions /\ table \subseteq Sessions
    /\ \A s \in Sessions :
          /\ sess[s].chain \in Seq(Message)
          /\ sess[s].user \in Users \cup {Guest, None}
          /\ sess[s].authenticated \in BOOLEAN
    /\ told \in [Sessions -> Told]
    /\ \A w \in Workers : job[w].at \in {"free", "submitted", "executing"}
    /\ aborted \in BOOLEAN /\ refused \subseteq Sessions
    /\ proc \in [euid : Uids, dropped : BOOLEAN, droppedUID : Uids \cup {None}]

\* Only a worker has a hook; a process that is not root never drops anything.
Init ==
    /\ cfg \in Config
    /\ conn = "negotiate" /\ authed = None /\ sel = None /\ preauth = <<>>
    /\ table = {} /\ halfOpen = {}
    /\ sess = [s \in Sessions |-> NewSession]
    /\ told = [s \in Sessions |-> None]
    /\ job = [w \in Workers |-> FreeJob]
    /\ aborted = FALSE /\ refused = {}
    /\ proc = [euid |-> Root, dropped |-> FALSE, droppedUID |-> None]

-----------------------------------------------------------------------------
(* NEGOTIATE.                                                              *)

sessionVars == <<table, halfOpen, sess, told>>
servingVars == <<sessionVars, job, aborted, refused, proc, authed>>

\* An SMB1 NEGOTIATE is answered with the wildcard dialect, once.
Upgrade ==
    /\ conn = "negotiate"
    /\ conn' = "upgraded"
    /\ UNCHANGED <<cfg, sel, preauth, servingVars>>

Negotiate(o) ==
    /\ conn \in {"negotiate", "upgraded"}
    /\ Selectable(o, cfg.encryption)
    /\ sel' = Select(o)
    /\ preauth' = IF sel'.dialect = "3.1.1" THEN negotiated ELSE <<>>
    /\ conn' = "serving"
    /\ UNCHANGED <<cfg, servingVars>>

NegotiateFails(o) ==
    /\ conn \in {"negotiate", "upgraded"}
    /\ ~Selectable(o, cfg.encryption)
    /\ conn' = "closed"
    /\ UNCHANGED <<cfg, sel, preauth, servingVars>>

-----------------------------------------------------------------------------
(* SESSION_SETUP, on the read goroutine with the pool drained.             *)

drained == \A w \in Workers : job[w].at = "free"

ReadsSetup == conn = "serving" /\ ~aborted /\ drained

\* Mutant: the handshake is folded into the connection's own chain.
Type1_SharedChain(s) ==
    /\ ReadsSetup
    /\ s \notin table /\ sess[s] = NewSession
    /\ Cardinality(halfOpen) < MaxHalfOpen
    /\ table' = table \cup {s} /\ halfOpen' = halfOpen \cup {s}
    /\ preauth' = preauth \o <<<<"type 1", s>>, <<"challenge", s>>>>
    /\ sess' = [sess EXCEPT ![s].chain = preauth']
    /\ UNCHANGED <<cfg, conn, authed, sel, told, job, aborted, refused, proc>>

\* handleType1: a new half-open session, whose chain forks from the
\* connection's.
Type1(s) ==
    /\ ReadsSetup
    /\ s \notin table /\ sess[s] = NewSession
    /\ Cardinality(halfOpen) < MaxHalfOpen
    /\ table' = table \cup {s} /\ halfOpen' = halfOpen \cup {s}
    /\ sess' = [sess EXCEPT ![s].chain =
                   preauth \o <<<<"type 1", s>>, <<"challenge", s>>>>]
    /\ UNCHANGED <<cfg, conn, authed, sel, preauth, told, job, aborted, refused, proc>>

\* Any error of HandleSessionSetup ends the connection.
EndConnection ==
    /\ conn' = "ending" /\ authed' = None
    /\ UNCHANGED <<cfg, sel, preauth, sessionVars, job, aborted, refused, proc>>

TooManyHalfOpen ==
    /\ ReadsSetup /\ Cardinality(halfOpen) >= MaxHalfOpen
    /\ EndConnection

\* failAuth: an unknown user, or VerifyNTLMv2 or verifyMIC fails.
Type3Fails(s) ==
    /\ ReadsSetup /\ s \in halfOpen
    /\ EndConnection

MarkAuthenticated(s) == halfOpen' = halfOpen \ {s}

\* Mutant: the client is never told to encrypt.
sessFlags_NoEncrypt(u) == [guest |-> u = Guest, encrypt |-> FALSE]

sessFlags(u) ==
    [guest   |-> u = Guest,
     encrypt |-> u # Guest /\ cfg.encryption /\ sel.cipher # None]

\* The previous session of the same user on this connection; the index reaches
\* other connections too (module Handles).
maySupersede(p, u) == p \in table /\ sess[p].authenticated /\ sess[p].user = u

\* handleType3 for a user, or for the guest; the response is queued.
Type3(s, u, p) ==
    LET chain == IF sel.dialect = "3.1.1"
                 THEN Append(sess[s].chain, <<"type 3", s>>) ELSE sess[s].chain
    IN
    /\ ReadsSetup /\ s \in halfOpen
    /\ u = Guest => cfg.guestShare
    /\ p = None \/ maySupersede(p, u)
    /\ sess' = [sess EXCEPT ![s] =
                  [@ EXCEPT !.chain = chain, !.authenticated = TRUE, !.user = u,
                            !.keys = IF u = Guest THEN None
                                     ELSE deriveKeys(sel, u, chain)]]
    /\ MarkAuthenticated(s)
    /\ table' = table \ {p}
    /\ told' = [t \in Sessions |-> IF t = s THEN sessFlags(u)
                                   ELSE IF t = p THEN None ELSE told[t]]
    /\ conn' = IF cfg.worker THEN "hook" ELSE "serving"
    /\ authed' = IF cfg.worker THEN s ELSE None
    /\ UNCHANGED <<cfg, sel, preauth, job, aborted, refused, proc>>

uidOf(s) == UidOf[sess[s].user]

\* decidePrivDrop: only root drops, and not to itself.
decidePrivDrop(euid, uid) == IF euid = Root /\ uid # Root THEN uid ELSE euid

\* Mutant: every authentication is taken for the first.
OnAuthenticated_Forgets ==
    /\ conn = "hook"
    /\ proc' = [euid |-> decidePrivDrop(proc.euid, uidOf(authed)), dropped |-> TRUE,
                droppedUID |-> uidOf(authed)]
    /\ conn' = "serving" /\ authed' = None
    /\ UNCHANGED <<cfg, sel, preauth, sessionVars, job, aborted, refused>>

\* The worker's hook: the uid of the first user is final.
OnAuthenticated ==
    /\ conn = "hook"
    /\ proc.dropped => uidOf(authed) = proc.droppedUID
    /\ proc' = IF proc.dropped THEN proc
               ELSE [euid |-> decidePrivDrop(proc.euid, uidOf(authed)), dropped |-> TRUE,
                     droppedUID |-> uidOf(authed)]
    /\ conn' = "serving" /\ authed' = None
    /\ UNCHANGED <<cfg, sel, preauth, sessionVars, job, aborted, refused>>

SecondUserRefused ==
    /\ conn = "hook" /\ proc.dropped /\ uidOf(authed) # proc.droppedUID
    /\ EndConnection

\* applyPrivDrop fails: setgroups, setresgid or setresuid.
DropFails ==
    /\ conn = "hook" /\ ~proc.dropped
    /\ decidePrivDrop(proc.euid, uidOf(authed)) # proc.euid
    /\ EndConnection

-----------------------------------------------------------------------------
(* Every other message.                                                    *)

\* The client's own computation of the keys of s (MS-SMB2 3.1.4.2).
ClientKeys(s) ==
    IF sel.dialect = "3.1.1"
    THEN [user |-> sess[s].user, dialect |-> "3.1.1",
          bits |-> IF sel.cipher \in {"AES256GCM", "AES256CCM"} THEN 256 ELSE 128,
          chain |-> negotiated \o <<<<"type 1", s>>, <<"challenge", s>>, <<"type 3", s>>>>]
    ELSE [user |-> sess[s].user, dialect |-> sel.dialect, bits |-> 128, chain |-> <<>>]

\* encryptionExempt.
Exempt(cmd) == cmd \in {"CONTROL", "LOGOFF"}

\* The protection the client was told to use.
AsTold(s, cmd, prot) ==
    IF told[s] = None \/ told[s].guest
    THEN prot = "plain"
    ELSE /\ prot # "encrypted" => ~told[s].encrypt \/ Exempt(cmd)
         /\ prot = "plain" => ~cfg.signing

\* The client can protect a message only if it has keys, and a cipher.
CanSend(s, prot) ==
    /\ told[s] # None \/ s \in halfOpen
    /\ prot # "plain" => told[s] # None /\ ~told[s].guest
    /\ prot = "encrypted" => sel.cipher # None

Decrypts(s) == s \in table /\ sess[s].keys = ClientKeys(s)

\* The transform header is taken off on the read goroutine, then the frame is
\* submitted to the pool.
Submit(w, s, cmd, prot) ==
    /\ conn = "serving" /\ ~aborted /\ job[w].at = "free"
    /\ CanSend(s, prot)
    /\ prot = "encrypted" => Decrypts(s)
    /\ job' = [job EXCEPT ![w] = [at |-> "submitted", sess |-> s, cmd |-> cmd,
                                  prot |-> prot, asTold |-> AsTold(s, cmd, prot)]]
    /\ told' = IF cmd = "LOGOFF" THEN [told EXCEPT ![s] = None] ELSE told
    /\ UNCHANGED <<cfg, conn, authed, sel, preauth, table, halfOpen, sess, aborted,
                   refused, proc>>

\* A frame that cannot be decrypted ends the connection.
DecryptFails(s) ==
    /\ conn = "serving" /\ ~aborted
    /\ CanSend(s, "encrypted") /\ ~Decrypts(s)
    /\ conn' = "ending"
    /\ refused' = IF s \in table THEN refused \cup {s} ELSE refused
    /\ UNCHANGED <<cfg, authed, sel, preauth, sessionVars, job, aborted, proc>>

\* The message in w is answered with an error, and may end the connection.
respondError(w, drop) ==
    /\ job' = [job EXCEPT ![w] = FreeJob]
    /\ aborted' = (aborted \/ drop)
    /\ UNCHANGED <<cfg, conn, authed, sel, preauth, sessionVars, proc>>

\* Dispatch, its checks in their order.
NoSession(w) ==
    /\ job[w].at = "submitted" /\ job[w].sess \notin table
    /\ respondError(w, TRUE)
    /\ UNCHANGED refused

Unauthenticated(w) ==
    /\ job[w].at = "submitted" /\ job[w].sess \in table
    /\ ~sess[job[w].sess].authenticated
    /\ respondError(w, TRUE)
    /\ UNCHANGED refused

\* The policy applies to sessions with keys.
Policed(s) == sess[s].authenticated /\ sess[s].keys # None

NeedsEncryption(w) ==
    /\ Policed(job[w].sess) /\ cfg.encryption
    /\ job[w].prot # "encrypted" /\ ~Exempt(job[w].cmd)

BadSignature(w) ==
    /\ Policed(job[w].sess) /\ job[w].prot # "encrypted"
    /\ cfg.signing \/ job[w].prot = "signed"
    /\ job[w].prot # "signed" \/ sess[job[w].sess].keys # ClientKeys(job[w].sess)

PolicyRefuses(w) ==
    /\ job[w].at = "submitted" /\ job[w].sess \in table
    /\ NeedsEncryption(w) \/ BadSignature(w)
    /\ respondError(w, ~NeedsEncryption(w))
    /\ refused' = IF job[w].asTold THEN refused \cup {job[w].sess} ELSE refused

Execute(w) ==
    /\ job[w].at = "submitted" /\ job[w].sess \in table
    /\ sess[job[w].sess].authenticated /\ ~NeedsEncryption(w) /\ ~BadSignature(w)
    /\ job' = [job EXCEPT ![w].at = "executing"]
    /\ UNCHANGED <<cfg, conn, authed, sel, preauth, sessionVars, aborted, refused, proc>>

\* LOGOFF removes its session.
Finish(w) ==
    /\ job[w].at = "executing"
    /\ table' = IF job[w].cmd = "LOGOFF" THEN table \ {job[w].sess} ELSE table
    /\ halfOpen' = IF job[w].cmd = "LOGOFF" THEN halfOpen \ {job[w].sess} ELSE halfOpen
    /\ job' = [job EXCEPT ![w] = FreeJob]
    /\ UNCHANGED <<cfg, conn, authed, sel, preauth, sess, told, aborted, refused, proc>>

\* Another connection of this user authenticates and names s: it goes, whatever
\* is running or still in the socket (module Handles).  Workers share no index.
Superseded(s) ==
    /\ ~cfg.worker /\ conn \notin {"negotiate", "upgraded", "closed"}
    /\ s \in table /\ sess[s].authenticated
    /\ table' = table \ {s}
    /\ UNCHANGED <<cfg, conn, authed, sel, preauth, halfOpen, sess, told, job, aborted,
                   refused, proc>>

-----------------------------------------------------------------------------
\* The peer closes, stays silent too long, or a handler aborted.
LoopEnds ==
    /\ conn = "serving"
    /\ EndConnection

Closed ==
    /\ conn = "ending" /\ drained
    /\ conn' = "closed"
    /\ UNCHANGED <<cfg, sel, preauth, servingVars>>

Terminated == conn = "closed" /\ UNCHANGED vars

Next ==
    \/ Upgrade \/ \E o \in Offers : Negotiate(o) \/ NegotiateFails(o)
    \/ TooManyHalfOpen \/ LoopEnds \/ Closed \/ Terminated
    \/ OnAuthenticated \/ SecondUserRefused \/ DropFails
    \/ \E s \in Sessions :
         \/ Type1(s) \/ Type3Fails(s) \/ DecryptFails(s) \/ Superseded(s)
         \/ \E u \in Users \cup {Guest}, p \in Sessions \cup {None} : Type3(s, u, p)
         \/ \E w \in Workers, cmd \in Commands, prot \in Protections :
              Submit(w, s, cmd, prot)
    \/ \E w \in Workers : \/ NoSession(w) \/ Unauthenticated(w) \/ PolicyRefuses(w)
                          \/ Execute(w) \/ Finish(w)

Spec == Init /\ [][Next]_vars

-----------------------------------------------------------------------------
(* Properties.                                                             *)

\* Client and server hold the same keys for every session, however its
\* handshake interleaved with others: the chain forks in handleType1, "so a
\* second session on this connection is not salted with the first one's
\* SESSION_SETUP messages" (session.go 664-672), and the cipher keys have the
\* length the cipher needs (session.go 744-757).
KeysAgree ==
    \A s \in Sessions : sess[s].authenticated /\ sess[s].user # Guest =>
        sess[s].keys = ClientKeys(s)

\* A message protected the way SESSION_SETUP and NEGOTIATE told the client is
\* never refused by the policy (session.go 489-495, 811-821).
ConformingClientServed == refused = {}

\* A privilege-drop worker runs every request as the user its session belongs
\* to; a second user is refused although its SESSION_SETUP has already been
\* answered with success (worker.go 365-383).
ServedAsOwner ==
    cfg.worker => \A w \in Workers :
        job[w].at = "executing" => uidOf(job[w].sess) = proc.euid
=============================================================================
