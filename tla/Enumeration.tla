----------------------------- MODULE Enumeration -----------------------------
(***************************************************************************)
(* QUERY_DIRECTORY on one directory handle, while the directory changes:   *)
(* the snapshot and its cursor (dispatch.go), the pattern matcher          *)
(* (wildcard.go), the probe of the case sensitivity of a share (aapl.go)   *)
(* and the lookup a CREATE makes of a name it was told of (vfs/norm.go).   *)
(*                                                                         *)
(* The frame of a QUERY_DIRECTORY holds Open.mu exclusively, so one runs   *)
(* at a time.  Between two of its system calls anything may happen to the  *)
(* directory: every ReadDir and every lstat is a step of its own.          *)
(***************************************************************************)
EXTENDS Integers, Sequences, FiniteSets, SequencesExt

CONSTANTS
    Order,       \* every name that may be on disk, in the order of ReadDir
    Queries,     \* the QUERY_DIRECTORYs clients send
    MinRune,     \* unicode.SimpleFold: the least rune of each rune's orbit
    Single,      \* runes that canonically decompose to one other rune
    Composed,    \* pairs of runes that compose to one
    Ascii,       \* the runes below utf8.RuneSelf
    FixedSize,   \* class -> units of 8 bytes a record takes besides its name
    MaxIOSize,   \* the negotiated MaxTransactSize, in units of 8 bytes
    MaxScans,    \* bound: listings a client starts
    MaxChanges   \* bound: changes to the directory

\* A name is a sequence of runes.
FileNames == ToSet(Order)
Dot == <<".">>
DotDot == <<".", ".">>

\* FILE_NAMES_INFORMATION, the classes that need a stat, and the others.
Classes == {"names", "full", "unsupported"}

Patterns == {r.pattern : r \in Queries}

ASSUME EnumerationConstants ==
    /\ Order \in Seq(Range(Order)) /\ IsInjective(Order)
    /\ {<<>>, Dot, DotDot} \cap FileNames = {}
    /\ \A n \in FileNames : n \in Seq(Range(n))
    /\ FixedSize \in [Classes \ {"unsupported"} -> Nat]
    /\ MaxIOSize \in Nat /\ MaxScans \in Nat /\ MaxChanges \in Nat
    /\ \A r \in Queries : /\ r.pattern \in Seq(Range(r.pattern))
                          /\ r.class \in Classes /\ r.max \in Nat

-----------------------------------------------------------------------------
(* Runes and names.                                                        *)

FoldRune(r) == MinRune[r]

\* The same equivalence, from the matcher's side.
foldEqual(a, b) == a = b \/ MinRune[a] = MinRune[b]

\* golang.org/x/text/unicode/norm (external).
Decompose(r) ==
    IF r \in DOMAIN Single THEN <<Single[r]>>
    ELSE IF \E q \in DOMAIN Composed : Composed[q] = r
         THEN CHOOSE q \in DOMAIN Composed : Composed[q] = r
         ELSE <<r>>

NFD(s) == FlattenSeq([i \in 1..Len(s) |-> Decompose(s[i])])

NFC(s) ==
    LET add(acc, r) ==
            IF acc # <<>> /\ <<Last(acc), r>> \in DOMAIN Composed
            THEN Append(Front(acc), Composed[<<Last(acc), r>>])
            ELSE Append(acc, r)
    IN  FoldLeft(add, <<>>, NFD(s))

FoldName(s) == [i \in 1..Len(s) |-> FoldRune(s[i])]

\* What flipASCIICase changes.
Letters == {r \in Ascii : \E s \in Ascii \ {r} : MinRune[s] = MinRune[r]}

foldKey(s) == FoldName(NFC(s))

-----------------------------------------------------------------------------
(* The matcher: two pointers and one place to come back to.                *)

same(a, b, caseSensitive) == a = b \/ (~caseSensitive /\ foldEqual(a, b))

\* One turn of the loop of matchSMBPattern, with name left to match: a star,
\* a rune that agrees, or the way back to just after the last star, which
\* takes one more rune of the name.
scanStep(pattern, name, cs, at) ==
    IF at.p <= Len(pattern) /\ pattern[at.p] = "*"
    THEN [at EXCEPT !.p = @ + 1, !.starP = at.p + 1, !.starN = at.n]
    ELSE IF at.p <= Len(pattern)
            /\ (pattern[at.p] = "?" \/ same(pattern[at.p], name[at.n], cs))
    THEN [at EXCEPT !.p = @ + 1, !.n = @ + 1]
    ELSE IF at.starP = 0
    THEN [at EXCEPT !.fail = TRUE]
    ELSE [at EXCEPT !.p = at.starP, !.n = at.starN + 1, !.starN = @ + 1]

\* The loop ends at a mismatch, at the end of the name, or early at a trailing
\* star.
scanStart == [p |-> 1, n |-> 1, starP |-> 0, starN |-> 0, fail |-> FALSE]

scanDone(pattern, name, at) ==
    at.fail \/ at.n > Len(name) \/ (at.starP = at.p /\ at.p = Len(pattern) + 1)

\* More turns than the loop can take.
Turns(pattern, name) == (Len(pattern) + 1) * (Len(name) + 2)

scan(pattern, name, cs) ==
    LET loop[t \in 0..Turns(pattern, name)] ==
            IF t = 0 THEN scanStart
            ELSE LET at == loop[t - 1]
                 IN  IF scanDone(pattern, name, at) THEN at
                     ELSE scanStep(pattern, name, cs, at)
    IN  loop[Turns(pattern, name)]

\* The loop to its end, and what is left of the pattern after it.
matchSMBPattern(pattern, name, cs) ==
    LET end == scan(pattern, name, cs) IN
    \/ pattern \in {<<>>, <<"*">>}
    \/ /\ scanDone(pattern, name, end) /\ ~end.fail
       /\ \A i \in end.p..Len(pattern) : pattern[i] = "*"

\* The verdicts of the matcher on the names of the directory.
Verdicts ==
    {v \in Patterns \X (FileNames \cup {Dot, DotDot}) \X BOOLEAN :
        matchSMBPattern(v[1], v[2], v[3])}

\* What a pattern means: the name falls into consecutive pieces, one for each
\* rune of the pattern, of any length for a star and of length one otherwise.
Matches(pattern, name, cs) ==
    \/ pattern = <<>>
    \/ \E cut \in [0..Len(pattern) -> 0..Len(name)] :
          /\ cut[0] = 0 /\ cut[Len(pattern)] = Len(name)
          /\ \A i \in 1..Len(pattern) :
                IF pattern[i] = "*" THEN cut[i - 1] <= cut[i]
                ELSE /\ cut[i] = cut[i - 1] + 1
                     /\ pattern[i] = "?" \/ same(pattern[i], name[cut[i]], cs)

\* The elements of a sequence that are in a set, in their order: a loop that
\* appends what it keeps.
only(seq, set) ==
    LET kept[i \in 0..Len(seq)] ==
            IF i = 0 THEN <<>>
            ELSE IF seq[i] \in set THEN Append(kept[i - 1], seq[i])
            ELSE kept[i - 1]
    IN  kept[Len(seq)]

Literal(pattern) == \A i \in 1..Len(pattern) : pattern[i] \notin {"*", "?"}

Hidden(name) == \E i \in 1..Len(name) : name[i] = ":"

-----------------------------------------------------------------------------
VARIABLES
    fsFolds,     \* the file system ignores case itself
    disk,        \* the names in the directory
    there,       \* Open.Path still names the directory
    probe,       \* caseProbe of the share
    raced,       \* the name the probe looked at changed under it
    dirEntries,  \* Open.dirEntries; NoScan is nil
    dirSent,     \* Open.dirSent
    q,           \* the QUERY_DIRECTORY in progress
    got,         \* the names the client got in this listing
    steady,      \* the names this listing is about that never left the disk
    listing,     \* the pattern and case rule of this listing
    ans,         \* the status of the last answer
    scans,       \* listings started
    changes      \* changes to the directory

enumVars == <<fsFolds, disk, there, probe, raced, dirEntries, dirSent, q, got, steady,
              listing, ans, scans, changes>>

queryVars == <<dirEntries, dirSent, q, got, steady, listing, ans, scans>>
diskVars == <<fsFolds, disk, there, raced, changes>>

NoScan == <<<<>>>>   \* no name is empty
Idle == [at |-> "idle"]

\* One file, to the file system.
sameFile(a, b) == a = b \/ (fsFolds /\ FoldName(a) = FoldName(b))

EnumInit ==
    /\ fsFolds \in BOOLEAN
    /\ disk \in SUBSET FileNames /\ there = TRUE /\ changes = 0
    /\ \A m, n \in disk : sameFile(m, n) => m = n
    /\ probe = [at |-> "none"] /\ raced = FALSE
    /\ dirEntries = NoScan /\ dirSent = 0
    /\ q = Idle /\ got = <<>> /\ steady = {}
    /\ listing = [pattern |-> <<>>, cs |-> FALSE] /\ ans = "none" /\ scans = 0

-----------------------------------------------------------------------------
(* The directory (external).                                               *)

leafExists(leaf) == there /\ \E n \in disk : sameFile(n, leaf)

ReadDir == only(Order, disk)

\* A change during a probe that concerns the name it looks at.
Disturbs(n) == probe.at = "second" /\ FoldName(n) = FoldName(probe.name)

change == changes < MaxChanges /\ changes' = changes + 1

AddName(n) ==
    /\ ~\E m \in disk : sameFile(m, n)
    /\ disk' = disk \cup {n} /\ change
    /\ raced' = (raced \/ Disturbs(n))
    /\ UNCHANGED <<fsFolds, there, probe, queryVars>>

RemoveName(n) ==
    /\ n \in disk
    /\ disk' = disk \ {n} /\ change
    /\ steady' = steady \ {n}
    /\ q' = IF q.at = "stat" THEN [q EXCEPT !.steady = @ \ {n}] ELSE q
    /\ raced' = (raced \/ Disturbs(n))
    /\ UNCHANGED <<fsFolds, there, probe, dirEntries, dirSent, got, listing, ans, scans>>

\* Somebody renames the directory for good; the handle keeps its path.
MoveAway ==
    /\ there
    /\ there' = FALSE /\ change
    /\ steady' = {}
    /\ q' = IF q.at = "stat" THEN [q EXCEPT !.steady = {}] ELSE q
    /\ UNCHANGED <<fsFolds, disk, probe, raced, dirEntries, dirSent, got, listing, ans,
                   scans>>

-----------------------------------------------------------------------------
(* The probe, once for the share.                                          *)

settled == probe.at = "done"

answerProbe(sensitive, measured) ==
    probe' = [at |-> "done", sensitive |-> sensitive, measured |-> measured]

\* A fresh file answers for certain.
probeCaseByCreate ==
    /\ probe.at = "none"
    /\ answerProbe(~fsFolds, TRUE)
    /\ UNCHANGED <<diskVars, queryVars>>

\* The share cannot be written: an entry with a letter is looked up as it is and
\* with its case swapped.  If its name changes in between, either answer may
\* come out.
probeFirst ==
    /\ probe.at = "none" /\ there
    /\ \E n \in disk :
          /\ \E i \in 1..Len(n) : n[i] \in Letters
          /\ probe' = [at |-> "second", name |-> n]
    /\ UNCHANGED <<diskVars, queryVars>>

probeSecond ==
    /\ probe.at = "second"
    /\ \E sensitive \in IF raced THEN BOOLEAN ELSE {~fsFolds} : answerProbe(sensitive, TRUE)
    /\ UNCHANGED <<diskVars, queryVars>>

\* Nothing usable: the conservative answer, marked as a guess.
probeFails ==
    /\ probe.at = "none"
    /\ answerProbe(FALSE, FALSE)
    /\ UNCHANGED <<diskVars, queryVars>>

shareCaseSensitive == probe.sensitive

\* Mutant: whoever reports insensitive leaves the folding to the file system.
shareFoldsCase_Never == FALSE

shareFoldsCase == ~probe.sensitive /\ ~probe.measured

-----------------------------------------------------------------------------
(* The lookup of a leaf by CREATE, on the disk as it is.                   *)

\* The spellings of a name that are canonically the same, for a name of ASCII
\* runes only.
asciiFoldVariants(leaf) ==
    IF \A i \in 1..Len(leaf) : leaf[i] \in Ascii
    THEN {n \in FileNames : NFC(n) = leaf /\ n # leaf}
    ELSE {}

exhaustive(leaf) == \A i \in 1..Len(leaf) : leaf[i] \in Ascii

ResolveNorm(leaf) ==
    \/ \E v \in {leaf, NFC(leaf), NFD(leaf)} \cup asciiFoldVariants(leaf) : leafExists(v)
    \/ /\ ~exhaustive(leaf) \/ shareFoldsCase
       /\ there
       /\ \E n \in disk : IF shareFoldsCase THEN foldKey(n) = foldKey(leaf)
                          ELSE NFC(n) = NFC(leaf)

-----------------------------------------------------------------------------
(* QUERY_DIRECTORY.                                                        *)

answer(status) == ans' = status /\ q' = Idle

supportedDirInfoClass(c) == c \in DOMAIN FixedSize

\* The request is read; a buffer or a class the server does not serve is
\* refused before anything is enumerated.
QueryDirectory(r) ==
    /\ q.at = "idle"
    /\ IF r.max > MaxIOSize \/ ~supportedDirInfoClass(r.class)
       THEN answer("refused")
       ELSE /\ UNCHANGED ans
            /\ IF r.restart \/ dirEntries = NoScan
               THEN scans < MaxScans /\ q' = [at |-> "scan", req |-> r]
               ELSE q' = [at |-> "serve", req |-> r]
    /\ UNCHANGED <<diskVars, probe, dirEntries, dirSent, got, steady, listing, scans>>

\* os.ReadDir.
Scan ==
    /\ q.at = "scan"
    /\ IF there
       THEN q' = [at |-> "stat", req |-> q.req, all |-> ReadDir, steady |-> disk]
            /\ UNCHANGED ans
       ELSE answer("gone")
    /\ UNCHANGED <<diskVars, probe, dirEntries, dirSent, got, steady, listing, scans>>

\* Mutant: the filter ignores what the probe found.
filtered_AlwaysFolds(all, pattern) ==
    only(all, {n \in ToSet(all) : ~Hidden(n) /\ <<pattern, n, FALSE>> \in Verdicts})

filtered(all, pattern) ==
    only(all, {n \in ToSet(all) :
                ~Hidden(n) /\ <<pattern, n, shareCaseSensitive>> \in Verdicts})

\* "." and ".." are put in front when they can be stat'ed, and the pattern is
\* applied.
Filter ==
    /\ q.at = "stat" /\ settled
    /\ \E dots \in IF there THEN {<<Dot, DotDot>>} ELSE {<<DotDot>>, <<>>} :
          dirEntries' = filtered(dots \o q.all, q.req.pattern)
    /\ dirSent' = 0
    /\ q' = [at |-> "serve", req |-> q.req]
    /\ got' = <<>>
    /\ steady' = {n \in q.steady : ~Hidden(n) /\ Matches(q.req.pattern, n, shareCaseSensitive)}
    /\ listing' = [pattern |-> q.req.pattern, cs |-> shareCaseSensitive]
    /\ ans' = "none" /\ scans' = scans + 1
    /\ UNCHANGED <<diskVars, probe>>

\* The answers that need no record, or the first turn of the loop.
Serve ==
    /\ q.at = "serve"
    /\ \/ dirEntries = <<>> /\ answer("noSuchFile")
       \/ dirEntries # <<>> /\ dirSent >= Len(dirEntries) /\ answer("noMoreFiles")
       \/ /\ dirSent < Len(dirEntries)
          /\ q' = [at |-> "encode", class |-> q.req.class, max |-> q.req.max, out |-> 0,
                   limit |-> IF q.req.single THEN 1 ELSE Len(dirEntries) - dirSent,
                   i |-> dirSent, consumed |-> 0, batch |-> <<>>]
          /\ UNCHANGED ans
    /\ UNCHANGED <<diskVars, probe, dirEntries, dirSent, got, steady, listing, scans>>

-----------------------------------------------------------------------------
(* encodeDirEntriesLimited.                                                *)

entry == dirEntries[q.i + 1]
encoded == Len(q.batch)

\* A record costs its fixed part and its name.
price == FixedSize[q.class] + Len(entry)

looping == q.at = "encode" /\ q.i < Len(dirEntries) /\ encoded < q.limit

fits == q.out + price <= q.max

\* Info(): the synthetic entries carry theirs, the others are stat'ed now;
\* FileNamesInformation needs none.
statable == q.class = "names" \/ entry \in {Dot, DotDot} \/ leafExists(entry)

EncodeEntry ==
    /\ looping /\ fits /\ statable
    /\ q' = [q EXCEPT !.i = @ + 1, !.out = @ + price, !.batch = Append(@, entry),
                      !.consumed = q.i + 1 - dirSent]
    /\ UNCHANGED <<diskVars, probe, dirEntries, dirSent, got, steady, listing, ans, scans>>

\* Mutant: an entry that vanished does not count as consumed.
SkipEntry_NotCounted ==
    /\ looping /\ fits /\ ~statable
    /\ q' = [q EXCEPT !.i = @ + 1]
    /\ UNCHANGED <<diskVars, probe, dirEntries, dirSent, got, steady, listing, ans, scans>>

\* The entry vanished: no record, but the cursor passes it.
SkipEntry ==
    /\ looping /\ fits /\ ~statable
    /\ q' = [q EXCEPT !.i = @ + 1, !.consumed = q.i + 1 - dirSent]
    /\ UNCHANGED <<diskVars, probe, dirEntries, dirSent, got, steady, listing, ans, scans>>

\* Mutant: the cursor follows the records instead of the entries.
advance_ByRecords == encoded

advance == q.consumed

emptyAnswer ==
    IF dirSent + advance >= Len(dirEntries) THEN "noMoreFiles" ELSE "lengthMismatch"

\* Nothing more fits, or nothing is left: the cursor advances and the answer
\* goes out.
AnswerEntries ==
    /\ q.at = "encode" /\ ~(looping /\ fits)
    /\ dirSent' = dirSent + advance
    /\ got' = got \o q.batch
    /\ answer(IF encoded = 0 THEN emptyAnswer ELSE "success")
    /\ UNCHANGED <<diskVars, probe, dirEntries, steady, listing, scans>>

-----------------------------------------------------------------------------
Environment ==
    \/ \E n \in FileNames : AddName(n) \/ RemoveName(n)
    \/ MoveAway

Probe == probeCaseByCreate \/ probeFirst \/ probeSecond \/ probeFails

Query == \E r \in Queries : QueryDirectory(r)

Handler == Scan \/ Filter \/ Serve \/ EncodeEntry \/ SkipEntry \/ AnswerEntries

EnumNext == Environment \/ Probe \/ Query \/ Handler

EnumSpec == EnumInit /\ [][EnumNext]_enumVars

\* A client that lists a directory goes on asking, now and then with the
\* largest buffer.
AskOn ==
    \E r \in Queries :
        ~r.restart /\ r.max = MaxIOSize /\ r.class = "full" /\ QueryDirectory(r)

EnumFairSpec == EnumSpec /\ WF_enumVars(Probe) /\ WF_enumVars(Handler) /\ SF_enumVars(AskOn)

-----------------------------------------------------------------------------
(* Properties.                                                             *)

\* The snapshot of a listing holds exactly the visible names the client's
\* pattern means, under the case rule of the share, as the directory was when
\* it was read: the two-pointer matcher agrees with what a pattern means.
EntriesMatch ==
    dirEntries # NoScan =>
        /\ \A i \in 1..Len(dirEntries) :
              Matches(listing.pattern, dirEntries[i], listing.cs) /\ ~Hidden(dirEntries[i])
        /\ \A i, j \in 1..Len(dirEntries) : dirEntries[i] = dirEntries[j] => i = j
        /\ \A n \in steady : n \in ToSet(dirEntries)

\* A name that QUERY_DIRECTORY would show for a plain pattern can be opened
\* under that spelling: matcher and resolver never disagree about case, unless
\* the probe was raced by a change of the very name it looked at.
ListedIsResolvable ==
    settled /\ ~raced /\ there =>
        \A p \in Patterns :
            /\ p # <<>> /\ Literal(p)
            /\ \E n \in disk : ~Hidden(n) /\ matchSMBPattern(p, n, shareCaseSensitive)
            => ResolveNorm(p)

\* Folding the runes of two names before composing them or after comes to the
\* same.  Unicode has few exceptions: U+0345 folds to iota, but composes with
\* the letter before it.
FoldsAgree ==
    \A n \in FileNames, p \in Patterns :
        Literal(p) /\ FoldName(n) = FoldName(p) => foldKey(n) = foldKey(p)

\* The listing a client sees is the one it is promised: over any number of
\* requests, of any size, no entry comes twice, none is left out that stayed in
\* the directory, and NO_MORE_FILES means it.
Promised ==
    INSTANCE Listing WITH
        pending <- IF dirEntries = NoScan THEN {}
                   ELSE ToSet(SubSeq(dirEntries, dirSent + 1, Len(dirEntries))),
        given <- ToSet(got),
        over <- ans = "noMoreFiles"

ImplementsListing == Promised!Spec

\* A listing comes to its end however the directory changes: a client that
\* goes on asking is told NO_MORE_FILES (or NO_SUCH_FILE) unless it starts over.
ListingEnds ==
    \A k \in 1..MaxScans :
        scans = k ~> (scans # k \/ ans \in {"noMoreFiles", "noSuchFile", "gone"})
=============================================================================
