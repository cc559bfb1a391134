---------------------------- MODULE MCEnumeration ----------------------------
(* A directory of up to three names.                                        *)
EXTENDS Enumeration

\* U+212A KELVIN SIGN is "Kel", e with an acute accent "E'" composed and
\* <<"e", "'">> decomposed; ReadDir sorts by bytes.
MCAscii == {"a", "A", "b", "k", "K", "e", ".", ":"}
MCMinRune == [r \in MCAscii \cup {"'", "E'", "Kel"} |->
                CASE r = "a" -> "A" [] r \in {"k", "Kel"} -> "K" [] OTHER -> r]
MCSingle == [r \in {"Kel"} |-> "K"]
MCComposed == [pair \in {<<"e", "'">>} |-> "E'"]

MCOrder == <<<<"A">>, <<"a", ":">>, <<"Kel">>>>

Req(p, r, s, c, m) == [pattern |-> p, restart |-> r, single |-> s, class |-> c, max |-> m]

\* Buffers for a dot, for two records and for everything.
MCQueries ==
    {Req(<<>>, FALSE, FALSE, "full", 20), Req(<<"?", "*">>, TRUE, FALSE, "full", 6),
     Req(<<"k">>, TRUE, TRUE, "full", 20), Req(<<"a">>, FALSE, FALSE, "names", 2),
     Req(<<"E'">>, FALSE, FALSE, "unsupported", 30)}

MCFixedSize == [c \in {"names", "full"} |-> IF c = "names" THEN 1 ELSE 2]

ASSUME MCFoldsAgree == FoldsAgree

\* Every pattern and every name of up to three runes, with a rune of each kind.
Words(S, n) == UNION {[1..k -> S] : k \in 0..n}

ASSUME MatcherAgrees ==
    \A name \in Words({"a", "A", "b"}, 3), cs \in BOOLEAN :
        \A pattern \in Words({"a", "b", "*", "?"}, 3) :
            matchSMBPattern(pattern, name, cs) <=> Matches(pattern, name, cs)
=============================================================================
