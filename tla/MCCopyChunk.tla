------------------------------ MODULE MCCopyChunk ------------------------------
(* Three handles of one session on two files, and one of another session that *)
(* may take a freed descriptor number.                                        *)
EXTENDS CopyChunk

CONSTANTS src, dst, twin, late, one, two, fileA, fileB, fileC

MCSessOf == (src :> one) @@ (dst :> one) @@ (twin :> one) @@ (late :> two)
MCFileOf == (src :> fileA) @@ (dst :> fileB) @@ (twin :> fileA) @@ (late :> fileC)
MCGrants == (src :> {"read"}) @@ (dst :> {"write"})
                @@ (twin :> {"read", "write"}) @@ (late :> {"read"})
MCContents == (fileA :> <<"a1", "a2", "a3">>) @@ (fileB :> <<"b1">>)
                @@ (fileC :> <<"c1", "c2">>)
MCEarly == {src, dst, twin}

ch(s, t, n) == [source |-> s, target |-> t, length |-> n]

\* Two chunks that fit (and meet when both handles are on one file), one that
\* runs past the source, one whose target cannot be addressed, one too many.
MCRequests ==
    { <<ch(0, 1, 2), ch(2, 0, 1)>>,
      <<ch(0, 2, 1), ch(2, 1, 2)>>,
      <<ch(0, 2, 1), ch(1, 4, 2)>>,
      <<ch(0, 0, 1), ch(1, 1, 1), ch(2, 2, 1)>> }
=============================================================================
