-------------------------- MODULE MCByteRangeLocks --------------------------
(* Two handles on a file.                                                  *)
EXTENDS ByteRangeLocks, TLC

CONSTANTS j1, j2, h1, h2

MCHandles == {h1, h2}
OnePerHandle == j1 :> h1 @@ j2 :> h2

El(s, l, k, w) == [start |-> s, length |-> l, kind |-> k, wait |-> w]

\* Byte 0, byte 1, and "from byte 1 to the end", whose end wraps around.  The
\* two-element requests ask in opposite orders; one fails at once.
TwoBytes ==
    {<<El(0, 1, "exclusive", TRUE)>>,
     <<El(1, 3, "shared", TRUE)>>,
     <<El(0, 1, "exclusive", TRUE), El(1, 1, "exclusive", TRUE)>>,
     <<El(1, 1, "exclusive", TRUE), El(0, 1, "shared", FALSE)>>,
     <<El(0, 1, "unlock", FALSE)>>,
     <<El(1, 1, "unlock", FALSE), El(1, 0, "exclusive", TRUE)>>,
     <<El(1, 3, "unlock", FALSE)>>}
=============================================================================
