-------------------------- MODULE MCAsyncRequests --------------------------
(* A watch on a directory and a blocking lock on a file.                   *)
EXTENDS AsyncRequests, TLC

CONSTANTS n1, l1, d, f

MCRequests == {n1, l1}
MCHandles == {d, f}
MCTargetOf == n1 :> d @@ l1 :> f
=============================================================================
