---------------------------- MODULE MCHandles ----------------------------
(* Handles on two connections with one session each.                       *)
EXTENDS Handles, TLC

CONSTANTS c1, c2, s1, s2, u

MCConns == {c1, c2}
MCSessions == {s1, s2}
MCHostOf == s1 :> c1 @@ s2 :> c2
MCUserOf == [s \in MCSessions |-> u]

\* Workers, files and directories are interchangeable in every safety run.
MCSymmetry == Permutations(Workers) \cup Permutations(Opens \ Dirs) \cup Permutations(Dirs)

\* A behaviour is followed up to the first use of a handle without its lock.
UntilUnlocked == ~unlocked
=============================================================================
