------------------------------- MODULE Listing -------------------------------
(***************************************************************************)
(* What a client that lists a directory is promised.  A listing starts     *)
(* with a set of entries and hands them out in batches.  No entry is       *)
(* handed out twice, and none is left out unless it has gone from the      *)
(* directory since; the listing is only over when nothing is left.         *)
(***************************************************************************)
VARIABLES
    pending,   \* entries still to be handed out
    given,     \* entries handed out
    steady,    \* entries that have been in the directory all along
    over       \* the last answer said that there are no more

lvars == <<pending, given, steady, over>>

Init ==
    /\ pending = {} /\ given = {} /\ steady = {}
    /\ over = FALSE

\* A client starts, or starts again.
Start ==
    /\ given' = {} /\ over' = FALSE
    /\ steady' \subseteq pending'

\* A batch goes out; entries that have vanished are passed over.
HandOut ==
    /\ ~over' /\ steady' = steady
    /\ pending' \subseteq pending
    /\ \E batch \in SUBSET (pending \ pending') :
          /\ given' = given \cup batch
          /\ given \cap batch = {}
          /\ (pending \ pending') \cap steady \subseteq batch

\* An entry leaves the directory.
Vanish ==
    /\ steady' \subseteq steady
    /\ UNCHANGED <<pending, given, over>>

\* "No more": what was left, if anything, has gone from the directory.
Finish ==
    /\ over'
    /\ pending' = {} /\ pending \cap steady = {}
    /\ UNCHANGED <<given, steady>>

Next == Start \/ HandOut \/ Vanish \/ Finish

Spec == Init /\ [][Next]_lvars
=============================================================================
