----------------------------- MODULE MCNamespace -----------------------------
(* A file, a symlink to it and a free name.                                   *)
EXTENDS Namespace, TLC

CONSTANTS file, link, other, f, l, i1, i2

MCFirstDir == (file :> f) @@ (link :> l) @@ (other :> None)
MCFirstKind == (f :> "file") @@ (l :> "link") @@ (i1 :> "free") @@ (i2 :> "free")
MCPointsTo == (l :> file) @@ (f :> None) @@ (i1 :> None) @@ (i2 :> None)

ask(n, s, d, w, wr, doc) ==
    [name |-> n, stream |-> s, disp |-> d, want |-> w, write |-> wr, doc |-> doc]

\* Opens by the link and by the file, with and without DELETE_ON_CLOSE; the
\* dispositions; a directory; both streams.
MCRequests ==
    {ask(n, None, "open", {}, TRUE, FALSE) : n \in {file, link}} \cup
    { ask(file, None, "open", {"file"}, FALSE, TRUE),
      ask(other, None, "openif", {"dir"}, FALSE, FALSE),
      ask(other, None, "create", {"file"}, TRUE, FALSE),
      ask(other, None, "overwriteif", {"dir"}, TRUE, FALSE),
      ask(link, None, "overwrite", {}, TRUE, FALSE),
      ask(other, None, "overwriteif", {}, TRUE, FALSE),
      ask(file, Afp, "open", {}, FALSE, FALSE),
      ask(file, Afp, "overwriteif", {}, TRUE, FALSE),
      ask(link, "tags", "openif", {}, FALSE, FALSE) }

\* The handles of the writable share are interchangeable.
MCSymmetry == Permutations(Handles \ ReadOnly)
=============================================================================
