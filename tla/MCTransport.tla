---------------------------- MODULE MCTransport ----------------------------
(* Transport with the chains that matter.                                  *)
EXTENDS Transport

CONSTANTS s1, s2

one(cmd, s) == [cmd |-> cmd, sess |-> s, related |-> FALSE, previous |-> FALSE]
then(cmd, s) == [cmd |-> cmd, sess |-> s, related |-> TRUE, previous |-> TRUE]

\* The chain macOS sends for almost everything.
OpenUseClose == <<one("create", s1), then("op", s1), then("close", s1)>>

Watch == <<one("park", s1)>>

\* A member whose answer drops the connection.
Drop == <<one("fatal", s2)>>

Logon == <<one("cancel", s1), one("setup", s2), one("op", s2), one("garbled", s2)>>

clear(c) == [chain |-> c, sealed |-> NoSession]

sealed(c) == [chain |-> c, sealed |-> s1]

MCInbound == <<{clear(OpenUseClose), sealed(Watch)}, {sealed(Drop), clear(Drop), clear(Logon)}>>
=============================================================================
