---------------------------- MODULE MCShareModes ----------------------------
(* ShareModes on three handles and two connections.                        *)
EXTENDS ShareModes, TLC

CONSTANTS o1, o2, o3, c1, c2

MCOpens == {o1, o2, o3}
MCConns == {c1, c2}
MCConnOf == o1 :> c1 @@ o2 :> c1 @@ o3 :> c2

\* A reader that shares everything, the
\* deny-all delete macOS sends, and an attribute-only open with a deny-all mask.
Reader == [desired |-> {"ReadData"}, share |-> {"read", "write", "delete"}]
Deleter == [desired |-> {"Delete"}, share |-> {}]
Stat == [desired |-> {"ReadAttributes", "Synchronize"}, share |-> {}]

TwoRequests == {Reader, Deleter}
ThreeRequests == {Reader, Deleter, Stat}
=============================================================================
