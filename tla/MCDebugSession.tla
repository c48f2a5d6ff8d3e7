--------------------------- MODULE MCDebugSession ---------------------------
(* A small instance of DebugSession.                                       *)
EXTENDS DebugSession

CONSTANTS core1, core2, ctm, w1, br

At(o) == [ctm |-> TRUE, hi |-> 0, off |-> o]
Bps == {At(1), At(2)}
Writes == {[ctm |-> TRUE, off |-> 1, len |-> 2]}

Do(a, k) == [action |-> a, core |-> k]
\* stepi on one core; continue of the other, and of both in one packet.
Plans == {<<Do("s", core1)>>, <<Do("c", core2)>>, <<Do("c", core1), Do("c", core2)>>}
=============================================================================
