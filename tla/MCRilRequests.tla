--------------------------- MODULE MCRilRequests ---------------------------
(* Small instances of RilRequests.                                         *)
EXTENDS RilRequests, TLC

CONSTANTS b1, b2, v1, v2, a1, a2, m1

Framework == [local |-> FALSE, converts |-> TRUE, handled |-> TRUE]
LocalInts == [local |-> TRUE, converts |-> TRUE, handled |-> TRUE]
Unhandled == [local |-> FALSE, converts |-> FALSE, handled |-> FALSE]

MCKinds == {Framework, LocalInts, Unhandled}
MCConverting == {Framework, LocalInts}
Threads == Permutations({b1, b2}) \cup Permutations({v1, v2})
             \cup Permutations({a1, a2})
=============================================================================
