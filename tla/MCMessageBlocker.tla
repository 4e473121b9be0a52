-------------------------- MODULE MCMessageBlocker --------------------------
(* Small instances of MessageBlocker for TLC.                              *)
EXTENDS MessageBlocker

CONSTANTS r1, r2, r3

(* All requests have the same timeout, or different ones; 0 wraps around.  *)
AllTwo == [r \in Requests |-> 2]
Mixed == [r \in Requests |-> CASE r = r1 -> 1 [] r = r2 -> 2 [] OTHER -> 0]
=============================================================================
