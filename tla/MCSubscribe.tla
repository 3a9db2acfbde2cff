---------------------------- MODULE MCSubscribe ----------------------------
(* An instance of Subscribe: a second call, which is not a stream, competes*)
(* for the one spot; three Sets can make, delete and make again a leaf.    *)
EXTENDS Subscribe
CONSTANTS s1, s2

MCAsks == [s \in Calls |-> IF s = s1 THEN Modes ELSE {"UNRECOGNIZED"}]
============================================================================
