----------------------------- MODULE MCPageWalk ------------------------------
(* The frames of PageWalk's pages: scattered, and in another order than the   *)
(* addresses.                                                                 *)
EXTENDS PageWalk
Frames == [n \in 0 .. 2 |-> IF n = 1 THEN 6 ELSE 10 - n]
==============================================================================
