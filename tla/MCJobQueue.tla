------------------------------ MODULE MCJobQueue ------------------------------
(* A small instance of JobQueue in the proportions of the program: a lease *)
(* of 45 s, handlers of 30 s, up to 10 s of waiting for a pooled connection *)
(* before the claim.  MCHandled overlaps a build without the handler with  *)
(* one that has it.                                                        *)
EXTENDS JobQueue

CONSTANTS j1, w1, w2

MCJob == {j1}
MCWorker == {w1, w2}
MCHandled == [w \in MCWorker |-> IF w = w1 THEN {} ELSE MCJob]
===============================================================================
