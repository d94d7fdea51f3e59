---------------------------- MODULE MCRingQueue ------------------------------
(***************************************************************************)
(* TLC instance of RingQueue: two objects, so that one can be moved into   *)
(* the other, and vectors of one to four places, so that a queue wraps,    *)
(* fills up and grows while its front is in the middle of its vector.      *)
(***************************************************************************)
EXTENDS RingQueue
=============================================================================
