----------------------------- MODULE MCRingQueue -----------------------------
(* A small instance of RingQueue for TLC. *)
EXTENDS RingQueue
=============================================================================
