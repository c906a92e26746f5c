--------------------------- MODULE MCBlockingQueue ---------------------------
(* A small instance of BlockingQueue for TLC. *)
EXTENDS BlockingQueue

CONSTANTS p1, c1, c2, k1, k2

MCProducers == {p1}
MCConsumers == {c1, c2}
MCClosers == {k1, k2}
=============================================================================
