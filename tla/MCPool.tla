-------------------------------- MODULE MCPool --------------------------------
(* A small instance of Pool for TLC. *)
EXTENDS Pool

MCTTLs == {-1, 0, 1}
=============================================================================
