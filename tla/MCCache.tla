------------------------------- MODULE MCCache -------------------------------
(* A small instance of Cache for TLC. *)
EXTENDS Cache

MCCaps == {0, 1}
MCDurations == {-1, 1}
MCLruDurations == {1}
MCLruCaps == {1}
=============================================================================
