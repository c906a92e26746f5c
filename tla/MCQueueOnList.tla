---------------------------- MODULE MCQueueOnList ----------------------------
(* Small instances of QueueOnList for TLC: one producer, and two. *)
EXTENDS QueueOnList
=============================================================================
