------------------------------- MODULE MCTimer -------------------------------
(* A small instance of Timer for TLC: a singleton job without a limit that *)
(* is due every tick, and a job limited to one run every second tick.      *)
EXTENDS Timer

CONSTANTS a, b

MCEntries == {a, b}
MCPeriod == [e \in MCEntries |-> IF e = a THEN 1 ELSE 2]
MCTimes == [e \in MCEntries |-> IF e = a THEN 0 ELSE 1]
MCFirstStatus == [e \in MCEntries |-> "ready"]
MCSingleton == [e \in MCEntries |-> e = a]
=============================================================================
