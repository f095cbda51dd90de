----------------------------- MODULE MCRecovery -----------------------------
(* The small machine of MCScheduler, with a process that stops.               *)
EXTENDS Recovery, TLC

CONSTANTS wide, slim, cyclic

MCCpu == [t \in Task |-> IF t = wide THEN 2 ELSE 1]
MCRam == [t \in Task |-> 1]
MCMaxExec == [t \in Task |-> IF t = slim THEN 2 ELSE 1]
MCRecurrence == [t \in Task |-> IF t = cyclic THEN "every" ELSE "once"]
=============================================================================
