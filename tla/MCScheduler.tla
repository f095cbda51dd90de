---------------------------- MODULE MCScheduler ----------------------------
(* Small machines and small sets of tasks for Scheduler: 2 CPU and 2 RAM.     *)
EXTENDS Scheduler, TLC

CONSTANTS wide, slim, big, cyclic, broken

(* wide and broken leave no CPU to others; big asks for more than there is.   *)
MCCpu == [t \in Task |-> CASE t = big -> 3 [] t \in {wide, broken} -> 2 [] OTHER -> 1]
MCRam == [t \in Task |-> CASE t = big -> 3 [] OTHER -> 1]
MCMaxExec == [t \in Task |-> IF t = slim THEN 2 ELSE 1]
MCRecurrence == [t \in Task |-> CASE t = cyclic -> "every"
                                  [] t = broken -> "badcron"
                                  [] OTHER -> "once"]

(* Watchers and API goroutines are interchangeable; for the runs without liveness. *)
Interchangeable == Permutations(Slot) \cup Permutations(Client)
=============================================================================
