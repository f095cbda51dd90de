----------------------------- MODULE TaskBoard -----------------------------
(* What the scheduler promises of the tasks it was given and that nobody      *)
(* canceled or deleted: a task runs only when the machine has room for it,    *)
(* runs to its end, and stays ended.                                          *)
EXTENDS Integers, Units

CONSTANTS Task, Cpu, Ram, TotalCpu, TotalRam,
          Periodic   \* tasks that may go back to waiting after a run

VARIABLE board

States == {"Absent", "Waiting", "Running", "Done", "Timeout", "Error", "Gone"}

Init == board = [t \in Task |-> "Absent"]

Is(t, s) == board[t] = s
Becomes(t, s) == board' = [board EXCEPT ![t] = s]
Running == {t \in Task : Is(t, "Running")}

Fits(S) == Total(S, Cpu) <= TotalCpu /\ Total(S, Ram) <= TotalRam

Submit(t) == Is(t, "Absent") /\ Fits({t}) /\ Becomes(t, "Waiting")

Start(t) == Is(t, "Waiting") /\ Fits(Running \cup {t}) /\ Becomes(t, "Running")

(* Its containers could not be started.  *)
Refuse(t) == Is(t, "Waiting") /\ Becomes(t, "Error")

Finish(t) == Is(t, "Running") /\ \E s \in {"Done", "Timeout", "Error"} : Becomes(t, s)

Requeue(t) == Is(t, "Running") /\ t \in Periodic /\ Becomes(t, "Waiting")

(* Canceled, deleted or flushed: the board makes no promise any more.  *)
Forget(S) == board' = [t \in Task |-> IF t \in S THEN "Gone" ELSE board[t]]

Next == \/ \E t \in Task : Submit(t) \/ Start(t) \/ Refuse(t) \/ Finish(t) \/ Requeue(t)
        \/ \E S \in SUBSET Task : Forget(S)

Spec == Init /\ [][Next]_board
=============================================================================
