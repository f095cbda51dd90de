------------------------------- MODULE Signal -------------------------------
(* What the scheduler expects of its todo list (todo/todo.go): a coalescing  *)
(* wake-up.  A caller publishes some work (a Put, a passing deadline, freed   *)
(* resources) and then notifies.  Any number of notifications owe the main    *)
(* loop one look at the published work; the loop never wakes for nothing.     *)

VARIABLES dirty,   \* some published work has not been looked at yet
          owed,    \* a notification was made and not absorbed yet
          awake    \* the main loop woke up and has not looked yet

vars == <<dirty, owed, awake>>

Init == /\ dirty = FALSE
        /\ owed = FALSE
        /\ awake \in BOOLEAN

Publish == /\ dirty' = TRUE
           /\ UNCHANGED <<owed, awake>>

Notify == /\ owed' = TRUE
          /\ UNCHANGED <<dirty, awake>>

Wake == /\ owed
        /\ ~awake
        /\ awake' = TRUE
        /\ UNCHANGED <<dirty, owed>>

(* Notifications received so far are served by the look that follows.  *)
Absorb == /\ awake
          /\ owed' = FALSE
          /\ UNCHANGED <<dirty, awake>>

(* A look that leaves work behind notifies again: oneLoop pings itself. *)
Look == /\ awake
        /\ awake' = FALSE
        /\ dirty' \in BOOLEAN
        /\ UNCHANGED owed

Next == Publish \/ Notify \/ Wake \/ Absorb \/ Look

Spec == Init /\ [][Next]_vars

FairSpec == Spec /\ WF_vars(Wake) /\ WF_vars(Look)
=============================================================================
