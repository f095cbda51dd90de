---------------------------- MODULE RecoveryProofs ----------------------------
(* What a restart of the process keeps: for any tasks, any requests and any     *)
(* number of stops at any moment, those in the middle of a load too, and for     *)
(* any failure of docker but where a theorem says that it does not fail.        *)
EXTENDS Recovery, BoardProofs

USE TaskAssumption, BoundAssumption

-----------------------------------------------------------------------------
(* The inductive invariant.  What Load has in its hands are tasks of the store,  *)
(* what lies in memory are records, and the loop rests while Load puts them.     *)
Hand == [task : added \cup {NoTask}, record : Recorded]
Visit == [task : added \cup {NoTask}, old : Status, next : {"compare", "waiting", "reschedule"}]
Memory == /\ object \in [Task -> Recorded]
          /\ draft \in [Slot -> Recorded]
          /\ putting \in Hand
Loading == /\ phase \in {"visit", "put", "turn", "up"}
           /\ unseen \subseteq added
           /\ update \subseteq added
           /\ Memory /\ visit \in Visit
           /\ phase = "visit" => loop \in {"idle", "exec", "up", "put", "putError", "ping"}
           /\ phase = "visit" /\ loop # "idle" => visit.task \in added
           /\ phase = "put" => loop = "idle"

(* ForEach visits a task once: what it executes is not to come.                  *)
Visited == phase = "visit" => chosen.task \notin unseen

(* Nobody watches a task that is about to be executed, or visited.  The store    *)
(* says of a watched one that it runs, unless Load has just said otherwise.      *)
Watchless(t) == \A w \in Slot : ~Watches(w, t)
Comes(t) == chosen.task = t \/ (phase = "visit" /\ t \in unseen)
Alone(t) == /\ \A v, w \in Slot : Watches(v, t) /\ Watches(w, t) => v = w
            /\ \A w \in Slot : Watches(w, t) => store[t].status = "Running"
            /\ Comes(t) => Watchless(t)
Plain(t) == ~Touched(t) /\ t \notin raced

Woken == phase \in {"turn", "up"} => NoLostWakeup

RInv == /\ TypeOK /\ Known /\ Starting /\ Accounted /\ Loading /\ Visited /\ Woken
        /\ \A t \in Task : Plain(t) => Alone(t)

-----------------------------------------------------------------------------
(* A step of the process is one of Load, its end, one of a watcher that shares   *)
(* its task with Load, or one of module Scheduler.                              *)
SchedulerStep == [RNext]_rvars /\ ~LoadStep /\ ~Stop /\ \A w \in Slot : ~SharedStep(w)

SharesKept == UNCHANGED <<object, draft, putting>>

LEMMA StepsOfScheduler ==
  ASSUME SchedulerStep
  PROVE  /\ [Next]_vars /\ UNCHANGED <<phase, unseen, visit, update, raced>>
         /\ \/ SharesKept
            \/ TimePasses
            \/ /\ UNCHANGED <<draft, putting>>
               /\ object' = [object EXCEPT ![visit.task] = store'[visit.task]]
<1>. DEFINE Shape == \/ SharesKept
                     \/ TimePasses
                     \/ /\ UNCHANGED <<draft, putting>>
                        /\ object' = [object EXCEPT ![visit.task] = store'[visit.task]]
            Rest == UNCHANGED <<phase, unseen, visit, update, raced>>
<1>1. CASE LoopWorks
  <2>1. LoopStep \/ \E w \in Slot : ExecStep(w)
    BY <1>1 DEF LoopWorks
  <2>2. Rest /\ Shape
    BY <1>1 DEF LoopWorks, SharesKept
  <2>3. QED
    BY <2>1, <2>2 DEF Next
<1>2. ASSUME NEW w \in Slot, WatcherWorks(w) PROVE [Next]_vars /\ Rest /\ Shape
  BY <1>2 DEF WatcherWorks, Next, loadVars, shareVars, SharesKept
<1>3. ASSUME NEW c \in Client, ClientWorks(c) PROVE [Next]_vars /\ Rest /\ Shape
  BY <1>3 DEF ClientWorks, Next, loadVars, shareVars, SharesKept
<1>4. CASE TimePasses
  BY <1>4 DEF TimePasses, Next
<1>5. CASE WorldChanges /\ ~TimePasses
  BY <1>5 DEF WorldChanges, Next, loadVars, shareVars, SharesKept
<1>6. CASE UNCHANGED rvars
  BY <1>6 DEF rvars, loadVars, shareVars, SharesKept
<1>7. QED
  BY <1>1, <1>2, <1>3, <1>4, <1>5, <1>6 DEF SchedulerStep, RNext

(* What Load leaves alone.                                                      *)
LEMMA LoadFrame ==
  ASSUME LoadStep
  PROVE  UNCHANGED <<ct, cpu, ram, timers, slot, call, added, canceled, deleted>>
BY DEF LoadStep, LoadVisit, LoadRunning, LoadMismatch, LoadCompare, LoadWaiting, LoadReschedule,
   AdoptFrame, LoadVisited, LoadMarshal, LoadPut, LoadTurn, Start, vars, clientVars

(* It executes and puts between two executions only.                            *)
LEMMA LoadRests ==
  ASSUME Loading, LoadStep
  PROVE  loop \in {"idle", "ping"} /\ phase \in {"visit", "put", "turn"}
BY DEF LoadStep, LoadVisit, LoadRunning, LoadMismatch, LoadCompare, LoadWaiting, LoadReschedule,
   Adopting, LoadVisited, LoadMarshal, LoadPut, LoadTurn, Start, Loading

-----------------------------------------------------------------------------
(* What Load writes are records of the store.                                   *)
LEMMA LoadedType ==
  ASSUME TypeOK, NEW t \in Task
  PROVE  Loaded(t) \in Recorded
<1>1. store[t] \in Recorded /\ ct[t] \in CtState
  BY DEF TypeOK
<1>2. Fresh(t) \in {"Waiting", "Done", "Error", "Running"}
  BY <1>1 DEF Fresh, CtState
<1>3. AfterRun(t, "Waiting") \in Recorded
  BY AfterRunType DEF Results
<1>4. [AfterRun(t, "Waiting") EXCEPT !.run = store[t].run] \in Recorded
  BY <1>1, <1>3 DEF Recorded
<1>5. [store[t] EXCEPT !.status = Fresh(t)] \in Recorded
  BY <1>1, <1>2 DEF Recorded, Status, Final
<1>6. QED
  BY <1>1, <1>4, <1>5 DEF Loaded

(* An assignment to a field of a shared task keeps the run, and stores nothing    *)
(* that is not stored.                                                          *)
Empty(r) == r.status = "Absent" => ~r.run
Alike(q, r) == q \in Recorded /\ (q.run => r.run) /\ (Empty(r) => Empty(q))
Assigned == /\ object' \in [Task -> Recorded]
            /\ \A t \in Task : Alike(object'[t], object[t])

LEMMA StatusAssigned ==
  ASSUME Memory, NEW t \in Task, NEW s \in Status \ {"Absent"}, Assign(t, "status", s)
  PROVE  Assigned
<1>. DEFINE r == [object[t] EXCEPT !.status = s]
<1>1. object' = [object EXCEPT ![t] = r]
  BY DEF Assign, Memory
<1>2. r \in Recorded /\ r.run = object[t].run /\ r.status # "Absent"
  BY DEF Memory, Recorded
<1>3. \A u \in Task : object[u] \in Recorded
  BY DEF Memory
<1>. HIDE DEF r
<1>4. \A u \in Task : object'[u] = IF u = t THEN r ELSE object[u]
  BY <1>1 DEF Memory
<1>5. object' \in [Task -> Recorded]
  BY <1>1, <1>2 DEF Memory
<1>6. QED
  BY <1>2, <1>3, <1>4, <1>5 DEF Assigned, Alike, Empty

LEMMA RescheduleAssigned ==
  ASSUME Memory, NEW t \in Task, PrepareReschedule(t)
  PROVE  Assigned
<1>1. CASE Recurrence[t] = "every"
  <2>. DEFINE r == [object[t] EXCEPT !.start = Every]
  <2>1. object' = [object EXCEPT ![t] = r]
    BY <1>1 DEF PrepareReschedule, Assign, Memory
  <2>2. Every \in Horizon
    BY DEF Horizon
  <2>3. r \in Recorded /\ r.run = object[t].run /\ r.status = object[t].status
    BY <2>2 DEF Memory, Recorded
  <2>4. \A u \in Task : object[u] \in Recorded
    BY DEF Memory
  <2>. HIDE DEF r
  <2>5. \A u \in Task : object'[u] = IF u = t THEN r ELSE object[u]
    BY <2>1 DEF Memory
  <2>6. object' \in [Task -> Recorded]
    BY <2>1, <2>3 DEF Memory
  <2>7. QED
    BY <2>3, <2>4, <2>5, <2>6 DEF Assigned, Alike, Empty
<1>2. CASE Recurrence[t] # "every"
  BY <1>2, StatusAssigned DEF PrepareReschedule, Status, Final
<1>3. QED
  BY <1>1, <1>2

(* What Load does with a task that it has just executed.                        *)
LoadAdopt == LoadMismatch \/ LoadCompare \/ LoadWaiting \/ LoadReschedule

LEMMA LoadAdopts ==
  ASSUME TypeOK, Loading, LoadAdopt
  PROVE  /\ UNCHANGED <<store, newMsg, chosen, phase, unseen, putting, draft, raced>>
         /\ phase = "visit" /\ loop = "ping" /\ loop' \in {"ping", "idle"}
         /\ visit.task \in added /\ visit.task \in Task
         /\ (loop' = "ping" => visit'.task = visit.task) /\ visit' \in Visit
         /\ update' \subseteq update \cup {visit.task} /\ Assigned
<1>1. /\ UNCHANGED <<store, newMsg, chosen, phase, unseen, putting, draft, raced>>
      /\ phase = "visit" /\ loop = "ping"
  BY DEF LoadAdopt, LoadMismatch, LoadCompare, LoadWaiting, LoadReschedule, Adopting, AdoptFrame
<1>2. visit.task \in added /\ visit.task \in Task
  BY <1>1 DEF Loading, TypeOK
<1>3. /\ loop' \in {"ping", "idle"}
      /\ update' \subseteq update \cup {visit.task}
  BY <1>1 DEF LoadAdopt, LoadMismatch, LoadCompare, LoadWaiting, LoadReschedule, LoadNext
<1>4. (loop' = "ping" => visit'.task = visit.task) /\ visit' \in Visit
  <2>1. NoVisit \in Visit /\ visit \in Visit /\ added' = added
    BY DEF NoVisit, Visit, Status, Loading, LoadAdopt, LoadMismatch, LoadCompare, LoadWaiting,
           LoadReschedule, AdoptFrame, clientVars
  <2>2. CASE LoadMismatch \/ LoadReschedule
    BY <2>1, <2>2 DEF LoadMismatch, LoadReschedule, LoadNext
  <2>3. CASE LoadCompare
    BY <2>1, <2>3 DEF LoadCompare, LoadNext, Visit
  <2>4. CASE LoadWaiting
    BY <2>1, <2>4 DEF LoadWaiting, Visit
  <2>5. QED
    BY <2>2, <2>3, <2>4 DEF LoadAdopt
<1>5. Assigned
  <2>1. CASE LoadMismatch
    BY <1>2, <2>1, StatusAssigned DEF LoadMismatch, Loading, Status
  <2>2. CASE LoadWaiting
    BY <1>2, <2>2, StatusAssigned DEF LoadWaiting, Loading, Status
  <2>3. CASE LoadReschedule
    BY <1>2, <2>3, RescheduleAssigned DEF LoadReschedule, Loading
  <2>4. CASE LoadCompare
    <3>1. object' = object /\ object \in [Task -> Recorded]
      BY <2>4 DEF LoadCompare, Loading, Memory
    <3>2. QED
      BY <3>1 DEF Assigned, Alike
  <2>5. QED
    BY <2>1, <2>2, <2>3, <2>4 DEF LoadAdopt
<1>6. QED
  BY <1>1, <1>2, <1>3, <1>4, <1>5

-----------------------------------------------------------------------------
(* The steps of Load.                                                           *)

(* Their common part: what they do to the scheduler.                            *)
LEMMA LoadKeepsTypes ==
  ASSUME RInv, LoadStep, store' \in [Task -> Recorded],
         \A t \in Task : store'[t] = store[t] \/ t \in added, newMsg' \in BOOLEAN,
         \/ loop' = loop /\ chosen' = chosen
         \/ loop' \in {"idle", "look"} /\ chosen' = chosen
         \/ /\ loop' = "exec" /\ chosen'.task \in added
            /\ chosen' \in [task : Task \cup {NoTask}, run : BOOLEAN]
  PROVE  TypeOK' /\ Known' /\ Starting' /\ Accounted'
<1>. USE DEF RInv
<1>1. /\ UNCHANGED <<ct, cpu, ram, timers, slot, call, added, canceled, deleted>>
      /\ loop \in {"idle", "ping"}
  BY LoadFrame, LoadRests
<1>2. chosen.task = NoTask
  BY <1>1 DEF Known
<1>3. TypeOK'
  BY <1>1 DEF TypeOK
<1>4. Known'
  <2>1. NoTask \notin added
    BY DEF TypeOK
  <2>2. \A t \in Task : Stored(t)' => t \in added
    BY DEF Known, Stored
  <2>3. QED
    BY <1>1, <1>2, <2>1, <2>2 DEF Known
<1>5. Starting'
  BY <1>1 DEF Starting
<1>6. Accounted'
  <2>1. Held' = Held /\ Takes(Cpu)' = Takes(Cpu) /\ Takes(Ram)' = Takes(Ram)
    BY <1>1 DEF Held, Takes
  <2>2. QED
    BY <1>1, <2>1 DEF Accounted, ResourcesConserved
<1>7. QED
  BY <1>3, <1>4, <1>5, <1>6

LEMMA LoadKeepsWatchers ==
  ASSUME LoadStep, NEW t \in Task
  PROVE  /\ Touched(t)' = Touched(t) /\ Watchless(t)' = Watchless(t)
         /\ \A w \in Slot : Watches(w, t)' = Watches(w, t)
BY LoadFrame DEF Touched, Watchless, Watches

(* It visits a task whose container does not run, and remembers what to put ...  *)
LEMMA LoadVisitStep ==
  ASSUME RInv, LoadStep, NEW t \in unseen, phase = "visit", loop = "idle", LoadVisit(t)
  PROVE  RInv'
<1>. USE DEF RInv
<1>1. /\ UNCHANGED <<store, loop, chosen, newMsg, phase, visit, raced>> /\ unseen' = unseen \ {t}
      /\ t \in Task /\ t \in added
  BY DEF LoadVisit, vars, loopVars, Loading, TypeOK
<1>2. TypeOK' /\ Known' /\ Starting' /\ Accounted'
  BY <1>1, LoadKeepsTypes DEF TypeOK
<1>3. Memory'
  <2>1. object' = [object EXCEPT ![t] = Loaded(t)] /\ UNCHANGED <<draft, putting, added>>
    BY LoadFrame DEF LoadVisit
  <2>2. Loaded(t) \in Recorded
    BY <1>1, LoadedType
  <2>3. QED
    BY <2>1, <2>2 DEF Loading, Memory, Hand
<1>4. Loading'
  <2>1. update' \subseteq update \cup {t}
    BY DEF LoadVisit
  <2>2. QED
    BY <1>1, <1>3, <2>1, LoadFrame DEF Loading, Visit
<1>5. Visited'
  BY <1>1 DEF Visited
<1>6. ASSUME NEW u \in Task, Plain(u)' PROVE Alone(u)'
  <2>1. Alone(u)
    BY <1>1, <1>6, LoadKeepsWatchers DEF Plain
  <2>2. Comes(u)' => Comes(u)
    BY <1>1 DEF Comes
  <2>3. QED
    BY <1>1, <2>1, <2>2, LoadKeepsWatchers DEF Alone
<1>7. QED
  BY <1>1, <1>2, <1>4, <1>5, <1>6 DEF Woken

(* ... or one whose container runs, and executes it.                             *)
LEMMA LoadRunningStep ==
  ASSUME RInv, LoadStep, NEW t \in unseen, phase = "visit", loop = "idle", LoadRunning(t)
  PROVE  RInv'
<1>. USE DEF RInv
<1>1. /\ UNCHANGED <<store, newMsg, phase, update, putting, draft, raced>> /\ unseen' = unseen \ {t}
      /\ loop' = "exec" /\ chosen' = [task |-> t, run |-> TRUE] /\ visit'.task = t
      /\ t \in Task /\ t \in added
  <2>1. Fresh(t) = "Running" /\ t \in Task /\ t \in added
    BY DEF LoadRunning, Loading, TypeOK
  <2>2. QED
    BY <2>1 DEF LoadRunning
<1>2. TypeOK' /\ Known' /\ Starting' /\ Accounted'
  BY <1>1, LoadKeepsTypes DEF TypeOK
<1>3. Loading'
  <2>1. object' = [object EXCEPT ![t] = store[t]] /\ store[t] \in Recorded
    BY <1>1 DEF LoadRunning, TypeOK
  <2>2. Memory'
    BY <1>1, <2>1, LoadFrame DEF Loading, Memory, Hand
  <2>3. visit' \in Visit /\ added' = added
    BY <1>1, LoadFrame DEF LoadRunning, Visit, TypeOK, Recorded
  <2>4. QED
    BY <1>1, <2>2, <2>3 DEF Loading, Visit
<1>4. Visited'
  BY <1>1 DEF Visited
<1>5. ASSUME NEW u \in Task, Plain(u)' PROVE Alone(u)'
  <2>1. Alone(u)
    BY <1>1, <1>5, LoadKeepsWatchers DEF Plain
  <2>2. Comes(u)' => Comes(u)
    BY <1>1 DEF Comes
  <2>3. QED
    BY <1>1, <2>1, <2>2, LoadKeepsWatchers DEF Alone
<1>6. QED
  BY <1>1, <1>2, <1>3, <1>4, <1>5 DEF Woken

(* execTask is over: the task may have to be put, and goes on being watched.     *)
LEMMA LoadAdoptStep ==
  ASSUME RInv, LoadStep, LoadAdopt
  PROVE  RInv'
<1>. USE DEF RInv
<1>1. /\ UNCHANGED <<store, newMsg, chosen, phase, unseen, putting, draft, raced>>
      /\ phase = "visit" /\ loop = "ping" /\ loop' \in {"ping", "idle"}
      /\ visit.task \in added /\ (loop' = "ping" => visit'.task = visit.task) /\ visit' \in Visit
      /\ update' \subseteq update \cup {visit.task} /\ object' \in [Task -> Recorded]
  BY LoadAdopts DEF Assigned
<1>2. TypeOK' /\ Known' /\ Starting' /\ Accounted'
  BY <1>1, LoadKeepsTypes DEF TypeOK
<1>3. Loading'
  <2>1. Memory'
    BY <1>1, LoadFrame DEF Loading, Memory, Hand
  <2>2. QED
    BY <1>1, <2>1, LoadFrame DEF Loading, Visit
<1>4. Visited' /\ Woken'
  BY <1>1 DEF Visited, Woken
<1>5. ASSUME NEW u \in Task, Plain(u)' PROVE Alone(u)'
  <2>1. Alone(u)
    BY <1>1, <1>5, LoadKeepsWatchers DEF Plain
  <2>2. Comes(u)' => Comes(u)
    BY <1>1 DEF Comes
  <2>3. QED
    BY <1>1, <2>1, <2>2, LoadKeepsWatchers DEF Alone
<1>6. QED
  BY <1>2, <1>3, <1>4, <1>5

(* The puts that come after ForEach: what Load says of a task under the eyes of   *)
(* its watcher is what the store says already, or the task is raced.             *)
LEMMA LoadMarshalStep ==
  ASSUME RInv, LoadStep, LoadMarshal
  PROVE  RInv'
<1>. USE DEF RInv
<1>1. /\ UNCHANGED <<store, newMsg, phase, unseen, visit, loop, chosen, object, draft, raced>>
      /\ phase = "put"
  BY DEF LoadMarshal, vars, loopVars, shareVars
<1>2. PICK t \in update : putting' = [task |-> t, record |-> object[t]] /\ update' = update \ {t}
  BY DEF LoadMarshal
<1>3. TypeOK' /\ Known' /\ Starting' /\ Accounted'
  BY <1>1, LoadKeepsTypes DEF TypeOK
<1>4. Loading'
  <2>1. t \in added /\ object[t] \in Recorded
    BY DEF Loading, Memory, TypeOK
  <2>2. Memory'
    BY <1>1, <1>2, <2>1, LoadFrame DEF Loading, Memory, Hand
  <2>3. QED
    BY <1>1, <1>2, <2>2, LoadFrame DEF Loading, Visit
<1>5. Visited' /\ Woken'
  BY <1>1 DEF Visited, Woken
<1>6. ASSUME NEW u \in Task, Plain(u)' PROVE Alone(u)'
  BY <1>1, <1>6, LoadKeepsWatchers DEF Plain, Alone, Comes
<1>7. QED
  BY <1>3, <1>4, <1>5, <1>6

LEMMA LoadPutStep ==
  ASSUME RInv, LoadStep, LoadPut
  PROVE  RInv'
<1>. USE DEF RInv
<1>. DEFINE u == putting.task
<1>1. /\ UNCHANGED <<newMsg, phase, unseen, visit, update, loop, chosen, object, draft>>
      /\ phase = "put" /\ store' = [store EXCEPT ![u] = putting.record] /\ putting' = NoPut
      /\ u \in added \cup {NoTask} /\ putting.record \in Recorded
  BY DEF LoadPut, Put, loopVars, shareVars, Loading, Memory, Hand
<1>2. TypeOK' /\ Known' /\ Starting' /\ Accounted'
  BY <1>1, LoadKeepsTypes DEF TypeOK
<1>3. Loading'
  <2>1. Absent \in Recorded
    BY DEF Absent, Record, Recorded, Status, Horizon
  <2>2. Memory'
    BY <1>1, <2>1, LoadFrame DEF Loading, Memory, Hand, NoPut
  <2>3. QED
    BY <1>1, <2>2, LoadFrame DEF Loading, Visit
<1>4. Visited' /\ Woken'
  BY <1>1 DEF Visited, Woken
<1>5. ASSUME NEW t \in Task, Plain(t)' PROVE Alone(t)'
  <2>1. t \notin raced'
    BY <1>5 DEF Plain
  <2>2. t \notin raced /\ (u = t => Watching(t) = {} \/ putting.record.status = "Running")
    BY <2>1 DEF LoadPut
  <2>3. Alone(t)
    BY <1>5, <2>2, LoadKeepsWatchers DEF Plain
  <2>4. \A w \in Slot : Watches(w, t) => store'[t].status = "Running"
    <3>1. CASE u = t
      BY <1>1, <2>2, <3>1 DEF Watching, TypeOK
    <3>2. CASE u # t
      BY <1>1, <2>3, <3>2 DEF Alone, TypeOK
    <3>3. QED
      BY <3>1, <3>2
  <2>5. Comes(t)' => Comes(t)
    BY <1>1 DEF Comes
  <2>6. QED
    BY <2>3, <2>4, <2>5, LoadKeepsWatchers DEF Alone
<1>6. QED
  BY <1>2, <1>3, <1>4, <1>5

LEMMA AbsentIsRecorded == Absent \in Recorded
BY DEF Absent, Record, Recorded, Status, Horizon

(* From one part of Load to the next: the turn begins with a look at the store.  *)
LEMMA LoadGoesOn ==
  ASSUME RInv, LoadStep, LoadVisited \/ LoadTurn \/ Start
  PROVE  RInv'
<1>. USE DEF RInv
<1>1. UNCHANGED <<store, unseen, update, visit, chosen, draft, putting, raced>>
  BY DEF LoadVisited, LoadTurn, Start, vars, loopVars, shareVars
<1>2. /\ newMsg' \in BOOLEAN
      /\ loop' = loop \/ loop' = "look"
      /\ phase' \in {"put", "turn", "up"}
      /\ phase' = "put" => phase = "visit" /\ loop' = "idle"
  BY DEF LoadVisited, LoadTurn, Start, vars, loopVars, TypeOK
<1>3. TypeOK' /\ Known' /\ Starting' /\ Accounted'
  BY <1>1, <1>2, LoadKeepsTypes DEF TypeOK
<1>4. Loading' /\ Visited'
  <2>1. object' \in [Task -> Recorded]
    BY AbsentIsRecorded DEF LoadVisited, LoadTurn, Start, shareVars, Loading, Memory
  <2>2. QED
    BY <1>1, <1>2, <2>1, LoadFrame DEF Loading, Memory, Hand, Visit, Visited
<1>5. Woken'
  <2>1. CASE LoadVisited
    BY <2>1 DEF LoadVisited, Woken
  <2>2. CASE LoadTurn
    BY <2>2 DEF LoadTurn, Woken, NoLostWakeup
  <2>3. CASE Start
    <3>1. UNCHANGED <<store, loop, newMsg>> /\ phase = "turn" /\ NoLostWakeup
      BY <2>3 DEF Start, vars, loopVars, Woken
    <3>2. \A t \in Task : Touched(t)' = Touched(t)
      BY LoadKeepsWatchers
    <3>3. NoLostWakeup'
      BY <3>1, <3>2, LoadFrame DEF NoLostWakeup, Waiting
    <3>4. QED
      BY <3>3 DEF Woken
  <2>4. QED
    BY <2>1, <2>2, <2>3
<1>6. ASSUME NEW t \in Task, Plain(t)' PROVE Alone(t)'
  <2>1. Alone(t)
    BY <1>1, <1>6, LoadKeepsWatchers DEF Plain
  <2>2. Comes(t)' => Comes(t)
    BY <1>1, <1>2 DEF Comes
  <2>3. QED
    BY <1>1, <2>1, <2>2, LoadKeepsWatchers DEF Alone
<1>7. QED
  BY <1>3, <1>4, <1>5, <1>6

LEMMA LoadSteps == ASSUME RInv, LoadStep PROVE RInv'
<1>1. CASE LoadVisited \/ LoadTurn \/ Start
  BY <1>1, LoadGoesOn
<1>2. CASE LoadAdopt
  BY <1>2, LoadAdoptStep
<1>3. CASE LoadMarshal \/ LoadPut
  BY <1>3, LoadMarshalStep, LoadPutStep
<1>4. CASE phase = "visit" /\ loop = "idle" /\ \E t \in unseen : LoadVisit(t) \/ LoadRunning(t)
  BY <1>4, LoadVisitStep, LoadRunningStep
<1>5. QED
  BY <1>1, <1>2, <1>3, <1>4 DEF LoadStep, LoadAdopt

-----------------------------------------------------------------------------
(* The steps of a watcher that shares its task with Load: assignments, and a Put  *)
(* that takes the place of WatchPut.                                            *)
LEMMA SharedFrame ==
  ASSUME TypeOK, Known, Memory, NEW w \in Slot, SharedStep(w)
  PROVE  /\ UNCHANGED <<ct, cpu, ram, newMsg, timers, loop, chosen, call, added, canceled, deleted,
                        phase, unseen, visit, update, putting, raced>>
         /\ slot[w].pc = "save" /\ slot[w].task \in Task
         /\ Memory' /\ \A t \in Task : Alike(object'[t], object[t])
         /\ \A v \in Slot : draft'[v] \in {draft[v], Absent} \cup {object[t] : t \in Task}
         /\ \/ SharedPut(w)
            \/ UNCHANGED <<store, slot>>
<1>1. slot[w].pc = "save"
  BY DEF SharedStep, WatchStatus, WatchWaiting, WatchReschedule, WatchMarshal, SharedPut, Shares
<1>2. UNCHANGED <<ct, cpu, ram, newMsg, timers, loop, chosen, call, added, canceled, deleted,
                  phase, unseen, visit, update, putting, raced>>
  <2>1. CASE SharedPut(w)
    BY <2>1 DEF SharedPut, WatcherFrame, loopVars, clientVars
  <2>2. CASE ~SharedPut(w)
    BY <2>2 DEF SharedStep, WatchStatus, WatchWaiting, WatchReschedule, WatchMarshal, ShareFrame,
                vars, loopVars, clientVars
  <2>3. QED
    BY <2>1, <2>2
<1>3. SharedPut(w) \/ UNCHANGED <<store, slot>>
  BY DEF SharedStep, WatchStatus, WatchWaiting, WatchReschedule, WatchMarshal, ShareFrame, vars
<1>4. slot[w].result \in Status \ {"Absent"}
  BY DEF TypeOK, SlotState, Results, Status, Final
<1>5. slot[w].task \in Task
  BY <1>1 DEF Known, TypeOK
<1>6. CASE WatchStatus(w) \/ WatchWaiting(w) \/ WatchReschedule(w)
  <2>1. draft' = draft
    BY <1>6 DEF WatchStatus, WatchWaiting, WatchReschedule
  <2>2. Assigned
    <3>1. CASE WatchStatus(w)
      BY <1>4, <1>5, <3>1, StatusAssigned DEF WatchStatus
    <3>2. CASE WatchWaiting(w)
      BY <1>5, <3>2, StatusAssigned DEF WatchWaiting, Status
    <3>3. CASE WatchReschedule(w)
      BY <1>5, <3>3, RescheduleAssigned DEF WatchReschedule
    <3>4. QED
      BY <1>6, <3>1, <3>2, <3>3
  <2>3. Memory'
    BY <1>2, <2>1, <2>2 DEF Assigned, Memory, Hand
  <2>4. QED
    BY <1>1, <1>2, <1>3, <1>5, <2>1, <2>2, <2>3 DEF Assigned
<1>7. CASE WatchMarshal(w) \/ SharedPut(w)
  <2>1. object' = object \/ object' = [object EXCEPT ![slot[w].task] = Absent]
    BY <1>7 DEF WatchMarshal, SharedPut
  <2>2. draft' = [draft EXCEPT ![w] = object[slot[w].task]] \/ draft' = [draft EXCEPT ![w] = Absent]
    BY <1>7 DEF WatchMarshal, SharedPut
  <2>3. Absent \in Recorded /\ object[slot[w].task] \in Recorded
    BY <1>5 DEF Absent, Record, Recorded, Status, Horizon, Memory
  <2>4. Memory'
    BY <1>2, <2>1, <2>2, <2>3 DEF Memory, Hand
  <2>5. \A t \in Task : Alike(object'[t], object[t])
    BY <1>5, <2>1, <2>3 DEF Alike, Empty, Absent, Record, Memory
  <2>6. \A v \in Slot : draft'[v] \in {draft[v], Absent} \cup {object[t] : t \in Task}
    BY <1>5, <2>2 DEF Memory
  <2>7. QED
    BY <1>1, <1>2, <1>3, <1>5, <2>4, <2>5, <2>6
<1>8. QED
  BY <1>6, <1>7 DEF SharedStep

LEMMA SharedStepKeeps == ASSUME RInv, NEW w \in Slot, SharedStep(w) PROVE RInv'
<1>. USE DEF RInv
<1>1. /\ UNCHANGED <<ct, cpu, ram, newMsg, timers, loop, chosen, call, added, canceled, deleted,
                     phase, unseen, visit, update, putting, raced>>
      /\ slot[w].pc = "save" /\ slot[w].task \in Task /\ Memory'
  BY SharedFrame DEF Loading
<1>2. Loading' /\ Visited'
  BY <1>1 DEF Loading, Visit, Visited
<1>3. CASE UNCHANGED <<store, slot>>
  <2>1. TypeOK' /\ Known' /\ Starting' /\ Accounted'
    BY <1>1, <1>3 DEF TypeOK, Known, Stored, Starting, Accounted, ResourcesConserved, Held, Takes
  <2>2. Woken'
    BY <1>1, <1>3 DEF Woken, NoLostWakeup, Waiting, Touched
  <2>3. \A t \in Task : Plain(t)' => Alone(t)'
    BY <1>1, <1>3 DEF Plain, Touched, Alone, Watchless, Watches, Comes
  <2>4. QED
    BY <1>2, <2>1, <2>2, <2>3
<1>4. CASE SharedPut(w)
  <2>. DEFINE u == slot[w].task
  <2>1. /\ store' = [store EXCEPT ![u] = draft[w]] /\ draft[w] \in Recorded
        /\ Move(w, "ping", "Waiting")
    BY <1>4 DEF SharedPut, Put, Loading, Memory
  <2>2. /\ slot' \in [Slot -> SlotState]
        /\ slot'[w].pc = "ping" /\ slot'[w].task = u
        /\ \A v \in Slot \ {w} : slot'[v] = slot[v]
    BY <2>1, MoveType DEF TypeOK, SlotPc, Results
  <2>3. u \in added
    BY <1>1 DEF Known
  <2>4. \A v \in Slot : slot'[v].task = slot[v].task /\ (slot'[v].pc = "free" <=> slot[v].pc = "free")
    BY <1>1, <2>2
  <2>5. TypeOK'
    BY <1>1, <2>1, <2>2 DEF TypeOK
  <2>6. Known'
    <3>1. \A t \in Task : Stored(t)' => t \in added
      BY <2>1, <2>3 DEF Known, Stored, TypeOK
    <3>2. QED
      BY <1>1, <2>2, <3>1 DEF Known
  <2>7. Starting'
    BY <1>1, <2>2 DEF Starting
  <2>8. Accounted'
    <3>1. Held' = Held
      BY <2>4 DEF Held
    <3>2. Takes(Cpu)' = Takes(Cpu) /\ Takes(Ram)' = Takes(Ram)
      BY <2>4, <3>1 DEF Takes, Held
    <3>3. QED
      BY <1>1, <3>1, <3>2 DEF Accounted, ResourcesConserved
  <2>9. Woken'
    BY <1>1, <2>2 DEF Woken, NoLostWakeup
  <2>10. ASSUME NEW t \in Task, Plain(t)' PROVE Alone(t)'
    <3>1. Alone(t)
      BY <1>1, <2>10 DEF Plain, Touched
    <3>2. ~Watches(w, t)' /\ \A v \in Slot \ {w} : Watches(v, t)' = Watches(v, t)
      BY <2>2 DEF Watches
    <3>3. CASE u = t
      <4>1. Watches(w, t)
        BY <1>1, <3>3 DEF Watches
      <4>2. \A v \in Slot : ~Watches(v, t)'
        BY <3>1, <3>2, <4>1 DEF Alone
      <4>3. QED
        BY <4>2 DEF Alone, Watchless
    <3>4. CASE u # t
      <4>1. store'[t] = store[t]
        BY <2>1, <3>4 DEF TypeOK
      <4>2. Comes(t)' = Comes(t)
        BY <1>1 DEF Comes
      <4>3. \A v \in Slot : Watches(v, t)' => Watches(v, t)
        BY <3>2
      <4>4. QED
        BY <3>1, <4>1, <4>2, <4>3 DEF Alone, Watchless
    <3>5. QED
      BY <3>3, <3>4
  <2>11. QED
    BY <1>2, <2>5, <2>6, <2>7, <2>8, <2>9, <2>10
<1>5. QED
  BY <1>3, <1>4, SharedFrame DEF Loading

-----------------------------------------------------------------------------
(* The process stops: what it had in memory is gone.                            *)
LEMMA StopStep == ASSUME RInv, Stop PROVE RInv'
<1>. USE DEF RInv
<1>1. /\ UNCHANGED <<store, ct, added, canceled, deleted>>
      /\ cpu' = TotalCpu /\ ram' = TotalRam /\ newMsg' = FALSE /\ timers' = {}
      /\ loop' = "idle" /\ chosen' = NoChoice
      /\ slot' = [w \in Slot |-> FreeSlot] /\ call' = [c \in Client |-> IdleCall]
      /\ phase' = "visit" /\ unseen' = {t \in Task : Stored(t)}
      /\ visit' = NoVisit /\ update' = {} /\ putting' = NoPut /\ raced' = {}
      /\ object' = [t \in Task |-> Absent] /\ draft' = [w \in Slot |-> Absent]
  BY DEF Stop, FreshProcess
<1>2. TypeOK'
  <2>1. Absent \in Recorded
    BY DEF Absent, Record, Recorded, Status, Horizon
  <2>2. FreeSlot \in SlotState /\ IdleCall \in CallState
    BY <2>1 DEF FreeSlot, IdleCall, SlotState, CallState, SlotPc, CallPc, Results
  <2>3. newMsg' \in BOOLEAN
    BY <1>1, Zenon
  <2>4. QED
    BY <1>1, <2>2, <2>3 DEF TypeOK, NoChoice
<1>3. /\ \A w \in Slot : slot'[w].pc = "free" /\ slot'[w].task = NoTask
      /\ \A c \in Client : call'[c].pc = "idle" /\ call'[c].task = NoTask
      /\ chosen'.task = NoTask /\ visit'.task = NoTask
  BY <1>1 DEF FreeSlot, IdleCall, NoChoice, NoVisit
<1>4. unseen' \subseteq added /\ NoTask \notin unseen'
  BY <1>1 DEF Known
<1>5. Known' /\ Starting'
  BY <1>1, <1>3 DEF Known, Starting, Stored
<1>6. Accounted'
  <2>1. Held' = {}
    BY <1>3 DEF Held
  <2>2. QED
    BY <1>1, <2>1, UnitsOfNone DEF Accounted, ResourcesConserved
<1>7. Loading' /\ Visited' /\ Woken'
  <2>1. Absent \in Recorded
    BY DEF Absent, Record, Recorded, Status, Horizon
  <2>2. Memory'
    BY <1>1, <2>1 DEF Memory, Hand, NoPut
  <2>3. visit' \in Visit'
    BY <1>1 DEF Visit, NoVisit, Status
  <2>4. QED
    BY <1>1, <1>3, <1>4, <2>2, <2>3 DEF Loading, Visited, Woken
<1>8. \A t \in Task : Alone(t)'
  <2>1. \A t \in Task, w \in Slot : ~Watches(w, t)'
    BY <1>3 DEF Watches
  <2>2. QED
    BY <2>1 DEF Alone, Watchless
<1>9. QED
  BY <1>2, <1>5, <1>6, <1>7, <1>8

-----------------------------------------------------------------------------
(* The steps of module Scheduler, as far as a loading process takes them.        *)

(* During a load the loop only executes, and clients wait for the server.        *)
LEMMA LoopWhileLoading ==
  ASSUME RInv, SchedulerStep, phase \in {"visit", "put"}
  PROVE  /\ UNCHANGED <<loop, chosen>>
            \/ (/\ phase = "visit" /\ loop # "idle"
                /\ loop' \in {"up", "put", "putError", "ping"}
                /\ chosen' = chosen \/ chosen'.task = NoTask)
         /\ added' = added
<1>1. CASE LoopWorks
  <2>1. phase = "visit" /\ loop \in {"exec", "up", "put", "putError"}
    BY <1>1 DEF LoopWorks, LoopMayStep
  <2>2. ExecPutError \/ \E w \in Slot : ExecStep(w)
    BY <1>1, <2>1 DEF LoopWorks, LoopStep, LoopWake, LoopPick, LoopNothing, LoopSleep, LoopPing
  <2>3. added' = added
    BY <2>2, ExecFrame DEF ExecPutError, clientVars
  <2>4. /\ loop' \in {"up", "put", "putError", "ping"}
        /\ chosen' = chosen \/ chosen'.task = NoTask
    <3>1. CASE ExecPutError
      BY <3>1 DEF ExecPutError, NoChoice
    <3>2. ASSUME NEW w \in Slot, ExecStep(w)
          PROVE  /\ loop' \in {"up", "put", "putError", "ping"}
                 /\ chosen' = chosen \/ chosen'.task = NoTask
      <4>1. CASE ExecConsume(w)
        BY <4>1 DEF ExecConsume
      <4>2. CASE ExecUp(w) \/ ExecUpFail(w)
        BY <4>2 DEF ExecUp, ExecUpFail
      <4>3. CASE ExecPutRunning(w)
        BY <4>3 DEF ExecPutRunning, NoChoice
      <4>4. QED
        BY <3>2, <4>1, <4>2, <4>3 DEF ExecStep
    <3>3. QED
      BY <2>2, <3>1, <3>2
  <2>5. QED
    BY <2>1, <2>3, <2>4
<1>2. ASSUME NEW w \in Slot, WatcherWorks(w) PROVE UNCHANGED <<loop, chosen, added>>
  BY <1>2, WatchFrame DEF WatcherWorks
<1>3. \A c \in Client : ~ClientWorks(c)
  BY DEF ClientWorks
<1>4. CASE WorldChanges \/ UNCHANGED rvars
  BY <1>4 DEF WorldChanges, TimePasses, Tick, TimerFire, ContainerExit, rvars, vars, loopVars,
              clientVars
<1>5. QED
  BY <1>1, <1>2, <1>3, <1>4 DEF SchedulerStep, RNext

LEMMA AddedGrows == ASSUME [Next]_vars PROVE added \subseteq added'
<1>1. ASSUME NEW c \in Client, ClientStart(c) \/ ClientStep(c) PROVE added \subseteq added'
  BY <1>1 DEF ClientStart, ClientStep, Add, AddPing, CancelGet, DeleteGet, DownStop, DownRemove,
              DownFail, CancelPut, DeleteStore, Flush
<1>2. ASSUME NEW w \in Slot, ExecStep(w) \/ WatchStep(w) PROVE added' = added
  BY <1>2, ExecFrame, WatchFrame
<1>3. CASE Tick \/ TimerFire \/ UNCHANGED vars \/ \E t \in Task : ContainerExit(t)
  BY <1>3 DEF Tick, TimerFire, ContainerExit, vars, clientVars
<1>4. QED
  BY <1>1, <1>2, <1>3, LoopFrame DEF Next

(* Time makes what lies in memory older, and execTask writes there what it puts.   *)
LEMMA MemoryKept ==
  ASSUME SchedulerStep, TypeOK, TypeOK', Memory
  PROVE  /\ \A t \in Task : Alike(object'[t], object[t]) \/ object'[t] = store'[t]
         /\ \A w \in Slot : Alike(draft'[w], draft[w])
         /\ putting'.task = putting.task /\ Alike(putting'.record, putting.record)
         /\ object' \in [Task -> Recorded] /\ draft' \in [Slot -> Recorded]
         /\ putting' \in [task : {putting.task}, record : Recorded]
<1>1. /\ object \in [Task -> Recorded] /\ draft \in [Slot -> Recorded]
      /\ putting \in [task : {putting.task}, record : Recorded]
  BY DEF Memory, Hand
<1>2. \A r \in Recorded : Alike(r, r) /\ Alike(Later(r), r)
  BY LaterType DEF Alike, Empty
<1>3. CASE SharesKept
  BY <1>1, <1>2, <1>3 DEF SharesKept
<1>4. CASE TimePasses
  <2>1. /\ object' = [t \in Task |-> Later(object[t])] /\ draft' = [w \in Slot |-> Later(draft[w])]
        /\ putting' = [putting EXCEPT !.record = Later(putting.record)]
    BY <1>4 DEF TimePasses
  <2>2. \A r \in Recorded : Later(r) \in Recorded
    BY <1>2 DEF Alike
  <2>3. putting.record \in Recorded
    BY <1>1
  <2>4. putting' = [task |-> putting.task, record |-> Later(putting.record)]
    BY <1>1, <2>1
  <2>5. QED
    BY <1>1, <1>2, <2>1, <2>2, <2>3, <2>4
<1>5. CASE UNCHANGED <<draft, putting>> /\ object' = [object EXCEPT ![visit.task] = store'[visit.task]]
  <2>1. \A t \in Task : object'[t] = IF t = visit.task THEN store'[t] ELSE object[t]
    BY <1>1, <1>5
  <2>2. \A t \in Task : store'[t] \in Recorded
    BY DEF TypeOK
  <2>3. object' \in [Task -> Recorded]
    BY <1>1, <1>5, <2>1, <2>2
  <2>4. QED
    BY <1>1, <1>2, <1>5, <2>1, <2>3
<1>6. QED
  BY <1>3, <1>4, <1>5, StepsOfScheduler

LEMMA LoadingKept ==
  ASSUME RInv, SchedulerStep, TypeOK'
  PROVE  Loading' /\ Visited'
<1>. USE DEF RInv
<1>1. [Next]_vars /\ UNCHANGED <<phase, unseen, visit, update>> /\ added \subseteq added'
  BY StepsOfScheduler, AddedGrows
<1>2. Memory' /\ visit' \in Visit'
  BY <1>1, MemoryKept DEF Loading, Memory, Hand, Visit
<1>3. /\ phase \in {"visit", "put", "turn", "up"}
      /\ unseen \subseteq added' /\ update \subseteq added'
  BY <1>1 DEF Loading
<1>4. CASE phase \in {"visit", "put"}
  <2>1. NoTask \notin unseen
    BY DEF Loading, TypeOK
  <2>2. UNCHANGED <<loop, chosen>>
        \/ (/\ phase = "visit" /\ loop # "idle" /\ loop' \in {"up", "put", "putError", "ping"}
            /\ chosen' = chosen \/ chosen'.task = NoTask)
    BY <1>4, LoopWhileLoading
  <2>3. Loading'
    BY <1>1, <1>2, <1>3, <2>2 DEF Loading
  <2>4. Visited'
    BY <1>1, <2>1, <2>2 DEF Visited
  <2>5. QED
    BY <2>3, <2>4
<1>5. CASE phase \in {"turn", "up"}
  BY <1>1, <1>2, <1>3, <1>5 DEF Loading, Visited
<1>6. QED
  BY <1>3, <1>4, <1>5

(* A watched task that nobody touched has one watcher, and is neither executed   *)
(* nor visited before the watcher has ended.                                    *)
LEMMA AloneKept ==
  ASSUME RInv, SchedulerStep, NEW t \in Task, Plain(t)'
  PROVE  Alone(t)'
<1>. USE DEF RInv
<1>1. [Next]_vars /\ UNCHANGED <<phase, unseen, visit, update, raced>>
  BY StepsOfScheduler
<1>2. ~Touched(t) /\ Alone(t)
  BY <1>1, TouchedStays DEF Plain
<1>. DEFINE Same == \A w \in Slot : Watches(w, t)' <=> Watches(w, t)
            Fewer == \A w \in Slot : Watches(w, t)' => Watches(w, t)
<1>3. ASSUME chosen' = chosen \/ chosen'.task # t PROVE Comes(t)' => Comes(t)
  BY <1>1, <1>3 DEF Comes
<1>4. ASSUME chosen' = chosen \/ chosen'.task # t, Fewer,
             store'[t].status = store[t].status \/ \A w \in Slot : ~Watches(w, t)'
      PROVE  Alone(t)'
  BY <1>2, <1>3, <1>4 DEF Alone, Watchless
<1>. HIDE DEF Same, Fewer
<1>5. CASE LoopStep
  <2>1. Same
    BY <1>5, LoopFrame DEF Same, Watches
  <2>2. CASE LoopPick
    <3>1. store' = store /\ (chosen'.task = t => store[t].status = "Waiting")
      BY <2>2 DEF LoopPick, Ready, Waiting
    <3>2. CASE chosen'.task = t
      BY <1>2, <2>1, <3>1, <3>2 DEF Same, Alone, Watchless
    <3>3. CASE chosen'.task # t
      BY <1>4, <2>1, <3>1, <3>3 DEF Same, Fewer
    <3>4. QED
      BY <3>2, <3>3
  <2>3. CASE ExecPutError
    <3>1. chosen'.task # t
      BY <2>3 DEF ExecPutError, NoChoice
    <3>2. chosen.task = t => Watchless(t)
      BY <1>2 DEF Alone, Comes
    <3>3. chosen.task # t => store'[t] = store[t]
      BY <2>3 DEF ExecPutError, Put, TypeOK
    <3>4. QED
      BY <1>4, <2>1, <3>1, <3>2, <3>3 DEF Same, Fewer, Watchless
  <2>4. CASE LoopWake \/ LoopNothing \/ LoopSleep \/ LoopPing
    <3>1. store' = store /\ chosen' = chosen
      BY <2>4 DEF LoopWake, LoopNothing, LoopSleep, LoopPing
    <3>2. QED
      BY <1>4, <2>1, <3>1 DEF Same, Fewer
  <2>5. QED
    BY <1>5, <2>2, <2>3, <2>4 DEF LoopStep
<1>6. ASSUME NEW w \in Slot, ExecStep(w) PROVE Alone(t)'
  <2>1. CASE ExecConsume(w) \/ ExecUp(w) \/ ExecUpFail(w)
    <3>1. store' = store /\ chosen' = chosen
      BY <2>1 DEF ExecConsume, ExecUp, ExecUpFail
    <3>2. slot'[w].pc \in {"up", "put", "release"}
      <4>1. CASE ExecConsume(w)
        BY <4>1 DEF ExecConsume, FreeSlot, TypeOK
      <4>2. CASE ExecUp(w) \/ ExecUpFail(w)
        BY <4>2, MoveType DEF ExecUp, ExecUpFail, SlotPc, Results, TypeOK
      <4>3. QED
        BY <2>1, <4>1, <4>2
    <3>3. \A v \in Slot \ {w} : slot'[v] = slot[v]
      BY <2>1 DEF ExecConsume, ExecUp, ExecUpFail, Move, TypeOK
    <3>4. Fewer
      BY <3>2, <3>3 DEF Fewer, Watches
    <3>5. QED
      BY <1>4, <3>1, <3>4
  <2>2. CASE ExecPutRunning(w)
    <3>1. /\ slot'[w].pc = "wait" /\ slot'[w].task = slot[w].task
          /\ \A v \in Slot \ {w} : slot'[v] = slot[v]
      BY <2>2, MoveType DEF ExecPutRunning, SlotPc, Results, TypeOK
    <3>2. chosen'.task = NoTask /\ t # NoTask /\ slot[w].task = chosen.task
      BY <2>2 DEF ExecPutRunning, NoChoice, Starting
    <3>3. CASE chosen.task = t
      <4>1. Watchless(t)
        BY <1>2, <3>3 DEF Alone, Comes
      <4>2. \A v \in Slot : Watches(v, t)' => v = w
        BY <3>1, <4>1 DEF Watches, Watchless
      <4>3. store'[t].status = "Running"
        BY <2>2, <3>3 DEF ExecPutRunning, Put, Record, TypeOK
      <4>4. ~Comes(t)'
        BY <1>1, <2>2, <3>2, <3>3 DEF Comes, Visited, Loading, ExecPutRunning
      <4>5. QED
        BY <4>2, <4>3, <4>4 DEF Alone
    <3>4. CASE chosen.task # t
      <4>1. Fewer
        BY <3>1, <3>2, <3>4 DEF Fewer, Watches
      <4>2. store'[t] = store[t]
        BY <2>2, <3>4 DEF ExecPutRunning, Put, TypeOK
      <4>3. QED
        BY <1>4, <3>2, <4>1, <4>2
    <3>5. QED
      BY <3>3, <3>4
  <2>3. QED
    BY <1>6, <2>1, <2>2 DEF ExecStep
<1>7. ASSUME NEW w \in Slot, WatchStep(w) PROVE Alone(t)'
  <2>1. chosen' = chosen
    BY <1>7, WatchFrame
  <2>2. \A v \in Slot \ {w} : slot'[v] = slot[v]
    BY <1>7, WatchMoves
  <2>3. CASE WatchPut(w)
    <3>1. ~Watches(w, t)'
      BY <1>7, <2>3, WatchMoves
    <3>2. Fewer
      BY <2>2, <3>1 DEF Fewer, Watches
    <3>3. CASE slot[w].task = t
      <4>1. Watches(w, t)
        BY <2>3, <3>3 DEF WatchPut, Watches
      <4>2. \A v \in Slot : ~Watches(v, t)'
        BY <1>2, <3>1, <3>2, <4>1 DEF Alone, Fewer
      <4>3. QED
        BY <1>4, <2>1, <3>2, <4>2
    <3>4. CASE slot[w].task # t
      <4>1. store'[t] = store[t]
        BY <2>3, <3>4 DEF WatchPut, Put, TypeOK
      <4>2. QED
        BY <1>4, <2>1, <3>2, <4>1
    <3>5. QED
      BY <3>3, <3>4
  <2>4. CASE ~WatchPut(w)
    <3>1. store' = store /\ Fewer
      BY <1>7, <2>2, <2>4, WatchMoves DEF Fewer, Watches
    <3>2. QED
      BY <1>4, <2>1, <3>1
  <2>5. QED
    BY <2>3, <2>4
<1>8. ASSUME NEW c \in Client, ClientStart(c) \/ ClientStep(c) PROVE Alone(t)'
  <2>1. chosen' = chosen /\ Fewer
    BY <1>8, ClientsFrame DEF Fewer, Watches
  <2>2. CASE store'[t] = store[t]
    BY <1>4, <2>1, <2>2
  <2>3. CASE store'[t] # store[t]
    <3>1. Add(c, t)
      <4>1. ~(CancelPut(c) \/ DeleteStore(c) \/ Flush(c))
        BY <2>3 DEF CancelPut, DeleteStore, Flush, Put, Plain, Touched, TypeOK
      <4>2. \A u \in Task \ {t} : ~Add(c, u)
        BY <2>3 DEF Add, Put, TypeOK
      <4>3. QED
        BY <1>8, <2>3, <4>1, <4>2
        DEF ClientStart, ClientStep, CancelGet, DeleteGet, AddPing, DownStop, DownRemove, DownFail
    <3>2. t \notin added
      BY <3>1 DEF Add
    <3>3. \A w \in Slot : ~Watches(w, t)
      BY <3>2 DEF Known, Watches
    <3>4. QED
      BY <1>4, <2>1, <3>3 DEF Fewer
  <2>4. QED
    BY <2>2, <2>3
<1>9. CASE Tick
  <2>1. store'[t].status = store[t].status /\ chosen' = chosen /\ slot' = slot
    BY <1>9, LaterType DEF Tick, loopVars, TypeOK
  <2>2. QED
    BY <1>4, <2>1 DEF Fewer, Watches
<1>10. CASE TimerFire \/ UNCHANGED vars \/ \E u \in Task : ContainerExit(u)
  <2>1. store' = store /\ chosen' = chosen /\ slot' = slot
    BY <1>10 DEF TimerFire, vars, ContainerExit, loopVars
  <2>2. QED
    BY <1>4, <2>1 DEF Fewer, Watches
<1>11. QED
  BY <1>1, <1>5, <1>6, <1>7, <1>8, <1>9, <1>10 DEF Next

-----------------------------------------------------------------------------
LEMMA RInvInit == RInit => RInv
<1>. SUFFICES ASSUME RInit PROVE RInv
  OBVIOUS
<1>1. /\ Init /\ phase = "up" /\ unseen = {} /\ visit = NoVisit /\ update = {} /\ putting = NoPut
      /\ object = [t \in Task |-> Absent] /\ draft = [w \in Slot |-> Absent]
  BY DEF RInit, NoLoad
<1>2. /\ \A w \in Slot : slot[w].pc = "free" /\ slot[w].task = NoTask
      /\ \A c \in Client : call[c].pc = "idle" /\ call[c].task = NoTask
      /\ \A t \in Task : store[t].status = "Absent"
      /\ chosen.task = NoTask /\ loop = "idle" /\ added = {}
  BY <1>1 DEF Init, FreeSlot, IdleCall, NoChoice, Absent, Record
<1>3. TypeOK
  BY <1>1, InitTypes
<1>4. Known /\ Starting
  BY <1>2 DEF Known, Starting, Stored
<1>5. Accounted
  <2>1. Held = {}
    BY <1>2 DEF Held
  <2>2. QED
    BY <1>1, <2>1, UnitsOfNone DEF Init, Accounted, ResourcesConserved
<1>6. Loading /\ Visited /\ Woken
  <2>1. Absent \in Recorded
    BY DEF Absent, Record, Recorded, Status, Horizon
  <2>2. Memory
    BY <1>1, <2>1 DEF Memory, Hand, NoPut
  <2>3. visit \in Visit
    BY <1>1 DEF Visit, NoVisit, Status
  <2>4. QED
    BY <1>1, <1>2, <2>2, <2>3 DEF Loading, Visited, Woken, NoLostWakeup, Waiting
<1>7. \A t \in Task : Alone(t)
  BY <1>2 DEF Alone, Watchless, Watches
<1>8. QED
  BY <1>3, <1>4, <1>5, <1>6, <1>7 DEF RInv

LEMMA RInvStep == RInv /\ [RNext]_rvars => RInv'
<1>. SUFFICES ASSUME RInv, [RNext]_rvars PROVE RInv'
  OBVIOUS
<1>1. CASE LoadStep
  BY <1>1, LoadSteps
<1>2. CASE Stop
  BY <1>2, StopStep
<1>3. CASE SchedulerStep
  <2>1. [Next]_vars /\ phase' = phase
    BY <1>3, StepsOfScheduler
  <2>2. TypeOK'
    BY <2>1, StepTypes DEF RInv
  <2>3. Known' /\ Starting' /\ Accounted'
    BY <2>1, <2>2, StepKnown, StepStarting, StepAccounted DEF RInv
  <2>4. Woken'
    BY <2>1, StepNoLostWakeup DEF RInv, Woken
  <2>5. QED
    BY <1>3, <2>2, <2>3, <2>4, LoadingKept, AloneKept DEF RInv
<1>4. ASSUME NEW w \in Slot, SharedStep(w) PROVE RInv'
  BY <1>4, SharedStepKeeps
<1>5. QED
  BY <1>1, <1>2, <1>3, <1>4 DEF SchedulerStep

LEMMA RInvAlways == RSpec => []RInv
BY RInvInit, RInvStep, PTL DEF RSpec

(* A server that has restarted owes every waiting task a wake-up, wherever the    *)
(* stop has hit and whatever Load has changed: its last turn looks at all of them. *)
THEOREM WokenAfterRestart == RSpec => []NoWakeupLostByRestart
<1>1. RInv => NoWakeupLostByRestart
  BY DEF RInv, Woken, NoWakeupLostByRestart
<1>2. QED
  BY <1>1, RInvAlways, PTL

(* The counters of a restarted process, which adopts runs it has not started,     *)
(* are what its watchers hold, while it loads too.                               *)
THEOREM AdoptionIsAccounted == RSpec => []ResourcesConserved
<1>1. RInv => ResourcesConserved
  BY DEF RInv, Accounted
<1>2. QED
  BY <1>1, RInvAlways, PTL

(* A load attaches one watcher to a run, and nothing executes the task meanwhile: *)
(* two runs of an untouched task do not overlap after any number of restarts, but *)
(* if Load has put the task, other than as Running, before its watcher did.       *)
THEOREM OneRunAfterRestart == RSpec => []OneRunUnlessRaced
<1>1. ASSUME RInv PROVE OneRunUnlessRaced
  <2>. SUFFICES ASSUME NEW t \in Task, ~Touched(t), t \notin raced,
                       NEW v \in Executing(t), NEW w \in Executing(t)
                PROVE  v = w
    BY DEF OneRunUnlessRaced
  <2>1. Alone(t) /\ Starting
    BY <1>1 DEF RInv, Plain
  <2>2. CASE chosen.task = t
    <3>1. Watchless(t)
      BY <2>1, <2>2 DEF Alone, Comes
    <3>2. QED
      BY <2>1, <3>1 DEF Starting, Executing, Watching, Watchless
  <2>3. CASE chosen.task # t
    BY <2>1, <2>3 DEF Starting, Executing, Watching, Alone
  <2>4. QED
    BY <2>2, <2>3
<1>2. QED
  BY <1>1, RInvAlways, PTL
-----------------------------------------------------------------------------
(* A restart within the machine.  What a container runs on is held by a watcher, *)
(* or is about to be taken: by the loop, which looked for room, or by Load, which *)
(* does not look, and adopts what was running when the process stopped.          *)
Holds(w, t) == slot[w].task = t /\ slot[w].pc # "free"
Mans(w, t) == slot[w].task = t /\ slot[w].pc \in {"up", "put", "wait", "kill"}
Runs(t) == ct[t] = "running" /\ store[t].run

(* The tasks that will take resources without a look.                           *)
Pending == {t \in Task : \/ phase = "visit" /\ t \in unseen /\ Runs(t)
                         \/ loop = "exec" /\ chosen.task = t}
Fits == /\ IsFiniteSet(UnitsOf(Pending, Cpu)) /\ Total(Pending, Cpu) <= cpu
        /\ IsFiniteSet(UnitsOf(Pending, Ram)) /\ Total(Pending, Ram) <= ram

(* A container that runs is waited for, or all of its watchers went with a stop.  *)
Manned == \A t \in Task : ct[t] = "running" =>
            (\E w \in Slot : Mans(w, t)) \/ \A w \in Slot : ~Holds(w, t)

(* One that nobody will take resources for, since the process stopped between Up  *)
(* and Put, has no run in the store, and none on its way into the store: a stop   *)
(* more does not adopt it either.                                               *)
Unclaimed(t) == ct[t] = "running" /\ t \notin Pending /\ \A w \in Slot : ~Holds(w, t)
DormantAt(t) == /\ ~store[t].run
                /\ \A c \in Client : call[c].task = t => ~call[c].copy.run
                /\ t \in update => ~object[t].run
                /\ putting.task = t => ~putting.record.run
Dormant == \A t \in Task : Unclaimed(t) => DormantAt(t)

(* What is not stored has no run, wherever it lies.                              *)
Blank == /\ \A t \in Task : Empty(store[t]) /\ Empty(object[t])
         /\ \A c \in Client : Empty(call[c].copy)
         /\ \A w \in Slot : Empty(draft[w])
         /\ Empty(putting.record)

(* Load adopts what it visits, and what it adopted is held as long as it runs.    *)
Adopted == /\ loop # "putError"
           /\ phase = "visit" =>
                /\ loop \in {"exec", "up", "put"} => chosen.task = visit.task
                /\ loop = "ping" /\ ct[visit.task] = "running"
                     => \E w \in Slot : Holds(w, visit.task)
                /\ \A w \in Slot, t \in unseen : ~Holds(w, t)

GInv == RInv /\ Manned /\ Dormant /\ Blank /\ Adopted /\ Fits

-----------------------------------------------------------------------------
(* What steps of module Scheduler do to containers and to those who wait for them. *)
LEMMA UpStarts ==
  ASSUME DockerFails = FALSE, TypeOK, [Next]_vars, NEW t \in Task,
         ct'[t] = "running", ct[t] # "running"
  PROVE  \E w \in Slot : ExecUp(w) /\ chosen.task = t
<1>. USE DEF TypeOK
<1>1. ASSUME NEW w \in Slot, ExecStep(w) PROVE ExecUp(w) /\ chosen.task = t
  BY <1>1 DEF ExecStep, ExecConsume, ExecUp, ExecUpFail, ExecPutRunning
<1>2. ASSUME NEW w \in Slot, WatchStep(w) PROVE FALSE
  BY <1>2 DEF WatchStep, WaitExit, WaitDeadline, WaitError, Kill, KillFail, Inspect, InspectFail,
              WatchPut, WatchPing, Release
<1>3. ASSUME NEW c \in Client, ClientStart(c) \/ ClientStep(c) PROVE FALSE
  BY <1>3 DEF ClientStart, ClientStep, Add, AddPing, CancelGet, DeleteGet, DownStop, DownRemove,
              DownFail, CancelPut, DeleteStore, Flush
<1>4. ASSUME NEW u \in Task, ContainerExit(u) PROVE FALSE
  BY <1>4 DEF ContainerExit
<1>5. CASE LoopStep
  BY <1>5, LoopFrame
<1>6. CASE Tick \/ TimerFire \/ UNCHANGED vars
  BY <1>6 DEF Tick, TimerFire, vars
<1>7. QED
  BY <1>1, <1>2, <1>3, <1>4, <1>5, <1>6 DEF Next

LEMMA MansStays ==
  ASSUME DockerFails = FALSE, TypeOK, Starting, [Next]_vars, NEW t \in Task, NEW v \in Slot,
         Mans(v, t), ct'[t] = "running"
  PROVE  Mans(v, t)'
<1>. USE DEF TypeOK, Mans
<1>1. CASE UNCHANGED slot
  BY <1>1
<1>2. ASSUME NEW w \in Slot, ExecStep(w) PROVE Mans(v, t)'
  <2>1. CASE ExecConsume(w)
    BY <2>1 DEF ExecConsume
  <2>2. CASE ExecUp(w)
    BY <2>2, MoveType DEF ExecUp, SlotPc, Results
  <2>3. CASE ExecPutRunning(w)
    BY <2>3, MoveType DEF ExecPutRunning, SlotPc, Results
  <2>4. QED
    BY <1>2, <2>1, <2>2, <2>3 DEF ExecStep, ExecUpFail
<1>3. ASSUME NEW w \in Slot, WatchStep(w) PROVE Mans(v, t)'
  <2>1. CASE v # w
    BY <1>3, <2>1, WatchMoves
  <2>2. CASE v = w /\ WaitDeadline(w)
    BY <2>2, MoveType DEF WaitDeadline, SlotPc, Results
  <2>3. CASE v = w /\ ~WaitDeadline(w)
    BY <1>3, <2>3 DEF WatchStep, WaitExit, WaitError, Kill, KillFail, Inspect, InspectFail,
                      WatchPut, WatchPing, Release
  <2>4. QED
    BY <2>1, <2>2, <2>3
<1>4. ASSUME NEW c \in Client, ClientStart(c) \/ ClientStep(c) PROVE UNCHANGED slot
  BY <1>4, ClientsFrame
<1>5. CASE LoopStep
  BY <1>1, <1>5, LoopFrame
<1>6. CASE Tick \/ TimerFire \/ UNCHANGED vars \/ \E u \in Task : ContainerExit(u)
  BY <1>1, <1>6 DEF Tick, TimerFire, vars, ContainerExit
<1>7. QED
  BY <1>1, <1>2, <1>3, <1>4, <1>5, <1>6 DEF Next

(* Only Consume gives a task to a watcher.                                      *)
LEMMA HoldsBefore ==
  ASSUME TypeOK, [Next]_vars, NEW t \in Task, NEW w \in Slot, Holds(w, t)', ~Holds(w, t)
  PROVE  ExecConsume(w) /\ chosen.task = t /\ Mans(w, t)'
<1>. USE DEF TypeOK, Holds
<1>1. ~UNCHANGED slot
  OBVIOUS
<1>2. ASSUME NEW v \in Slot, ExecStep(v) PROVE ExecConsume(w) /\ chosen.task = t /\ Mans(w, t)'
  <2>1. CASE ExecConsume(v)
    BY <2>1 DEF ExecConsume, FreeSlot, Mans
  <2>2. CASE ExecUp(v) \/ ExecUpFail(v) \/ ExecPutRunning(v)
    <3>1. \E pc \in {"put", "release", "wait"} : Move(v, pc, "Waiting")
      BY <2>2 DEF ExecUp, ExecUpFail, ExecPutRunning
    <3>2. slot'[v].task = slot[v].task /\ \A u \in Slot \ {v} : slot'[u] = slot[u]
      BY <3>1, MoveType DEF SlotPc, Results
    <3>3. slot[v].pc # "free"
      BY <2>2 DEF ExecUp, ExecUpFail, ExecPutRunning
    <3>4. QED
      BY <3>2, <3>3
  <2>3. QED
    BY <1>2, <2>1, <2>2 DEF ExecStep
<1>3. ASSUME NEW v \in Slot, WatchStep(v) PROVE FALSE
  <2>1. v = w
    BY <1>3, WatchMoves
  <2>2. CASE Release(v)
    BY <2>1, <2>2 DEF Release, FreeSlot
  <2>3. CASE ~Release(v)
    <3>1. slot[v].result \in Results
      BY DEF SlotState
    <3>2. \E pc \in {"inspect", "kill", "save", "ping", "release"}, result \in Results :
            Move(v, pc, result)
      BY <1>3, <2>3, <3>1 DEF WatchStep, WaitExit, WaitDeadline, WaitError, Kill, KillFail,
                              Inspect, InspectFail, WatchPut, WatchPing, Results
    <3>3. slot'[v].task = slot[v].task
      BY <3>2, MoveType DEF SlotPc
    <3>4. slot[v].pc # "free"
      BY <1>3 DEF WatchStep, WaitExit, WaitDeadline, WaitError, Kill, KillFail, Inspect,
                 InspectFail, WatchPut, WatchPing, Release
    <3>5. QED
      BY <2>1, <3>3, <3>4
  <2>4. QED
    BY <2>2, <2>3
<1>4. ASSUME NEW c \in Client, ClientStart(c) \/ ClientStep(c) PROVE UNCHANGED slot
  BY <1>4, ClientsFrame
<1>5. CASE LoopStep
  BY <1>1, <1>5, LoopFrame
<1>6. CASE Tick \/ TimerFire \/ UNCHANGED vars \/ \E u \in Task : ContainerExit(u)
  BY <1>1, <1>6 DEF Tick, TimerFire, vars, ContainerExit
<1>7. QED
  BY <1>1, <1>2, <1>3, <1>4, <1>5, <1>6 DEF Next

LEMMA StepManned ==
  ASSUME DockerFails = FALSE, TypeOK, Starting, Manned, [Next]_vars
  PROVE  Manned'
<1>. SUFFICES ASSUME NEW t \in Task, ct'[t] = "running", NEW w \in Slot, Holds(w, t)'
              PROVE  \E v \in Slot : Mans(v, t)'
  BY DEF Manned
<1>1. CASE ct[t] # "running"
  <2>1. PICK v \in Slot : ExecUp(v) /\ chosen.task = t
    BY <1>1, UpStarts
  <2>2. Mans(v, t)
    BY <2>1 DEF ExecUp, Mans, Starting
  <2>3. QED
    BY <2>2, MansStays
<1>2. CASE ct[t] = "running" /\ \E v \in Slot : Mans(v, t)
  BY <1>2, MansStays
<1>3. CASE ct[t] = "running" /\ \A v \in Slot : ~Holds(v, t)
  BY <1>3, HoldsBefore
<1>4. QED
  BY <1>1, <1>2, <1>3 DEF Manned

(* As long as a container runs, it keeps a watcher that it has.                  *)
LEMMA HeldStays ==
  ASSUME DockerFails = FALSE, TypeOK, Starting, Manned, [Next]_vars, NEW t \in Task,
         NEW w \in Slot, Holds(w, t), ct[t] = "running", ct'[t] = "running"
  PROVE  \E v \in Slot : Holds(v, t)'
<1>1. PICK v \in Slot : Mans(v, t)
  BY DEF Manned
<1>2. Mans(v, t)'
  BY <1>1, MansStays
<1>3. QED
  BY <1>2 DEF Mans, Holds

(* Who writes a run into the store: a watcher, the loop for its watcher, or a      *)
(* Cancel that has a copy with a run.                                           *)
LEMMA RunIsWritten ==
  ASSUME TypeOK, Starting, loop # "putError", SchedulerStep, NEW t \in Task,
         store'[t].run # store[t].run
  PROVE  \/ store'[t].run /\ \E w \in Slot : Holds(w, t)
         \/ phase = "up" /\ \E c \in Client : ClientStart(c) \/ ClientStep(c)
<1>. USE DEF TypeOK
<1>1. ASSUME NEW w \in Slot, ExecStep(w) PROVE store'[t].run /\ Holds(w, t)
  BY <1>1 DEF ExecStep, ExecConsume, ExecUp, ExecUpFail, ExecPutRunning, Put, Record, Starting, Holds
<1>2. ASSUME NEW w \in Slot, WatchStep(w) PROVE store'[t].run /\ Holds(w, t)
  <2>1. WatchPut(w)
    BY <1>2, WatchMoves
  <2>2. slot[w].task = t /\ slot[w].pc = "save" /\ store'[t] = AfterRun(t, slot[w].result)
    BY <2>1 DEF WatchPut, Put
  <2>3. AfterRun(t, slot[w].result).run
    BY DEF AfterRun, Record
  <2>4. QED
    BY <2>2, <2>3 DEF Holds
<1>3. CASE LoopStep
  BY <1>3 DEF LoopStep, LoopWake, LoopPick, LoopNothing, LoopSleep, ExecPutError, LoopPing
<1>4. CASE Tick
  BY <1>4, LaterType DEF Tick
<1>5. CASE TimerFire \/ UNCHANGED rvars \/ \E u \in Task : ContainerExit(u)
  BY <1>5 DEF TimerFire, rvars, vars, ContainerExit
<1>6. QED
  BY <1>1, <1>2, <1>3, <1>4, <1>5
  DEF SchedulerStep, RNext, LoopWorks, WatcherWorks, ClientWorks, WorldChanges, TimePasses

(* What a client writes, and the copy it keeps, come from the store.             *)
LEMMA RunIsCopied ==
  ASSUME TypeOK, Known, NEW c \in Client, ClientStart(c) \/ ClientStep(c), NEW t \in Task
  PROVE  /\ store'[t].run => store[t].run \/ (call[c].task = t /\ call[c].copy.run)
         /\ \A d \in Client : call'[d].task = t /\ call'[d].copy.run
              => store[t].run \/ (call[d].task = t /\ call[d].copy.run)
<1>. USE DEF TypeOK
<1>1. NoTask # t /\ ~Absent.run
  BY DEF Absent, Record
<1>2. ASSUME NEW u \in Task, Add(c, u)
      PROVE  /\ store'[t].run => store[t].run
             /\ \A d \in Client : call'[d].task = t => call'[d] = call[d]
  <2>1. store'[u].run = FALSE /\ (t # u => store'[t] = store[t])
    BY <1>2 DEF Add, Put, Record
  <2>2. call'[c].task = NoTask /\ \A d \in Client \ {c} : call'[d] = call[d]
    BY <1>2 DEF Add, IdleCall
  <2>3. QED
    BY <1>1, <2>1, <2>2
<1>3. ASSUME NEW u \in Task, CancelGet(c, u) \/ DeleteGet(c, u)
      PROVE  /\ store' = store
             /\ \A d \in Client \ {c} : call'[d] = call[d]
             /\ call'[c].task = t /\ call'[c].copy.run => store[t].run
  <2>1. store' = store /\ \A d \in Client \ {c} : call'[d] = call[d]
    BY <1>3 DEF CancelGet, DeleteGet, Get
  <2>2. call'[c].task = u /\ call'[c].copy \in {store[u], Absent}
    BY <1>3 DEF CancelGet, DeleteGet, Get
  <2>3. QED
    BY <1>1, <2>1, <2>2
<1>4. CASE Flush(c)
  BY <1>1, <1>4 DEF Flush
<1>5. CASE AddPing(c) \/ CancelPut(c) \/ DeleteStore(c)
  <2>1. call'[c].task = NoTask /\ \A d \in Client \ {c} : call'[d] = call[d]
    BY <1>5 DEF AddPing, CancelPut, DeleteStore, Reply, IdleCall
  <2>2. store'[t].run => store[t].run \/ (call[c].task = t /\ call[c].copy.run)
    BY <1>1, <1>5 DEF AddPing, CancelPut, DeleteStore, Put
  <2>3. QED
    BY <1>1, <2>1, <2>2
<1>6. CASE DownStop(c) \/ DownRemove(c) \/ DownFail(c)
  <2>1. store' = store
    BY <1>6 DEF DownStop, DownRemove, DownFail
  <2>2. \E pc \in CallPc : \E copy \in {call[c].copy, [call[c].copy EXCEPT !.status = "Canceled"]} :
          GoTo(c, pc, copy)
    BY <1>6 DEF DownStop, DownRemove, DownFail, AfterDown, CallPc
  <2>3. \A d \in Client : call'[d].task = call[d].task /\ call'[d].copy.run = call[d].copy.run
    BY <2>2 DEF GoTo, CallState, Recorded
  <2>4. QED
    BY <2>1, <2>3
<1>7. QED
  BY <1>2, <1>3, <1>4, <1>5, <1>6 DEF ClientStart, ClientStep

(* A record without a task has no run, whoever writes it.                        *)
LEMMA StepBlank ==
  ASSUME TypeOK, Starting, loop # "putError", Blank, [Next]_vars
  PROVE  /\ \A t \in Task : Empty(store'[t])
         /\ \A c \in Client : Empty(call'[c].copy)
<1>. USE DEF TypeOK, Empty
<1>1. Empty(Absent)
  BY DEF Absent, Record
<1>2. ASSUME NEW c \in Client, ClientStart(c) \/ ClientStep(c)
      PROVE  /\ \A t \in Task : Empty(store'[t])
             /\ \A d \in Client : Empty(call'[d].copy)
  <2>1. CASE DownStop(c) \/ DownRemove(c) \/ DownFail(c)
    <3>1. store' = store
      BY <2>1 DEF DownStop, DownRemove, DownFail
    <3>2. \E pc \in CallPc : \E copy \in {call[c].copy, [call[c].copy EXCEPT !.status = "Canceled"]} :
            GoTo(c, pc, copy)
      BY <2>1 DEF DownStop, DownRemove, DownFail, AfterDown, CallPc
    <3>3. \A d \in Client : call'[d].copy.status # "Absent" \/ call'[d].copy = call[d].copy
      BY <3>2 DEF GoTo, CallState, Recorded
    <3>4. QED
      BY <3>1, <3>3 DEF Blank
  <2>2. CASE AddPing(c) \/ CancelPut(c) \/ DeleteStore(c)
    <3>1. /\ call'[c].copy = Absent /\ \A d \in Client \ {c} : call'[d] = call[d]
      BY <2>2 DEF AddPing, CancelPut, DeleteStore, Reply, IdleCall
    <3>2. \A t \in Task : store'[t] \in {store[t], call[c].copy, Absent}
      BY <2>2 DEF AddPing, CancelPut, DeleteStore, Put
    <3>3. \A t \in Task : Empty(store'[t])
      BY <1>1, <3>2 DEF Blank
    <3>4. QED
      BY <1>1, <3>1, <3>3 DEF Blank
  <2>3. ASSUME NEW u \in Task, Add(c, u)
        PROVE  /\ \A t \in Task : Empty(store'[t])
               /\ \A d \in Client : Empty(call'[d].copy)
    <3>1. store'[u].run = FALSE /\ \A t \in Task \ {u} : store'[t] = store[t]
      BY <2>3 DEF Add, Put, Record
    <3>2. /\ call'[c].copy = Absent /\ \A d \in Client \ {c} : call'[d] = call[d]
      BY <2>3 DEF Add, IdleCall
    <3>3. QED
      BY <1>1, <3>1, <3>2 DEF Blank
  <2>4. ASSUME NEW u \in Task, CancelGet(c, u) \/ DeleteGet(c, u)
        PROVE  /\ \A t \in Task : Empty(store'[t])
               /\ \A d \in Client : Empty(call'[d].copy)
    <3>1. store' = store /\ \A d \in Client \ {c} : call'[d] = call[d]
      BY <2>4 DEF CancelGet, DeleteGet, Get
    <3>2. call'[c].copy \in {store[u], Absent}
      BY <2>4 DEF CancelGet, DeleteGet, Get
    <3>3. QED
      BY <1>1, <3>1, <3>2 DEF Blank
  <2>5. CASE Flush(c)
    <3>1. call' = call /\ \A t \in Task : store'[t] \in {store[t], Absent}
      BY <2>5 DEF Flush
    <3>2. QED
      BY <1>1, <3>1 DEF Blank
  <2>6. QED
    BY <1>2, <2>1, <2>2, <2>3, <2>4, <2>5 DEF ClientStart, ClientStep
<1>3. ASSUME NEW w \in Slot, ExecStep(w)
      PROVE  call' = call /\ \A t \in Task : Empty(store'[t])
  BY <1>3, ExecFrame DEF ExecStep, ExecConsume, ExecUp, ExecUpFail, ExecPutRunning, Put, Record, Blank
<1>4. ASSUME NEW w \in Slot, WatchStep(w)
      PROVE  call' = call /\ \A t \in Task : Empty(store'[t])
  <2>1. call' = call
    BY <1>4, WatchFrame
  <2>2. CASE WatchPut(w)
    <3>1. slot[w].result \in Results
      BY DEF SlotState
    <3>2. \A t \in Task : t = slot[w].task => store'[t] = AfterRun(t, slot[w].result)
      BY <2>2 DEF WatchPut, Put
    <3>3. \A t \in Task : t # slot[w].task => store'[t] = store[t]
      BY <2>2 DEF WatchPut, Put
    <3>4. \A t \in Task : Empty(store'[t])
      BY <3>1, <3>2, <3>3, AfterRunType DEF Blank
    <3>5. QED
      BY <2>1, <3>4
  <2>3. CASE ~WatchPut(w)
    BY <1>4, <2>1, <2>3, WatchMoves DEF Blank
  <2>4. QED
    BY <2>2, <2>3
<1>5. CASE LoopStep
  <2>1. store' = store /\ call' = call
    BY <1>5, LoopFrame DEF LoopStep, LoopWake, LoopPick, LoopNothing, LoopSleep, ExecPutError, LoopPing
  <2>2. QED
    BY <2>1 DEF Blank
<1>6. CASE Tick
  <2>1. \A t \in Task : Empty(store'[t])
    BY <1>6, LaterType DEF Tick, Blank
  <2>2. \A c \in Client : call[c].copy \in Recorded /\ call'[c].copy = Later(call[c].copy)
    BY <1>6 DEF Tick, CallState
  <2>3. \A c \in Client : Empty(call'[c].copy)
    BY <2>2, LaterType DEF Blank
  <2>4. QED
    BY <2>1, <2>3
<1>7. CASE TimerFire \/ UNCHANGED vars \/ \E u \in Task : ContainerExit(u)
  <2>1. store' = store /\ call' = call
    BY <1>7 DEF TimerFire, vars, ContainerExit, clientVars
  <2>2. QED
    BY <2>1 DEF Blank
<1>8. QED
  BY <1>2, <1>3, <1>4, <1>5, <1>6, <1>7 DEF Next, Blank

(* The loop leaves a task that it is about to execute by executing it.           *)
LEMMA LeavesExec ==
  ASSUME [Next]_vars, loop = "exec"
  PROVE  UNCHANGED <<loop, chosen>> \/ \E w \in Slot : ExecConsume(w)
<1>1. ASSUME NEW w \in Slot, ExecStep(w) PROVE ExecConsume(w)
  BY <1>1 DEF ExecStep, ExecUp, ExecUpFail, ExecPutRunning
<1>2. ASSUME NEW w \in Slot, WatchStep(w) PROVE UNCHANGED <<loop, chosen>>
  BY <1>2, WatchFrame
<1>3. ASSUME NEW c \in Client, ClientStart(c) \/ ClientStep(c) PROVE UNCHANGED <<loop, chosen>>
  BY <1>3, ClientsFrame
<1>4. ~LoopStep
  BY DEF LoopStep, LoopWake, LoopPick, LoopNothing, LoopSleep, ExecPutError, LoopPing
<1>5. CASE Tick \/ TimerFire \/ UNCHANGED vars \/ \E u \in Task : ContainerExit(u)
  BY <1>5 DEF Tick, TimerFire, vars, loopVars, ContainerExit
<1>6. QED
  BY <1>1, <1>2, <1>3, <1>4, <1>5 DEF Next

(* Only a look gives it one to execute.                                         *)
LEMMA EntersExec ==
  ASSUME [Next]_vars, loop' = "exec", ~LoopPick
  PROVE  UNCHANGED <<loop, chosen>>
<1>1. ASSUME NEW w \in Slot, ExecStep(w) PROVE FALSE
  BY <1>1 DEF ExecStep, ExecConsume, ExecUp, ExecUpFail, ExecPutRunning
<1>2. ASSUME NEW w \in Slot, WatchStep(w) PROVE UNCHANGED <<loop, chosen>>
  BY <1>2, WatchFrame
<1>3. ASSUME NEW c \in Client, ClientStart(c) \/ ClientStep(c) PROVE UNCHANGED <<loop, chosen>>
  BY <1>3, ClientsFrame
<1>4. ~LoopStep
  BY DEF LoopStep, LoopWake, LoopNothing, LoopSleep, ExecPutError, LoopPing
<1>5. CASE Tick \/ TimerFire \/ UNCHANGED vars \/ \E u \in Task : ContainerExit(u)
  BY <1>5 DEF Tick, TimerFire, vars, loopVars, ContainerExit
<1>6. QED
  BY <1>1, <1>2, <1>3, <1>4, <1>5 DEF Next

(* What nobody claims after a step was claimed by nobody before.                 *)
LEMMA UnclaimedBefore ==
  ASSUME DockerFails = FALSE, GInv, SchedulerStep, NEW t \in Task, Unclaimed(t)'
  PROVE  Unclaimed(t)
<1>. USE DEF GInv, RInv
<1>1. [Next]_vars /\ UNCHANGED <<phase, unseen, visit, update, raced>>
  BY StepsOfScheduler
<1>2. ct'[t] = "running" /\ t \notin Pending' /\ \A w \in Slot : ~Holds(w, t)'
  BY DEF Unclaimed
<1>3. ct[t] = "running"
  <2>. SUFFICES ASSUME ct[t] # "running" PROVE FALSE
    OBVIOUS
  <2>1. PICK w \in Slot : ExecUp(w) /\ chosen.task = t
    BY <1>1, <1>2, UpStarts
  <2>2. Mans(w, t)
    BY <2>1 DEF ExecUp, Mans, Starting
  <2>3. Mans(w, t)'
    BY <1>1, <1>2, <2>2, MansStays
  <2>4. QED
    BY <1>2, <2>3 DEF Mans, Holds
<1>4. \A w \in Slot : ~Holds(w, t)
  BY <1>1, <1>2, <1>3, HeldStays
<1>5. ~(loop = "exec" /\ chosen.task = t)
  <2>. SUFFICES ASSUME loop = "exec", chosen.task = t PROVE FALSE
    OBVIOUS
  <2>1. CASE UNCHANGED <<loop, chosen>>
    BY <1>2, <2>1 DEF Pending
  <2>2. ASSUME NEW w \in Slot, ExecConsume(w) PROVE FALSE
    <3>1. slot'[w].task = t /\ slot'[w].pc = "up"
      BY <2>2 DEF ExecConsume, FreeSlot, TypeOK
    <3>2. QED
      BY <1>2, <3>1 DEF Holds
  <2>3. QED
    BY <1>1, <2>1, <2>2, LeavesExec
<1>6. ~(phase = "visit" /\ t \in unseen /\ Runs(t))
  <2>. SUFFICES ASSUME phase = "visit", t \in unseen, Runs(t) PROVE FALSE
    OBVIOUS
  <2>1. ~store'[t].run /\ store[t].run
    BY <1>1, <1>2 DEF Pending, Runs
  <2>2. QED
    BY <2>1, RunIsWritten DEF Adopted
<1>7. QED
  BY <1>3, <1>4, <1>5, <1>6 DEF Unclaimed, Pending

LEMMA DormantKept ==
  ASSUME DockerFails = FALSE, GInv, SchedulerStep
  PROVE  Dormant'
<1>. USE DEF GInv, RInv
<1>. SUFFICES ASSUME NEW t \in Task, Unclaimed(t)' PROVE DormantAt(t)'
  BY DEF Dormant
<1>1. [Next]_vars /\ UNCHANGED <<phase, unseen, visit, update, raced>>
  BY StepsOfScheduler
<1>2. Unclaimed(t) /\ DormantAt(t)
  BY UnclaimedBefore DEF Dormant
<1>3. ~store'[t].run
  <2>. SUFFICES ASSUME store'[t].run PROVE FALSE
    OBVIOUS
  <2>1. \A w \in Slot : ~Holds(w, t)
    BY <1>2 DEF Unclaimed
  <2>2. store'[t].run # store[t].run
    BY <1>2 DEF DormantAt
  <2>3. PICK c \in Client : ClientStart(c) \/ ClientStep(c)
    BY <2>1, <2>2, RunIsWritten DEF Adopted
  <2>4. QED
    BY <1>2, <2>3, RunIsCopied DEF DormantAt
<1>4. ASSUME NEW c \in Client, call'[c].task = t PROVE ~call'[c].copy.run
  <2>1. CASE call' = call
    BY <1>2, <1>4, <2>1 DEF DormantAt
  <2>2. ASSUME NEW d \in Client, ClientStart(d) \/ ClientStep(d) PROVE ~call'[c].copy.run
    BY <1>2, <1>4, <2>2, RunIsCopied DEF DormantAt
  <2>3. CASE Tick
    <3>1. call'[c].task = call[c].task /\ call'[c].copy = Later(call[c].copy)
          /\ call[c].copy \in Recorded
      BY <2>3 DEF Tick, TypeOK, CallState
    <3>2. QED
      BY <1>2, <1>4, <3>1, LaterType DEF DormantAt
  <2>4. CASE TimerFire \/ UNCHANGED vars \/ \E u \in Task : ContainerExit(u)
    BY <2>1, <2>4 DEF TimerFire, vars, clientVars, ContainerExit
  <2>5. QED
    BY <1>1, <2>1, <2>2, <2>3, <2>4, LoopFrame, ExecFrame, WatchFrame DEF Next
<1>5. (t \in update' => ~object'[t].run) /\ (putting'.task = t => ~putting'.record.run)
  <2>1. TypeOK' /\ Memory
    BY <1>1, StepTypes DEF Loading
  <2>2. /\ Alike(object'[t], object[t]) \/ object'[t] = store'[t]
        /\ putting'.task = putting.task /\ Alike(putting'.record, putting.record)
    BY <2>1, MemoryKept
  <2>3. QED
    BY <1>1, <1>2, <1>3, <2>2 DEF DormantAt, Alike
<1>6. QED
  BY <1>3, <1>4, <1>5 DEF DormantAt

LEMMA AdoptedKept ==
  ASSUME DockerFails = FALSE, GInv, SchedulerStep
  PROVE  Adopted'
<1>. USE DEF GInv, RInv
<1>1. [Next]_vars /\ UNCHANGED <<phase, unseen, visit, update, raced>>
  BY StepsOfScheduler
<1>2. loop' # "putError"
  <2>1. CASE UNCHANGED loop
    BY <2>1 DEF Adopted
  <2>2. CASE LoopStep
    BY <2>2 DEF LoopStep, LoopWake, LoopPick, LoopNothing, LoopSleep, ExecPutError, LoopPing
  <2>3. ASSUME NEW w \in Slot, ExecStep(w) PROVE loop' # "putError"
    BY <2>3 DEF ExecStep, ExecConsume, ExecUp, ExecUpFail, ExecPutRunning
  <2>4. CASE Tick \/ TimerFire \/ UNCHANGED vars \/ \E u \in Task : ContainerExit(u)
    BY <2>1, <2>4 DEF Tick, TimerFire, vars, loopVars, ContainerExit
  <2>5. QED
    BY <1>1, <2>1, <2>2, <2>3, <2>4, WatchFrame, ClientsFrame DEF Next
<1>3. CASE phase = "visit"
  <2>1. \/ UNCHANGED <<loop, chosen>>
        \/ /\ loop # "idle" /\ loop' \in {"up", "put", "putError", "ping"}
           /\ chosen' = chosen \/ chosen'.task = NoTask
    BY <1>3, LoopWhileLoading
  <2>2. loop' \in {"exec", "up", "put"} => chosen'.task = visit.task
    <3>1. TypeOK'
      BY <1>1, StepTypes
    <3>2. Known'
      BY <1>1, <3>1, StepKnown
    <3>3. QED
      BY <1>3, <2>1, <3>2 DEF Known, Adopted, Loading
  <2>3. ASSUME loop' = "ping", ct'[visit.task] = "running"
        PROVE  \E w \in Slot : Holds(w, visit.task)'
    <3>. DEFINE t == visit.task
    <3>1. t \in Task
      BY <1>3, <2>1, <2>3 DEF Loading, TypeOK
    <3>2. CASE loop = "ping"
      <4>1. ct[t] = "running"
        BY <1>1, <2>3, <3>1, <3>2, UpStarts DEF ExecUp
      <4>2. PICK v \in Slot : Holds(v, t)
        BY <1>3, <3>2, <4>1 DEF Adopted
      <4>3. \E w \in Slot : Holds(w, t)'
        BY <1>1, <2>3, <3>1, <4>1, <4>2, HeldStays
      <4>4. QED
        BY <1>1, <4>3 DEF Holds
    <3>3. CASE loop # "ping"
      <4>1. PICK w \in Slot : ExecPutRunning(w)
        <5>1. ASSUME NEW v \in Slot, ExecStep(v) PROVE ExecPutRunning(v)
          BY <2>3, <3>3, <5>1 DEF ExecStep, ExecConsume, ExecUp, ExecUpFail
        <5>2. ~LoopStep
          BY <2>3, <3>3 DEF LoopStep, LoopWake, LoopPick, LoopNothing, LoopSleep, ExecPutError,
                            LoopPing, Adopted
        <5>3. loop' # loop
          BY <2>3, <3>3
        <5>4. CASE Tick \/ TimerFire \/ UNCHANGED vars \/ \E u \in Task : ContainerExit(u)
          BY <5>3, <5>4 DEF Tick, TimerFire, vars, loopVars, ContainerExit
        <5>5. QED
          BY <1>1, <5>1, <5>2, <5>3, <5>4, WatchFrame, ClientsFrame DEF Next
      <4>2. slot'[w].pc = "wait" /\ slot'[w].task = slot[w].task
        BY <4>1, MoveType DEF ExecPutRunning, SlotPc, Results, TypeOK
      <4>3. slot[w].task = visit.task
        BY <1>3, <4>1 DEF ExecPutRunning, Starting, Adopted
      <4>4. QED
        BY <1>1, <4>2, <4>3 DEF Holds
    <3>4. QED
      BY <3>2, <3>3
  <2>4. ASSUME NEW w \in Slot, NEW t \in unseen PROVE ~Holds(w, t)'
    <3>1. t \in Task
      BY DEF Loading, TypeOK
    <3>2. ~Holds(w, t) /\ chosen.task # t
      BY <1>3, <2>4 DEF Adopted, Visited
    <3>3. QED
      BY <1>1, <3>1, <3>2, HoldsBefore
  <2>5. QED
    BY <1>1, <1>2, <2>2, <2>3, <2>4 DEF Adopted
<1>4. CASE phase # "visit"
  BY <1>1, <1>2, <1>4 DEF Adopted
<1>5. QED
  BY <1>3, <1>4

-----------------------------------------------------------------------------
(* The room for those that will take without a look.                             *)
LEMMA FitsShrinks ==
  ASSUME TypeOK, TypeOK', Fits, Pending' \subseteq Pending, cpu' >= cpu, ram' >= ram
  PROVE  Fits'
<1>. DEFINE P == Pending
            Q == Pending'
<1>1. Q \in SUBSET P /\ IsFiniteSet(UnitsOf(P, Cpu)) /\ IsFiniteSet(UnitsOf(P, Ram))
  BY DEF Fits
<1>2. Total(P, Cpu) <= cpu /\ Total(P, Ram) <= ram
  BY DEF Fits
<1>. HIDE DEF P, Q
<1>3. IsFiniteSet(UnitsOf(Q, Cpu)) /\ Total(Q, Cpu) <= Total(P, Cpu)
  BY <1>1, UnitsOfFewer
<1>4. IsFiniteSet(UnitsOf(Q, Ram)) /\ Total(Q, Ram) <= Total(P, Ram)
  BY <1>1, UnitsOfFewer
<1>5. /\ Total(P, Cpu) \in Nat /\ Total(P, Ram) \in Nat
      /\ Total(Q, Cpu) \in Nat /\ Total(Q, Ram) \in Nat
  BY <1>1, <1>3, <1>4, FS_CardinalityType DEF Total
<1>6. cpu \in Int /\ ram \in Int /\ cpu' \in Int /\ ram' \in Int
  BY DEF TypeOK
<1>7. Total(Q, Cpu) <= cpu' /\ Total(Q, Ram) <= ram'
  BY <1>2, <1>3, <1>4, <1>5, <1>6
<1>8. QED
  BY <1>3, <1>4, <1>7 DEF Fits, Q

(* One task takes what it asks for.                                              *)
LEMMA UnitsOfOne ==
  ASSUME NEW t \in Task, NEW need \in [Task -> Int], need[t] \in Nat
  PROVE  IsFiniteSet(UnitsOf({t}, need)) /\ Total({t}, need) = need[t]
<1>. DEFINE none == {}
<1>1. IsFiniteSet(UnitsOf(none, need)) /\ Total(none, need) = 0
  BY UnitsOfNone
<1>2. t \notin none /\ \A y \in none : need[y] = need[y]
  OBVIOUS
<1>. HIDE DEF none
<1>3. /\ IsFiniteSet(UnitsOf(none \cup {t}, need))
      /\ Total(none \cup {t}, need) = Total(none, need) + need[t]
  BY <1>1, <1>2, UnitsOfOneMore
<1>4. none \cup {t} = {t}
  BY DEF none
<1>5. QED
  BY <1>1, <1>3, <1>4

(* A task that is executed takes what was left for it.                           *)
LEMMA UnitsOfOneLess ==
  ASSUME NEW P, NEW t \in P, NEW need, need[t] \in Nat, IsFiniteSet(UnitsOf(P, need))
  PROVE  /\ IsFiniteSet(UnitsOf(P \ {t}, need))
         /\ Total(P \ {t}, need) = Total(P, need) - need[t]
<1>. DEFINE Q == P \ {t}
<1>1. Q \in SUBSET P /\ t \notin Q
  OBVIOUS
<1>2. Q \cup {t} = P
  OBVIOUS
<1>. HIDE DEF Q
<1>3. IsFiniteSet(UnitsOf(Q, need))
  BY <1>1, UnitsOfFewer
<1>4. Total(Q \cup {t}, need) = Total(Q, need) + need[t]
  BY <1>1, <1>3, UnitsOfOneMore
<1>5. Total(Q, need) \in Nat
  BY <1>3, FS_CardinalityType DEF Total
<1>6. Total(Q, need) = Total(P, need) - need[t]
  BY <1>2, <1>4, <1>5
<1>7. QED
  BY <1>3, <1>6 DEF Q

(* Who is pending after a step other than a look was so before.                   *)
LEMMA PendingBefore ==
  ASSUME DockerFails = FALSE, GInv, SchedulerStep, ~LoopPick
  PROVE  Pending' \subseteq Pending
<1>. USE DEF GInv, RInv
<1>1. [Next]_vars /\ UNCHANGED <<phase, unseen, visit, update, raced>>
  BY StepsOfScheduler
<1>. SUFFICES ASSUME NEW t \in Task, t \in Pending' PROVE t \in Pending
  BY DEF Pending
<1>2. CASE loop' = "exec" /\ chosen'.task = t
  BY <1>1, <1>2, EntersExec DEF Pending
<1>3. CASE phase' = "visit" /\ t \in unseen' /\ Runs(t)'
  <2>1. phase = "visit" /\ t \in unseen /\ ct'[t] = "running" /\ store'[t].run
    BY <1>1, <1>3 DEF Runs
  <2>2. chosen.task # t /\ \A w \in Slot : ~Holds(w, t)
    BY <2>1 DEF Adopted, Visited
  <2>3. ct[t] = "running"
    BY <1>1, <2>1, <2>2, UpStarts
  <2>4. store[t].run
    BY <2>1, <2>2, RunIsWritten DEF Adopted, TypeOK, Recorded
  <2>5. QED
    BY <2>1, <2>3, <2>4 DEF Pending, Runs
<1>4. QED
  BY <1>2, <1>3 DEF Pending

LEMMA FitsKept ==
  ASSUME DockerFails = FALSE, GInv, SchedulerStep
  PROVE  Fits'
<1>. USE DEF GInv, RInv
<1>1. [Next]_vars /\ UNCHANGED <<phase, unseen, visit, update, raced>>
  BY StepsOfScheduler
<1>2. TypeOK' /\ cpu \in Int /\ ram \in Int
  BY <1>1, StepTypes DEF TypeOK
<1>3. CASE LoopPick
  <2>1. /\ loop' = "exec" /\ chosen'.task \in Ready /\ UNCHANGED <<store, cpu, ram>>
    BY <1>3 DEF LoopPick
  <2>. DEFINE t == chosen'.task
  <2>2. t \in Task /\ t \in added /\ Cpu[t] <= cpu /\ Ram[t] <= ram
    BY <2>1 DEF Ready, Waiting, IsDoable, Known, Stored
  <2>3. Cpu[t] \in Nat /\ Ram[t] \in Nat
    BY <2>2 DEF Known, Admissible, Check
  <2>4. phase # "visit"
    BY <1>3 DEF LoopPick, Loading
  <2>5. Pending' = {t}
    BY <1>1, <2>1, <2>2, <2>4 DEF Pending
  <2>. HIDE DEF t
  <2>6. IsFiniteSet(UnitsOf({t}, Cpu)) /\ Total({t}, Cpu) = Cpu[t]
    BY <2>2, <2>3, UnitsOfOne
  <2>7. IsFiniteSet(UnitsOf({t}, Ram)) /\ Total({t}, Ram) = Ram[t]
    BY <2>2, <2>3, UnitsOfOne
  <2>8. QED
    BY <2>1, <2>2, <2>5, <2>6, <2>7 DEF Fits
<1>4. ASSUME NEW w \in Slot, ExecConsume(w) PROVE Fits'
  <2>. DEFINE t == chosen.task
              P == Pending
              Q == Pending'
  <2>1. /\ loop = "exec" /\ loop' = "up" /\ t \in Task /\ t \in added
        /\ cpu' = cpu - Cpu[t] /\ ram' = ram - Ram[t] /\ UNCHANGED <<store, ct>>
    BY <1>4 DEF ExecConsume, Consume, Known, TypeOK
  <2>2. Cpu[t] \in Nat /\ Ram[t] \in Nat
    BY <2>1 DEF Known, Admissible, Check
  <2>3. t \in P /\ Q = P \ {t}
    BY <1>1, <2>1 DEF Pending, Runs, Visited
  <2>4. /\ IsFiniteSet(UnitsOf(P, Cpu)) /\ Total(P, Cpu) <= cpu
        /\ IsFiniteSet(UnitsOf(P, Ram)) /\ Total(P, Ram) <= ram
    BY DEF Fits
  <2>. HIDE DEF t, P, Q
  <2>5. IsFiniteSet(UnitsOf(Q, Cpu)) /\ Total(Q, Cpu) = Total(P, Cpu) - Cpu[t]
    BY <2>2, <2>3, <2>4, UnitsOfOneLess
  <2>6. IsFiniteSet(UnitsOf(Q, Ram)) /\ Total(Q, Ram) = Total(P, Ram) - Ram[t]
    BY <2>2, <2>3, <2>4, UnitsOfOneLess
  <2>7. Total(P, Cpu) \in Nat /\ Total(P, Ram) \in Nat
    BY <2>4, FS_CardinalityType DEF Total
  <2>8. Total(Q, Cpu) <= cpu' /\ Total(Q, Ram) <= ram'
    BY <1>2, <2>1, <2>2, <2>4, <2>5, <2>6, <2>7
  <2>9. QED
    BY <2>5, <2>6, <2>8 DEF Fits, Q
<1>5. ASSUME NEW w \in Slot, Release(w), ~LoopPick PROVE Fits'
  <2>1. slot[w].task \in added /\ slot[w].task \in Task
    BY <1>5 DEF Release, Known, TypeOK
  <2>2. Cpu[slot[w].task] \in Nat /\ Ram[slot[w].task] \in Nat
    BY <2>1 DEF Known, Admissible, Check
  <2>3. cpu' >= cpu /\ ram' >= ram
    BY <1>2, <1>5, <2>2 DEF Release
  <2>4. QED
    BY <1>2, <1>5, <2>3, FitsShrinks, PendingBefore
<1>6. CASE ~LoopPick /\ \A w \in Slot : ~ExecConsume(w) /\ ~Release(w)
  <2>1. cpu' >= cpu /\ ram' >= ram
    <3>1. cpu' = cpu /\ ram' = ram
      BY <1>1, <1>6, HeldElse
    <3>2. QED
      BY <1>2, <3>1
  <2>2. Pending' \subseteq Pending
    BY <1>6, PendingBefore
  <2>3. QED
    BY <1>2, <2>1, <2>2, FitsShrinks
<1>7. QED
  BY <1>3, <1>4, <1>5, <1>6

-----------------------------------------------------------------------------
(* Load changes neither a container nor what is held ...                         *)
LEMMA LoadKeepsHolders ==
  ASSUME LoadStep, NEW t \in Task
  PROVE  /\ ct'[t] = ct[t]
         /\ \A w \in Slot : Holds(w, t)' = Holds(w, t) /\ Mans(w, t)' = Mans(w, t)
BY LoadFrame DEF Holds, Mans

(* ... and leaves pending what was.                                              *)
LEMMA FreshRuns ==
  ASSUME TypeOK, NEW t \in Task
  PROVE  Fresh(t) = "Running" <=> Runs(t)
<1>1. ct[t] \in {"none", "running", "exited0", "exitedN"} /\ store[t].run \in BOOLEAN
  BY DEF TypeOK, CtState, Recorded
<1>2. CASE ~store[t].run
  BY <1>2 DEF Fresh, Runs
<1>3. CASE store[t].run /\ ct[t] # "running"
  BY <1>1, <1>3 DEF Fresh, Runs
<1>4. CASE store[t].run /\ ct[t] = "running"
  BY <1>4 DEF Fresh, Runs
<1>5. QED
  BY <1>2, <1>3, <1>4

LEMMA LoadKeepsPending ==
  ASSUME GInv, LoadStep
  PROVE  Pending' = Pending
<1>. USE DEF GInv, RInv
<1>1. \A t \in Task : ct'[t] = ct[t]
  BY LoadKeepsHolders
<1>2. ASSUME NEW t \in unseen, LoadVisit(t), phase = "visit", loop = "idle" PROVE Pending' = Pending
  <2>1. t \in Task /\ ~Runs(t)
    BY <1>2, FreshRuns DEF LoadVisit, Loading, TypeOK
  <2>2. UNCHANGED <<store, loop, chosen, phase>> /\ unseen' = unseen \ {t}
    BY <1>2 DEF LoadVisit, vars, loopVars
  <2>3. QED
    BY <1>1, <2>1, <2>2 DEF Pending, Runs
<1>3. ASSUME NEW t \in unseen, LoadRunning(t), phase = "visit", loop = "idle" PROVE Pending' = Pending
  <2>1. t \in Task /\ Runs(t)
    BY <1>3, FreshRuns DEF LoadRunning, Loading, TypeOK
  <2>2. /\ UNCHANGED <<store, phase>> /\ unseen' = unseen \ {t}
        /\ loop' = "exec" /\ chosen'.task = t
    BY <1>3 DEF LoadRunning
  <2>3. QED
    BY <1>1, <1>3, <2>1, <2>2 DEF Pending, Runs
<1>4. CASE LoadAdopt
  <2>1. UNCHANGED <<store, phase, unseen>> /\ loop = "ping" /\ loop' \in {"ping", "idle"}
    BY <1>4, LoadAdopts
  <2>2. QED
    BY <1>1, <2>1 DEF Pending, Runs
<1>5. CASE LoadVisited
  <2>1. unseen = {} /\ loop = "idle" /\ UNCHANGED <<loop, unseen>>
    BY <1>5 DEF LoadVisited, vars, loopVars
  <2>2. QED
    BY <2>1 DEF Pending
<1>6. CASE LoadMarshal \/ LoadPut \/ LoadTurn \/ Start
  <2>1. phase # "visit" /\ phase' # "visit" /\ loop # "exec" /\ loop' # "exec"
    BY <1>6 DEF LoadMarshal, LoadPut, LoadTurn, Start, Loading, vars, loopVars
  <2>2. QED
    BY <2>1 DEF Pending
<1>7. QED
  BY <1>2, <1>3, <1>4, <1>5, <1>6 DEF LoadStep, LoadAdopt

(* What Load makes of a task has a run when the store has one.                    *)
LEMMA LoadedRun ==
  ASSUME TypeOK, NEW t \in Task, Empty(store[t])
  PROVE  Loaded(t).run = store[t].run /\ Empty(Loaded(t))
<1>1. store[t] \in Recorded /\ AfterRun(t, "Waiting") \in Recorded
  BY AfterRunType DEF TypeOK, Results
<1>2. Fresh(t) # "Absent"
  <2>1. ct[t] \in {"none", "running", "exited0", "exitedN"}
    BY DEF TypeOK, CtState
  <2>2. QED
    BY <2>1 DEF Fresh
<1>3. AfterRun(t, "Waiting").status # "Absent"
  BY AfterRunType DEF Results
<1>4. CASE store[t].status # Fresh(t)
  <2>1. Loaded(t) = [store[t] EXCEPT !.status = Fresh(t)]
    BY <1>4 DEF Loaded
  <2>2. Loaded(t).run = store[t].run /\ Loaded(t).status = Fresh(t)
    BY <1>1, <2>1 DEF Recorded
  <2>3. QED
    BY <1>2, <2>2 DEF Empty
<1>5. CASE store[t].status = Fresh(t) /\ Periodic(t)
  <2>1. Loaded(t) = [AfterRun(t, "Waiting") EXCEPT !.run = store[t].run]
    BY <1>5 DEF Loaded
  <2>2. Loaded(t).run = store[t].run /\ Loaded(t).status = AfterRun(t, "Waiting").status
    BY <1>1, <2>1 DEF Recorded
  <2>3. QED
    BY <1>3, <2>2 DEF Empty
<1>6. CASE store[t].status = Fresh(t) /\ ~Periodic(t)
  BY <1>6 DEF Loaded
<1>7. QED
  BY <1>4, <1>5, <1>6

(* What a step of Load puts and marshals lay in its hands, and what it lays there  *)
(* has no run but that of the store, or of a run that it has adopted.             *)
LEMMA LoadMarshals ==
  ASSUME LoadStep
  PROVE  /\ \/ putting' = putting \/ putting' = NoPut
            \/ \E t \in update : putting' = [task |-> t, record |-> object[t]]
         /\ UNCHANGED draft
<1>1. CASE LoadAdopt
  BY <1>1 DEF LoadAdopt, LoadMismatch, LoadCompare, LoadWaiting, LoadReschedule, AdoptFrame
<1>2. CASE LoadMarshal \/ LoadPut
  BY <1>2 DEF LoadMarshal, LoadPut, shareVars
<1>3. CASE LoadVisited \/ LoadTurn \/ Start \/ \E t \in unseen : LoadVisit(t) \/ LoadRunning(t)
  BY <1>3 DEF LoadVisited, LoadTurn, Start, LoadVisit, LoadRunning, shareVars
<1>4. QED
  BY <1>1, <1>2, <1>3 DEF LoadStep, LoadAdopt

LEMMA LoadWrites ==
  ASSUME GInv, LoadStep, NEW t \in Task
  PROVE  /\ store'[t] = store[t] \/ (putting.task = t /\ store'[t] = putting.record)
         /\ Empty(object'[t])
         /\ t \in update' /\ Unclaimed(t) /\ (t \in update => ~object[t].run) => ~object'[t].run
<1>. USE DEF GInv, RInv
<1>. DEFINE Puts == store'[t] = store[t] \/ (putting.task = t /\ store'[t] = putting.record)
            Lays == /\ Empty(object'[t])
                    /\ t \in update' /\ Unclaimed(t) /\ (t \in update => ~object[t].run)
                         => ~object'[t].run
            All == Puts /\ Lays
<1>1. Empty(object[t]) /\ Empty(store[t]) /\ object[t] \in Recorded
  BY DEF Blank, Loading, Memory
<1>2. ASSUME NEW u \in unseen, LoadVisit(u) PROVE All
  <2>1. store' = store
    BY <1>2 DEF LoadVisit, vars
  <2>2. u \in Task /\ update' \subseteq update \cup {u} /\ object' = [object EXCEPT ![u] = Loaded(u)]
    BY <1>2 DEF LoadVisit, Loading, TypeOK
  <2>3. CASE u = t
    <3>1. object'[t] = Loaded(t)
      BY <2>2, <2>3 DEF Loading, Memory
    <3>2. Loaded(t).run = store[t].run /\ Empty(Loaded(t))
      BY <1>1, LoadedRun
    <3>3. Unclaimed(t) => ~store[t].run
      BY DEF Dormant, DormantAt
    <3>4. Lays
      BY <3>1, <3>2, <3>3
    <3>5. QED
      BY <2>1, <3>4
  <2>4. CASE u # t
    <3>1. object'[t] = object[t] /\ (t \in update' => t \in update)
      BY <2>2, <2>4 DEF Loading, Memory
    <3>2. QED
      BY <1>1, <2>1, <3>1
  <2>5. QED
    BY <2>3, <2>4
<1>3. ASSUME NEW u \in unseen, LoadRunning(u), phase = "visit" PROVE All
  <2>1. UNCHANGED <<store, update>>
    BY <1>3 DEF LoadRunning
  <2>2. u \in Task /\ Runs(u) /\ object' = [object EXCEPT ![u] = store[u]]
    BY <1>3, FreshRuns DEF LoadRunning, Loading, TypeOK
  <2>3. CASE u = t
    <3>1. object'[t] = store[t]
      BY <2>2, <2>3 DEF Loading, Memory
    <3>2. ~Unclaimed(t)
      BY <1>3, <2>2, <2>3 DEF Unclaimed, Pending
    <3>3. QED
      BY <1>1, <2>1, <3>1, <3>2
  <2>4. CASE u # t
    <3>1. object'[t] = object[t]
      BY <2>2, <2>4 DEF Loading, Memory
    <3>2. QED
      BY <1>1, <2>1, <3>1
  <2>5. QED
    BY <2>3, <2>4
<1>4. CASE LoadAdopt
  <2>1. /\ store' = store /\ phase = "visit" /\ loop = "ping"
        /\ update' \subseteq update \cup {visit.task} /\ Alike(object'[t], object[t])
    BY <1>4, LoadAdopts DEF Assigned
  <2>2. ~Unclaimed(visit.task)
    BY <2>1 DEF Adopted, Unclaimed
  <2>3. Lays
    BY <1>1, <2>1, <2>2 DEF Alike
  <2>4. QED
    BY <2>1, <2>3
<1>5. CASE LoadMarshal
  <2>1. PICK u \in update : putting' = [task |-> u, record |-> object[u]] /\ update' = update \ {u}
    BY <1>5 DEF LoadMarshal
  <2>2. UNCHANGED <<store, object>>
    BY <1>5 DEF LoadMarshal, vars, shareVars
  <2>3. QED
    BY <1>1, <2>1, <2>2
<1>6. CASE LoadPut
  <2>1. /\ store' = [store EXCEPT ![putting.task] = putting.record]
        /\ UNCHANGED <<object, update>>
    BY <1>6 DEF LoadPut, Put, shareVars
  <2>2. QED
    BY <1>1, <2>1 DEF TypeOK
<1>7. CASE LoadVisited \/ LoadTurn \/ Start
  <2>1. UNCHANGED <<store, update>> /\ (object'[t] = object[t] \/ ~object'[t].run)
    BY <1>7 DEF LoadVisited, LoadTurn, Start, vars, shareVars, Absent, Record
  <2>2. QED
    BY <1>1, <2>1, AbsentIsRecorded DEF Empty, Absent, Record
<1>8. QED
  BY <1>2, <1>3, <1>4, <1>5, <1>6, <1>7 DEF LoadStep, LoadAdopt

LEMMA LoadKeepsClaims ==
  ASSUME GInv, LoadStep, RInv'
  PROVE  Manned' /\ Dormant' /\ Blank' /\ Fits'
<1>. USE DEF GInv
<1>1. UNCHANGED <<ct, cpu, ram, slot, call>>
  BY LoadFrame
<1>2. Manned'
  BY LoadKeepsHolders DEF Manned
<1>3. \A t \in Task : Unclaimed(t)' = Unclaimed(t)
  BY LoadKeepsHolders, LoadKeepsPending DEF Unclaimed
<1>4. Dormant'
  <2>. SUFFICES ASSUME NEW t \in Task, Unclaimed(t)' PROVE DormantAt(t)'
    BY DEF Dormant
  <2>1. Unclaimed(t) /\ DormantAt(t)
    BY <1>3 DEF Dormant
  <2>2. ~store'[t].run
    BY <2>1, LoadWrites DEF DormantAt
  <2>3. t \in update' => ~object'[t].run
    BY <2>1, LoadWrites DEF DormantAt
  <2>4. putting'.task = t => ~putting'.record.run
    <3>1. ~NoPut.record.run
      BY DEF NoPut, Absent, Record
    <3>2. QED
      BY <2>1, <3>1, LoadMarshals DEF DormantAt
  <2>5. QED
    BY <1>1, <2>1, <2>2, <2>3, <2>4 DEF DormantAt
<1>5. Blank'
  <2>1. \A t \in Task : Empty(store'[t]) /\ Empty(object'[t])
    BY LoadWrites DEF Blank
  <2>2. Empty(putting'.record) /\ draft' = draft
    <3>1. Empty(NoPut.record)
      BY DEF Empty, NoPut, Absent, Record
    <3>2. \A u \in update : u \in Task
      BY DEF RInv, Loading, TypeOK
    <3>3. QED
      BY <3>1, <3>2, LoadMarshals DEF Blank
  <2>3. QED
    BY <1>1, <2>1, <2>2 DEF Blank
<1>6. Fits'
  <2>1. TypeOK /\ TypeOK' /\ cpu' >= cpu /\ ram' >= ram
    BY <1>1 DEF RInv, TypeOK
  <2>2. QED
    BY <2>1, LoadKeepsPending, FitsShrinks
<1>7. QED
  BY <1>2, <1>4, <1>5, <1>6

LEMMA LoadKeepsAdopted ==
  ASSUME GInv, LoadStep
  PROVE  Adopted'
<1>. USE DEF GInv, RInv
<1>1. slot' = slot /\ ct' = ct
  BY LoadFrame
<1>2. ASSUME NEW t \in unseen, phase = "visit", loop = "idle", LoadVisit(t) PROVE Adopted'
  BY <1>1, <1>2 DEF LoadVisit, vars, loopVars, Adopted, Holds
<1>3. ASSUME NEW t \in unseen, phase = "visit", loop = "idle", LoadRunning(t) PROVE Adopted'
  BY <1>1, <1>3 DEF LoadRunning, Adopted, Holds
<1>4. CASE LoadAdopt
  <2>1. /\ UNCHANGED <<phase, unseen>> /\ loop = "ping" /\ loop' \in {"ping", "idle"}
        /\ (loop' = "ping" => visit'.task = visit.task)
    BY <1>4, LoadAdopts
  <2>2. QED
    BY <1>1, <2>1 DEF Adopted, Holds
<1>5. CASE LoadVisited \/ LoadMarshal \/ LoadPut \/ LoadTurn \/ Start
  <2>1. phase' # "visit"
    BY <1>5 DEF LoadVisited, LoadMarshal, LoadPut, LoadTurn, Start
  <2>2. loop' # "putError"
    BY <1>5 DEF LoadVisited, LoadMarshal, LoadPut, LoadTurn, Start, vars, loopVars, Adopted
  <2>3. QED
    BY <2>1, <2>2 DEF Adopted
<1>6. QED
  BY <1>2, <1>3, <1>4, <1>5 DEF LoadStep, LoadAdopt

-----------------------------------------------------------------------------
(* A watcher that shares its task with Load holds it, whatever it writes.          *)
LEMMA SharedKeepsClaims ==
  ASSUME GInv, NEW w \in Slot, SharedStep(w)
  PROVE  Manned' /\ Dormant' /\ Blank' /\ Adopted' /\ Fits'
<1>. USE DEF GInv, RInv
<1>. DEFINE u == slot[w].task
<1>1. /\ UNCHANGED <<ct, cpu, ram, loop, chosen, call, phase, unseen, visit, update, putting>>
      /\ slot[w].pc = "save" /\ u \in Task
      /\ \A t \in Task : Alike(object'[t], object[t])
      /\ \A v \in Slot : draft'[v] \in {draft[v], Absent} \cup {object[t] : t \in Task}
      /\ SharedPut(w) \/ UNCHANGED <<store, slot>>
  BY SharedFrame DEF Loading
<1>2. \A t \in Task : store'[t] = store[t] \/ (t = u /\ store'[t] = draft[w])
  BY <1>1 DEF SharedPut, Put, TypeOK
<1>3. \A t \in Task, v \in Slot : Holds(v, t)' = Holds(v, t) /\ Mans(v, t)' = Mans(v, t)
  <2>1. CASE UNCHANGED slot
    BY <2>1 DEF Holds, Mans
  <2>2. CASE SharedPut(w)
    <3>1. /\ slot'[w].pc = "ping" /\ slot'[w].task = u
          /\ \A v \in Slot \ {w} : slot'[v] = slot[v]
      BY <2>2, MoveType DEF SharedPut, TypeOK, SlotPc, Results
    <3>2. QED
      BY <1>1, <3>1 DEF Holds, Mans
  <2>3. QED
    BY <1>1, <2>1, <2>2
<1>4. Holds(w, u)
  BY <1>1 DEF Holds
<1>. HIDE DEF u
<1>5. Pending' = Pending
  <2>1. phase = "visit" => u \notin unseen
    BY <1>4 DEF Adopted
  <2>2. QED
    BY <1>1, <1>2, <2>1 DEF Pending, Runs
<1>6. Manned' /\ Adopted'
  BY <1>1, <1>3 DEF Manned, Adopted, Loading, TypeOK
<1>7. Dormant'
  <2>. SUFFICES ASSUME NEW t \in Task, Unclaimed(t)' PROVE DormantAt(t)'
    BY DEF Dormant
  <2>1. Unclaimed(t) /\ DormantAt(t)
    BY <1>1, <1>3, <1>5 DEF Unclaimed, Dormant
  <2>2. t # u
    BY <1>4, <2>1 DEF Unclaimed
  <2>3. QED
    BY <1>1, <1>2, <2>1, <2>2 DEF DormantAt, Alike
<1>8. Blank'
  <2>1. Empty(Absent)
    BY DEF Empty, Absent, Record
  <2>2. \A t \in Task : Empty(store'[t]) /\ Empty(object'[t])
    BY <1>1, <1>2 DEF Blank, Alike
  <2>3. \A v \in Slot : Empty(draft'[v])
    BY <1>1, <2>1 DEF Blank
  <2>4. QED
    BY <1>1, <2>2, <2>3 DEF Blank
<1>9. Fits'
  BY <1>1, <1>5 DEF Fits
<1>10. QED
  BY <1>6, <1>7, <1>8, <1>9

-----------------------------------------------------------------------------
(* A stop: each container that Load will adopt had taken its part of the machine,  *)
(* or was to be adopted already.                                                *)
LEMMA AdoptableFit ==
  ASSUME Accounted, Fits, NEW S \in SUBSET Task,
         \A t \in S : t \in Pending \/ \E w \in Slot : Holds(w, t)
  PROVE  /\ IsFiniteSet(UnitsOf(S, Cpu)) /\ Total(S, Cpu) <= TotalCpu
         /\ IsFiniteSet(UnitsOf(S, Ram)) /\ Total(S, Ram) <= TotalRam
<1>. DEFINE A == S \cap Pending
            B == S \ Pending
<1>1. A \in SUBSET Pending /\ B \in SUBSET Task
  OBVIOUS
<1>2. \A t \in B : \E w \in Held : slot[w].task = t
  BY DEF Holds, Held
<1>. HIDE DEF A, B
<1>3. /\ IsFiniteSet(UnitsOf(A, Cpu)) /\ Total(A, Cpu) <= Total(Pending, Cpu)
      /\ IsFiniteSet(UnitsOf(A, Ram)) /\ Total(A, Ram) <= Total(Pending, Ram)
  <2>1. IsFiniteSet(UnitsOf(Pending, Cpu)) /\ IsFiniteSet(UnitsOf(Pending, Ram))
    BY DEF Fits
  <2>2. IsFiniteSet(UnitsOf(A, Cpu)) /\ Total(A, Cpu) <= Total(Pending, Cpu)
    BY <1>1, <2>1, UnitsOfFewer
  <2>3. IsFiniteSet(UnitsOf(A, Ram)) /\ Total(A, Ram) <= Total(Pending, Ram)
    BY <1>1, <2>1, UnitsOfFewer
  <2>4. QED
    BY <2>2, <2>3
<1>4. /\ IsFiniteSet(UnitsOf(B, Cpu)) /\ Total(B, Cpu) <= Total(Held, Takes(Cpu))
      /\ IsFiniteSet(UnitsOf(B, Ram)) /\ Total(B, Ram) <= Total(Held, Takes(Ram))
  BY <1>1, <1>2, HeldTasksTake
<1>5. /\ IsFiniteSet(UnitsOf(S, Cpu)) /\ Total(S, Cpu) = Total(A, Cpu) + Total(B, Cpu)
      /\ IsFiniteSet(UnitsOf(S, Ram)) /\ Total(S, Ram) = Total(A, Ram) + Total(B, Ram)
  <2>1. S = A \cup B /\ A \cap B = {}
    BY DEF A, B
  <2>2. ASSUME NEW need, IsFiniteSet(UnitsOf(A, need)), IsFiniteSet(UnitsOf(B, need))
        PROVE  IsFiniteSet(UnitsOf(S, need)) /\ Total(S, need) = Total(A, need) + Total(B, need)
    <3>. DEFINE C == UnitsOf(A, need)
                D == UnitsOf(B, need)
    <3>1. UnitsOf(S, need) = C \cup D /\ C \cap D = {}
      BY <2>1 DEF UnitsOf
    <3>2. IsFiniteSet(C) /\ IsFiniteSet(D)
      BY <2>2
    <3>. HIDE DEF C, D
    <3>3. IsFiniteSet(C \cup D) /\ Cardinality(C \cup D) = Cardinality(C) + Cardinality(D)
      BY <3>1, <3>2, DisjointUnion
    <3>4. /\ IsFiniteSet(UnitsOf(S, need))
          /\ Cardinality(UnitsOf(S, need)) = Cardinality(C) + Cardinality(D)
      BY <3>1, <3>3
    <3>5. QED
      BY <3>4 DEF C, D, Total
  <2>3. IsFiniteSet(UnitsOf(S, Cpu)) /\ Total(S, Cpu) = Total(A, Cpu) + Total(B, Cpu)
    BY <1>3, <2>2, <1>4
  <2>4. IsFiniteSet(UnitsOf(S, Ram)) /\ Total(S, Ram) = Total(A, Ram) + Total(B, Ram)
    BY <1>3, <2>2, <1>4
  <2>5. QED
    BY <2>3, <2>4
<1>6. /\ Total(A, Cpu) \in Nat /\ Total(B, Cpu) \in Nat
      /\ Total(A, Ram) \in Nat /\ Total(B, Ram) \in Nat
  BY <1>3, <1>4, FS_CardinalityType DEF Total
<1>7. /\ Total(Pending, Cpu) \in Nat /\ Total(Held, Takes(Cpu)) \in Nat
      /\ Total(Pending, Ram) \in Nat /\ Total(Held, Takes(Ram)) \in Nat
  BY FS_CardinalityType DEF Fits, Accounted, Total
<1>8. /\ Total(Pending, Cpu) <= cpu /\ cpu = TotalCpu - Total(Held, Takes(Cpu))
      /\ Total(Pending, Ram) <= ram /\ ram = TotalRam - Total(Held, Takes(Ram))
  BY DEF Fits, Accounted, ResourcesConserved
<1>9. Total(S, Cpu) <= TotalCpu /\ Total(S, Ram) <= TotalRam
  BY <1>3, <1>4, <1>5, <1>6, <1>7, <1>8
<1>10. QED
  BY <1>5, <1>9

LEMMA StopKeepsClaims ==
  ASSUME GInv, Stop
  PROVE  Manned' /\ Dormant' /\ Blank' /\ Adopted' /\ Fits'
<1>. USE DEF GInv, RInv
<1>1. /\ UNCHANGED <<store, ct>>
      /\ cpu' = TotalCpu /\ ram' = TotalRam /\ loop' = "idle"
      /\ slot' = [w \in Slot |-> FreeSlot] /\ call' = [c \in Client |-> IdleCall]
      /\ phase' = "visit" /\ unseen' = {t \in Task : Stored(t)} /\ update' = {}
      /\ object' = [t \in Task |-> Absent] /\ draft' = [w \in Slot |-> Absent] /\ putting' = NoPut
  BY DEF Stop, FreshProcess
<1>2. \A t \in Task, w \in Slot : ~Holds(w, t)'
  BY <1>1 DEF Holds, FreeSlot
<1>3. Manned'
  BY <1>2 DEF Manned
<1>4. Pending' = {t \in Task : Stored(t) /\ Runs(t)}
  BY <1>1 DEF Pending, Runs
<1>5. Blank'
  BY <1>1 DEF Blank, Empty, IdleCall, NoPut, Absent, Record
<1>6. Adopted'
  BY <1>1, <1>2 DEF Adopted
<1>7. Dormant'
  <2>. SUFFICES ASSUME NEW t \in Task, Unclaimed(t)' PROVE DormantAt(t)'
    BY DEF Dormant
  <2>1. ~store[t].run
    BY <1>1, <1>4 DEF Unclaimed, Runs, Blank, Empty, Stored
  <2>2. \A c \in Client : call'[c].task # t
    BY <1>1, TaskAssumption DEF IdleCall
  <2>3. ~putting'.record.run
    BY <1>1 DEF NoPut, Absent, Record
  <2>4. QED
    BY <1>1, <2>1, <2>2, <2>3 DEF DormantAt
<1>8. Fits'
  <2>. DEFINE S == {t \in Task : Stored(t) /\ Runs(t)}
  <2>1. \A t \in S : t \in Pending \/ \E w \in Slot : Holds(w, t)
    BY DEF Runs, Dormant, DormantAt, Unclaimed
  <2>2. S \in SUBSET Task
    OBVIOUS
  <2>3. Pending' = S
    BY <1>4
  <2>. HIDE DEF S
  <2>4. /\ IsFiniteSet(UnitsOf(S, Cpu)) /\ Total(S, Cpu) <= TotalCpu
        /\ IsFiniteSet(UnitsOf(S, Ram)) /\ Total(S, Ram) <= TotalRam
    BY <2>1, <2>2, AdoptableFit
  <2>5. QED
    BY <1>1, <2>3, <2>4 DEF Fits
<1>9. QED
  BY <1>3, <1>5, <1>6, <1>7, <1>8

-----------------------------------------------------------------------------
LEMMA GInvInit == RInit => GInv
<1>. SUFFICES ASSUME RInit PROVE GInv
  OBVIOUS
<1>1. RInv
  BY RInvInit
<1>2. /\ store = [t \in Task |-> Absent] /\ ct = [t \in Task |-> "none"]
      /\ cpu = TotalCpu /\ ram = TotalRam /\ loop = "idle"
      /\ call = [c \in Client |-> IdleCall] /\ phase = "up" /\ putting = NoPut
      /\ object = [t \in Task |-> Absent] /\ draft = [w \in Slot |-> Absent]
  BY DEF RInit, Init, NoLoad
<1>3. Manned /\ Dormant
  BY <1>2 DEF Manned, Dormant, Unclaimed
<1>4. Blank /\ Adopted
  BY <1>2 DEF Blank, Empty, IdleCall, NoPut, Absent, Record, Adopted
<1>5. Fits
  <2>1. Pending = {}
    BY <1>2 DEF Pending
  <2>2. QED
    BY <1>2, <2>1, UnitsOfNone DEF Fits
<1>6. QED
  BY <1>1, <1>3, <1>4, <1>5 DEF GInv

LEMMA GInvStep == ASSUME DockerFails = FALSE, GInv, [RNext]_rvars PROVE GInv'
<1>1. RInv'
  BY RInvStep DEF GInv
<1>2. CASE LoadStep
  BY <1>1, <1>2, LoadKeepsClaims, LoadKeepsAdopted DEF GInv
<1>3. CASE Stop
  BY <1>1, <1>3, StopKeepsClaims DEF GInv
<1>4. CASE SchedulerStep
  <2>1. [Next]_vars
    BY <1>4, StepsOfScheduler
  <2>2. Manned'
    BY <2>1, StepManned DEF GInv, RInv
  <2>3. Blank'
    <3>1. /\ \A t \in Task : Empty(store'[t])
          /\ \A c \in Client : Empty(call'[c].copy)
      BY <2>1, StepBlank DEF GInv, RInv, Adopted
    <3>2. TypeOK /\ TypeOK' /\ Memory /\ Blank
      BY <1>1 DEF GInv, RInv, Loading
    <3>3. /\ \A t \in Task : Empty(object'[t])
          /\ \A w \in Slot : Empty(draft'[w])
          /\ Empty(putting'.record)
      BY <1>4, <3>1, <3>2, MemoryKept DEF Blank, Alike
    <3>4. QED
      BY <3>1, <3>3 DEF Blank
  <2>4. QED
    BY <1>1, <1>4, <2>2, <2>3, DormantKept, AdoptedKept, FitsKept DEF GInv
<1>5. ASSUME NEW w \in Slot, SharedStep(w) PROVE GInv'
  BY <1>1, <1>5, SharedKeepsClaims DEF GInv
<1>6. QED
  BY <1>2, <1>3, <1>4, <1>5 DEF SchedulerStep

(* Load does not look whether the machine has room for what it adopts: it has,     *)
(* however often the process stops, since those containers had their room before.  *)
(* Docker must not fail: a container whose Kill fails loses its room and runs on,   *)
(* and is adopted beside the one that was given the room.                        *)
THEOREM AdoptionFits ==
  ASSUME DockerFails = FALSE
  PROVE  RSpec => []NoOvercommit
<1>1. ASSUME GInv PROVE NoOvercommit
  <2>1. /\ Total(Pending, Cpu) \in Nat /\ Total(Pending, Cpu) <= cpu
        /\ Total(Pending, Ram) \in Nat /\ Total(Pending, Ram) <= ram
    BY <1>1, FS_CardinalityType DEF GInv, Fits, Total
  <2>2. cpu \in Int /\ ram \in Int
    BY <1>1 DEF GInv, RInv, TypeOK
  <2>3. QED
    BY <2>1, <2>2 DEF NoOvercommit
<1>2. GInv /\ [RNext]_rvars => GInv'
  BY GInvStep
<1>3. QED
  BY <1>1, <1>2, GInvInit, PTL DEF RSpec
=============================================================================
