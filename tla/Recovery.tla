------------------------------ MODULE Recovery ------------------------------
(* The life of the process around module Scheduler.  It stops at any step:     *)
(* cmd/serve.go returns on a signal without waiting for the scheduler, and     *)
(* compose.go panics when a container ends before it is listed.  Only the      *)
(* store, synced by each Put, and the containers survive.  scheduler.go, Load, *)
(* then compares the one with the others, task by task, before Start.  It      *)
(* shares the *task of a container that runs with the watcher it attaches: each *)
(* line of one that the other may see is a step, and a Put reads it first.      *)
EXTENDS Scheduler

CONSTANTS MaxStops   \* bound: how often the process stops

ASSUME StopAssumption == MaxStops \in Nat

VARIABLES stops,    \* how often the process stopped
          phase,    \* "visit" (ForEach of Load), "put", "turn" (oneLoop), "up"
          unseen,   \* tasks that ForEach has yet to visit
          visit,    \* the task that was given to execTask, its status before, and
                    \* what Load does next with it
          update,   \* the slice update: tasks to be put after ForEach
          putting,  \* what the Put of Load has marshaled: [task, record]
          object,   \* the *task that ForEach gave to Load, for each task
          line,     \* the line a watcher executes next on the *task of Load, or
                    \* "own" if it has another
          draft,    \* what the Put of a watcher has marshaled
          raced     \* history: tasks Load put, not as Running, over a live watcher

shareVars == <<object, line, draft>>
loadVars == <<phase, unseen, visit, update, putting, shareVars, raced>>
rvars == <<vars, stops, loadVars>>

NoVisit == [task |-> NoTask, old |-> "Absent", next |-> "compare"]
NoPut == [task |-> NoTask, record |-> Absent]

NoLoad == /\ unseen = {} /\ visit = NoVisit /\ update = {} /\ putting = NoPut
          /\ object = [t \in Task |-> Absent]
          /\ line = [w \in Slot |-> "own"]
          /\ draft = [w \in Slot |-> Absent]
          /\ raced = {}

RInit == Init /\ stops = 0 /\ phase = "up" /\ NoLoad

-----------------------------------------------------------------------------
(* Mistakes: see module Scheduler.                                           *)

FreshProcessKeepsCounters == /\ UNCHANGED <<cpu, ram>>
                             /\ newMsg' = FALSE
                             /\ timers' = {}
                             /\ loop' = "idle" /\ chosen' = NoChoice
                             /\ slot' = [w \in Slot |-> FreeSlot]
                             /\ call' = [c \in Client |-> IdleCall]

LoadRunningForgetsWatcher(t) == /\ ct[t] = "running" /\ store[t].run
                                /\ unseen' = unseen \ {t}
                                /\ UNCHANGED <<vars, stops, phase, visit, update,
                                               putting, shareVars, raced>>

LoadRunningTwice(t) == /\ ct[t] = "running" /\ store[t].run
                       /\ chosen' = [task |-> t, run |-> TRUE]
                       /\ loop' = "exec"
                       /\ visit' = [task |-> t, old |-> store[t].status, next |-> "compare"]
                       /\ object' = [object EXCEPT ![t] = store[t]]
                       /\ UNCHANGED <<store, ct, cpu, ram, newMsg, timers, slot, clientVars,
                                      stops, phase, update, unseen, putting, line, draft, raced>>

LoadEndTooSoon == /\ phase = "visit"
                  /\ loop = "idle"
                  /\ phase' = "turn"
                  /\ loop' = "look"
                  /\ UNCHANGED <<store, ct, cpu, ram, newMsg, timers, chosen, slot,
                                 clientVars, stops, unseen, visit, update, putting,
                                 shareVars, raced>>

LoadTurnForgotten == /\ phase = "put"
                     /\ update = {} /\ putting = NoPut
                     /\ phase' = "turn"
                     /\ UNCHANGED <<vars, stops, unseen, visit, update, putting, shareVars, raced>>

-----------------------------------------------------------------------------
(* What a process has before it loads anything.  *)
FreshProcess == /\ cpu' = TotalCpu /\ ram' = TotalRam
                /\ newMsg' = FALSE
                /\ timers' = {}
                /\ loop' = "idle" /\ chosen' = NoChoice
                /\ slot' = [w \in Slot |-> FreeSlot]
                /\ call' = [c \in Client |-> IdleCall]

(* The process stops, and is started again.  *)
Stop == /\ stops < MaxStops
        /\ stops' = stops + 1
        /\ FreshProcess
        /\ phase' = "visit"
        /\ unseen' = {t \in Task : Stored(t)}
        /\ visit' = NoVisit /\ update' = {} /\ putting' = NoPut
        /\ object' = [t \in Task |-> Absent]
        /\ line' = [w \in Slot |-> "own"]
        /\ draft' = [w \in Slot |-> Absent]
        /\ raced' = {}
        /\ UNCHANGED <<store, ct, added, canceled, deleted>>

-----------------------------------------------------------------------------
(* Load: ForEach                                                             *)

Periodic(t) == Recurrence[t] # "once"

(* DockerRun.Status, or Unkown without a run; the zero value of fresh is Waiting. *)
Fresh(t) == IF store[t].run THEN CASE ct[t] = "none"    -> "Waiting"
                                   [] ct[t] = "exited0" -> "Done"
                                   [] ct[t] = "exitedN" -> "Error"
                                   [] ct[t] = "running" -> "Running"
            ELSE "Waiting"

(* What Load makes of a task whose container does not run.  *)
Loaded(t) ==
  IF store[t].status # Fresh(t) THEN [store[t] EXCEPT !.status = Fresh(t)]
  ELSE IF Periodic(t) THEN [AfterRun(t, "Waiting") EXCEPT !.run = store[t].run]
  ELSE store[t]

LoadVisit(t) == /\ Fresh(t) # "Running"
                /\ object' = [object EXCEPT ![t] = Loaded(t)]
                /\ update' = IF Loaded(t) = store[t] THEN update ELSE update \cup {t}
                /\ unseen' = unseen \ {t}
                /\ UNCHANGED <<vars, stops, phase, visit, putting, line, draft, raced>>

(* The container runs: execTask takes resources, whatever is left of them, runs *)
(* compose up again and attaches a watcher.                                    *)
LoadRunning(t) == /\ Fresh(t) = "Running"
                  /\ chosen' = [task |-> t, run |-> TRUE]
                  /\ loop' = "exec"
                  /\ visit' = [task |-> t, old |-> store[t].status, next |-> "compare"]
                  /\ object' = [object EXCEPT ![t] = store[t]]
                  /\ unseen' = unseen \ {t}
                  /\ UNCHANGED <<store, ct, cpu, ram, newMsg, timers, slot, clientVars,
                                 stops, phase, update, putting, line, draft, raced>>

(* execTask is over, and its watcher may be on any of its lines.  *)
Adopting(next) == phase = "visit" /\ loop = "ping" /\ visit.next = next
Assign(t, field, value) == object' = [object EXCEPT ![t][field] = value]
AdoptFrame == UNCHANGED <<store, ct, cpu, ram, newMsg, timers, chosen, slot, clientVars,
                          stops, phase, unseen, putting, line, draft, raced>>
LoadNext == visit' = NoVisit /\ loop' = "idle"

LoadMismatch == /\ Adopting("compare") /\ visit.old # "Running"
                /\ Assign(visit.task, "status", "Running")
                /\ update' = update \cup {visit.task}
                /\ LoadNext /\ AdoptFrame

(* It reads the status that the watcher may have assigned.  *)
LoadCompare == /\ Adopting("compare") /\ visit.old = "Running"
               /\ IF Periodic(visit.task) /\ object[visit.task].status # "Running"
                  THEN visit' = [visit EXCEPT !.next = "waiting"] /\ UNCHANGED loop
                  ELSE LoadNext
               /\ UNCHANGED <<object, update>> /\ AdoptFrame

LoadWaiting == /\ Adopting("waiting")
               /\ Assign(visit.task, "status", "Waiting")
               /\ visit' = [visit EXCEPT !.next = "reschedule"]
               /\ UNCHANGED <<loop, update>> /\ AdoptFrame

PrepareReschedule(t) == IF Recurrence[t] = "every" THEN Assign(t, "start", Every)
                        ELSE Assign(t, "status", "Error")

LoadReschedule == /\ Adopting("reschedule")
                  /\ PrepareReschedule(visit.task)
                  /\ update' = update \cup {visit.task}
                  /\ LoadNext /\ AdoptFrame

LoadVisited == /\ phase = "visit"
               /\ loop = "idle"
               /\ unseen = {}
               /\ phase' = "put"
               /\ UNCHANGED <<vars, stops, unseen, visit, update, putting, shareVars, raced>>

-----------------------------------------------------------------------------
(* Load: the updates and the first turn of the loop                          *)

LoadMarshal == /\ phase = "put" /\ putting = NoPut
               /\ \E t \in update : /\ putting' = [task |-> t, record |-> object[t]]
                                    /\ update' = update \ {t}
               /\ UNCHANGED <<vars, stops, phase, unseen, visit, shareVars, raced>>

LoadPut == /\ phase = "put" /\ putting # NoPut
           /\ Put(putting.task, putting.record)
           /\ raced' = IF Watching(putting.task) # {} /\ putting.record.status # "Running"
                       THEN raced \cup {putting.task} ELSE raced
           /\ putting' = NoPut
           /\ UNCHANGED <<ct, cpu, ram, newMsg, timers, loopVars, slot, clientVars,
                          stops, phase, unseen, visit, update, shareVars>>

(* The last line of Load is a turn of the loop, which begins with Done.  What    *)
(* Load was given is garbage by then, unless a watcher has it.                  *)
LoadTurn == /\ phase = "put"
            /\ update = {} /\ putting = NoPut
            /\ phase' = "turn"
            /\ newMsg' = FALSE
            /\ loop' = "look"
            /\ object' = [t \in Task |-> IF \E w \in Slot : slot[w].task = t /\ line[w] # "own"
                                        THEN object[t] ELSE Absent]
            /\ UNCHANGED <<store, ct, cpu, ram, timers, chosen, slot, clientVars,
                           stops, unseen, visit, update, putting, line, draft, raced>>

(* Start, and the API.  *)
Start == /\ phase = "turn"
         /\ loop = "idle"
         /\ phase' = "up"
         /\ UNCHANGED <<vars, stops, unseen, visit, update, putting, shareVars, raced>>

LoadStep == \/ phase = "visit" /\ loop = "idle" /\ \E t \in unseen : LoadVisit(t) \/ LoadRunning(t)
            \/ LoadMismatch \/ LoadCompare \/ LoadWaiting \/ LoadReschedule
            \/ LoadVisited \/ LoadMarshal \/ LoadPut \/ LoadTurn \/ Start

-----------------------------------------------------------------------------
(* The end of a watcher that shares its task with Load                       *)

Shares(w, at) == slot[w].pc = "save" /\ line[w] = at
NextLine(w, at) == line' = [line EXCEPT ![w] = at]
ShareFrame == UNCHANGED <<vars, stops, phase, unseen, visit, update, putting, raced>>

WatchStatus(w) == /\ Shares(w, "status")
                  /\ Assign(slot[w].task, "status", slot[w].result)
                  /\ NextLine(w, IF Periodic(slot[w].task) THEN "waiting" ELSE "marshal")
                  /\ UNCHANGED draft /\ ShareFrame

WatchWaiting(w) == /\ Shares(w, "waiting")
                   /\ Assign(slot[w].task, "status", "Waiting")
                   /\ NextLine(w, "reschedule")
                   /\ UNCHANGED draft /\ ShareFrame

WatchReschedule(w) == /\ Shares(w, "reschedule")
                      /\ PrepareReschedule(slot[w].task)
                      /\ NextLine(w, "marshal")
                      /\ UNCHANGED draft /\ ShareFrame

WatchMarshal(w) == /\ Shares(w, "marshal")
                   /\ draft' = [draft EXCEPT ![w] = object[slot[w].task]]
                   /\ NextLine(w, "put")
                   /\ UNCHANGED object /\ ShareFrame

SharedPut(w) == /\ Shares(w, "put")
                /\ Put(slot[w].task, draft[w])
                /\ Move(w, "ping", "Waiting")
                /\ NextLine(w, "own")
                /\ draft' = [draft EXCEPT ![w] = Absent]
                /\ object' = IF phase \in {"turn", "up"}
                             THEN [object EXCEPT ![slot[w].task] = Absent] ELSE object
                /\ UNCHANGED <<ct, newMsg, stops, phase, unseen, visit, update,
                               putting, raced>> /\ WatcherFrame

SharedStep(w) == \/ WatchStatus(w) \/ WatchWaiting(w) \/ WatchReschedule(w)
                 \/ WatchMarshal(w) \/ SharedPut(w)

-----------------------------------------------------------------------------
LoopMayStep == \/ phase = "up"
               \/ phase = "visit" /\ loop \in {"exec", "up", "put", "putError"}
               \/ phase = "turn" /\ loop # "idle"

(* execTask writes through the pointer that it has got, and a watcher that it  *)
(* starts in Load has the same one.                                           *)
ExecShares(w) == IF phase = "visit" /\ slot'[w].pc = "wait" THEN NextLine(w, "status")
                 ELSE UNCHANGED line

LoopWorks == /\ LoopMayStep
             /\ \/ LoopStep /\ UNCHANGED line
                \/ \E w \in Slot : ExecStep(w) /\ ExecShares(w)
             /\ object' = IF phase = "visit"
                          THEN [object EXCEPT ![visit.task] = store'[visit.task]] ELSE object
             /\ UNCHANGED <<stops, phase, unseen, visit, update, putting, draft, raced>>

WatcherWorks(w) == /\ slot[w].pc = "save" => line[w] = "own"
                   /\ WatchStep(w)
                   /\ UNCHANGED <<stops, loadVars>>

ClientWorks(c) == /\ phase = "up"
                  /\ ClientStart(c) \/ ClientStep(c)
                  /\ UNCHANGED <<stops, loadVars>>

(* The dates are absolute, wherever they are kept.  *)
TimePasses == /\ Tick
              /\ object' = [t \in Task |-> Later(object[t])]
              /\ draft' = [w \in Slot |-> Later(draft[w])]
              /\ putting' = [putting EXCEPT !.record = Later(@)]
              /\ UNCHANGED <<stops, phase, unseen, visit, update, line, raced>>

WorldChanges == \/ TimePasses
                \/ /\ TimerFire \/ \E t \in Task : ContainerExit(t)
                   /\ UNCHANGED <<stops, loadVars>>

RNext == \/ LoopWorks \/ LoadStep \/ Stop \/ WorldChanges
         \/ \E w \in Slot : WatcherWorks(w) \/ SharedStep(w)
         \/ \E c \in Client : ClientWorks(c)

RSpec == RInit /\ [][RNext]_rvars

(* As in Scheduler; a stopped process is started again and loads, then loops.  *)
RFairSpec == /\ RSpec
             /\ WF_rvars(LoopWorks \/ LoadStep)
             /\ \A w \in Slot : WF_rvars(WatcherWorks(w) \/ SharedStep(w))
             /\ WF_rvars(TimePasses \/ (TimerFire /\ UNCHANGED <<stops, loadVars>>))

-----------------------------------------------------------------------------
(* Properties                                                                *)

(* After a restart, no waiting task is left without a wake-up to come.       *)
NoWakeupLostByRestart == phase = "up" => NoLostWakeup

(* The loop executes a task again only when its previous run is over, though a *)
(* restart adopts it: but for those that Load stored as Waiting, or as ended,  *)
(* under a watcher that had not put them yet.                                 *)
OneRunUnlessRaced ==
  \A t \in Task : ~Touched(t) /\ t \notin raced => \A v, w \in Executing(t) : v = w

(* What a stop left as Running does not stay so: Load, or the watcher that     *)
(* adopts it, writes its end, even if it takes more than one restart.          *)
InterruptedRunsEnd ==
  \A t \in Task : phase = "visit" /\ t \in unseen /\ store[t].status = "Running"
                  ~> store[t].status # "Running"

-----------------------------------------------------------------------------
(* scheduler.go, "Load will fetch jobs data and status from storage": a task   *)
(* stored as finished is not executed again.  Yet a canceled one, whose        *)
(* container is removed, is loaded as Waiting.                                *)
FinishedIsNotWaiting ==
  [][\A t \in Task : phase = "put" /\ store[t].status \in Final
                     => store'[t].status # "Waiting"]_rvars
=============================================================================
