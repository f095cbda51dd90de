----------------------------- MODULE Scheduler -----------------------------
(* scheduler/scheduler.go between Start and the end of the process: the main  *)
(* loop, one watcher goroutine per run, the resource counters, the timers of  *)
(* the loop, and the API goroutines that add, cancel, delete and flush tasks. *)
(* Every method is cut at its accesses to the store, to docker and to the     *)
(* todo list: s.lock covers readers only, so these interleave freely.         *)
EXTENDS Integers, Units

CONSTANTS
  Task,         \* tasks that may be posted; each one gets its UUID at most once
  Slot,         \* watcher goroutines (bound: at least TotalCpu of them)
  Client,       \* API goroutines (bound: concurrent requests)
  NoTask,
  Cpu, Ram, MaxExec,   \* what each task asks for
  Recurrence,          \* "once", "every" (Every > 0) or "badcron" (an unparsable Cron)
  TotalCpu, TotalRam,  \* serve.go gives them to NewResources
  MaxDelay,     \* bound: a task starts at most this many ticks in the future
  Every,        \* ticks between two runs of a periodic task
  Ops,          \* the requests clients make besides Add
  Exits,        \* how a container ends by itself
  DockerFails   \* whether calls to docker may fail

ASSUME TaskAssumption ==
  /\ NoTask \notin Task
  /\ Cpu \in [Task -> Int] /\ Ram \in [Task -> Int] /\ MaxExec \in [Task -> Int]
  /\ Recurrence \in [Task -> {"once", "every", "badcron"}]

ASSUME BoundAssumption ==
  /\ TotalCpu \in Nat /\ TotalRam \in Nat
  /\ MaxDelay \in Nat /\ Every \in Nat
  /\ Ops \subseteq {"cancel", "delete", "flush"}
  /\ Exits \subseteq {"exited0", "exitedN"}
  /\ DockerFails \in BOOLEAN

VARIABLES
  store,     \* the JSON store: [status, start, run] by task; start counts down to 0 (due)
  ct,        \* the compose project's container of each task, as docker sees it
  cpu, ram,  \* Resources.cpu, Resources.ram
  newMsg,    \* somethingNewHappened owes the loop a turn (module Todo: one bit)
  timers,    \* remaining ticks of the time.AfterFunc timers armed by the loop
  loop,      \* where the main loop is
  chosen,    \* the loop's private copy of the task it executes
  slot,      \* each watcher goroutine: [pc, task, result]
  call,      \* each API goroutine: [pc, task, copy]
  added,     \* tasks that have been given a UUID
  canceled,  \* history: tasks on which Cancel has returned
  deleted    \* history: tasks Delete or Flush removed

loopVars == <<loop, chosen>>
clientVars == <<call, added, canceled, deleted>>
vars == <<store, ct, cpu, ram, newMsg, timers, loopVars, slot, clientVars>>

Final == {"Done", "Timeout", "Canceled", "Error"}
Status == {"Absent", "Waiting", "Running"} \cup Final
CtState == {"none", "running", "exited0", "exitedN"}
Horizon == 0..(IF MaxDelay > Every THEN MaxDelay ELSE Every)

Record(s, d, r) == [status |-> s, start |-> d, run |-> r]
Absent == Record("Absent", 0, FALSE)
Stored(t) == store[t].status # "Absent"

Put(t, r) == store' = [store EXCEPT ![t] = r]
Ping == newMsg' = TRUE

NoChoice == [task |-> NoTask, run |-> FALSE]
FreeSlot == [pc |-> "free", task |-> NoTask, result |-> "Waiting"]
IdleCall == [pc |-> "idle", task |-> NoTask, copy |-> Absent]

Move(w, pc, result) ==
  slot' = [slot EXCEPT ![w] = [slot[w] EXCEPT !.pc = pc, !.result = result]]

GoTo(c, pc, copy) ==
  call' = [call EXCEPT ![c] = [call[c] EXCEPT !.pc = pc, !.copy = copy]]

WatcherFrame == UNCHANGED <<cpu, ram, timers, loopVars, clientVars>>
ClientFrame == UNCHANGED <<cpu, ram, timers, loopVars, slot>>

Init == /\ store = [t \in Task |-> Absent]
        /\ ct = [t \in Task |-> "none"]
        /\ cpu = TotalCpu /\ ram = TotalRam
        /\ newMsg = FALSE
        /\ timers = {}
        /\ loop = "idle" /\ chosen = NoChoice
        /\ slot = [w \in Slot |-> FreeSlot]
        /\ call = [c \in Client |-> IdleCall]
        /\ added = {} /\ canceled = {} /\ deleted = {}

-----------------------------------------------------------------------------
(* Mistakes: what a definition below would be with one line of the code wrong. *)
(* Each breaks a property, which the definition of the code satisfies.        *)

IsDoableForgetsCpu(t) == Ram[t] <= ram

WaitingUnlessRunning == {t \in Task : store[t].status \notin {"Absent", "Running"}}

LoopSleepForever == /\ loop = "next"
                    /\ loop' = "idle"
                    /\ UNCHANGED <<store, ct, cpu, ram, newMsg, timers, chosen, slot, clientVars>>

ExecUpFailLeaks(w) == /\ loop = "up"
                      /\ slot[w].pc = "up"
                      /\ DockerFails
                      /\ slot' = [slot EXCEPT ![w] = FreeSlot]
                      /\ loop' = "putError"
                      /\ UNCHANGED <<store, ct, cpu, ram, newMsg, timers, chosen, clientVars>>

ExecPutStillWaiting(w) == /\ loop = "put"
                          /\ slot[w].pc = "put"
                          /\ Put(chosen.task, Record("Waiting", 0, TRUE))
                          /\ Move(w, "wait", "Waiting")
                          /\ loop' = "ping"
                          /\ chosen' = NoChoice
                          /\ UNCHANGED <<ct, cpu, ram, newMsg, timers, clientVars>>

WaitExitIsRunning(w) == /\ slot[w].pc = "wait"
                        /\ ct[slot[w].task] # "running"
                        /\ Move(w, "inspect", "Running")
                        /\ UNCHANGED <<store, ct, newMsg>> /\ WatcherFrame

DeadlineForgetsKill(w) == /\ slot[w].pc = "wait"
                          /\ Move(w, "save", "Timeout")
                          /\ UNCHANGED <<store, ct, newMsg>> /\ WatcherFrame

KillFailTriesAgain(w) == /\ slot[w].pc = "kill"
                         /\ ct[slot[w].task] # "running" \/ DockerFails
                         /\ UNCHANGED <<store, ct, newMsg, slot>> /\ WatcherFrame

InspectForgetsExitCode(w) == /\ slot[w].pc = "inspect"
                             /\ ct[slot[w].task] # "none"
                             /\ Move(w, "save", "Done")
                             /\ UNCHANGED <<store, ct, newMsg>> /\ WatcherFrame

WatchPingForgotten(w) == /\ slot[w].pc = "ping"
                         /\ Move(w, "release", "Waiting")
                         /\ UNCHANGED <<store, ct, newMsg>> /\ WatcherFrame

AddPingForgotten(c) == /\ call[c].pc = "addPing"
                       /\ call' = [call EXCEPT ![c] = IdleCall]
                       /\ UNCHANGED <<store, ct, newMsg, added, canceled, deleted>>
                       /\ ClientFrame

AfterDownStillRunning(c) ==
  GoTo(c, IF call[c].pc \in {"cancelDown", "cancelRemove"} THEN "cancelPut" ELSE "deleteStore",
       call[c].copy)

-----------------------------------------------------------------------------
(* Resources                                                                 *)

Check(t) == /\ 0 < Cpu[t] /\ Cpu[t] <= TotalCpu
            /\ 0 < Ram[t] /\ Ram[t] <= TotalRam

IsDoable(t) == Cpu[t] <= cpu /\ Ram[t] <= ram

Consume(t) == /\ cpu' = cpu - Cpu[t]
              /\ ram' = ram - Ram[t]

(* The goroutine Consume starts gives back what it took, once.  *)
Release(w) == /\ slot[w].pc = "release"
              /\ cpu' = cpu + Cpu[slot[w].task]
              /\ ram' = ram + Ram[slot[w].task]
              /\ slot' = [slot EXCEPT ![w] = FreeSlot]
              /\ UNCHANGED <<store, ct, newMsg, timers, loopVars, clientVars>>

-----------------------------------------------------------------------------
(* The main loop: oneLoop and execTask                                       *)

Waiting == {t \in Task : store[t].status = "Waiting"}
Ready == {t \in Waiting : store[t].start = 0 /\ IsDoable(t)}
Karma(t) == (Ram[t] * Cpu[t]) \div MaxExec[t]

LoopWake == /\ loop = "idle"
            /\ newMsg
            /\ newMsg' = FALSE
            /\ loop' = "look"
            /\ UNCHANGED <<store, ct, cpu, ram, timers, chosen, slot, clientVars>>

(* readyToGo, and the head of its unstable sort by karma.  *)
LoopPick == /\ loop = "look"
            /\ \E t \in Ready :
                 /\ \A u \in Ready : Karma(t) <= Karma(u)
                 /\ chosen' = [task |-> t, run |-> store[t].run]
            /\ loop' = "exec"
            /\ UNCHANGED <<store, ct, cpu, ram, newMsg, timers, slot, clientVars>>

LoopNothing == /\ loop = "look"
               /\ Ready = {}
               /\ loop' = "next"
               /\ UNCHANGED <<store, ct, cpu, ram, newMsg, timers, chosen, slot, clientVars>>

(* next: sleep until the earliest start of a waiting task, if there is one.  *)
LoopSleep == /\ loop = "next"
             /\ \/ Waiting = {} /\ UNCHANGED timers
                \/ \E t \in Waiting :
                     /\ \A u \in Waiting : store[t].start <= store[u].start
                     /\ timers' = timers \cup {store[t].start}
             /\ loop' = "idle"
             /\ UNCHANGED <<store, ct, cpu, ram, newMsg, chosen, slot, clientVars>>

ExecConsume(w) == /\ loop = "exec"
                  /\ slot[w].pc = "free"
                  /\ Consume(chosen.task)
                  /\ slot' = [slot EXCEPT ![w] = [FreeSlot EXCEPT !.pc = "up",
                                                                  !.task = chosen.task]]
                  /\ loop' = "up"
                  /\ UNCHANGED <<store, ct, newMsg, timers, chosen, clientVars>>

(* compose up starts the project's container, or finds it started.  *)
ExecUp(w) == /\ loop = "up"
             /\ slot[w].pc = "up"
             /\ ct' = [ct EXCEPT ![chosen.task] = "running"]
             /\ Move(w, "put", "Waiting")
             /\ loop' = "put"
             /\ UNCHANGED <<store, cpu, ram, newMsg, timers, chosen, clientVars>>

(* Up fails before or after it started the container.  *)
ExecUpFail(w) == /\ loop = "up"
                 /\ slot[w].pc = "up"
                 /\ DockerFails
                 /\ \/ UNCHANGED ct
                    \/ ct' = [ct EXCEPT ![chosen.task] = "running"]
                 /\ Move(w, "release", "Waiting")
                 /\ loop' = "putError"
                 /\ UNCHANGED <<store, cpu, ram, newMsg, timers, chosen, clientVars>>

ExecPutError == /\ loop = "putError"
                /\ Put(chosen.task, Record("Error", 0, chosen.run))
                /\ loop' = "ping"
                /\ chosen' = NoChoice
                /\ UNCHANGED <<ct, cpu, ram, newMsg, timers, slot, clientVars>>

ExecPutRunning(w) == /\ loop = "put"
                     /\ slot[w].pc = "put"
                     /\ Put(chosen.task, Record("Running", 0, TRUE))
                     /\ Move(w, "wait", "Waiting")
                     /\ loop' = "ping"
                     /\ chosen' = NoChoice
                     /\ UNCHANGED <<ct, cpu, ram, newMsg, timers, clientVars>>

LoopPing == /\ loop = "ping"
            /\ Ping
            /\ loop' = "idle"
            /\ UNCHANGED <<store, ct, cpu, ram, timers, chosen, slot, clientVars>>

LoopStep == LoopWake \/ LoopPick \/ LoopNothing \/ LoopSleep \/ ExecPutError \/ LoopPing
ExecStep(w) == ExecConsume(w) \/ ExecUp(w) \/ ExecUpFail(w) \/ ExecPutRunning(w)

-----------------------------------------------------------------------------
(* The watcher goroutine: DockerRun.Wait, then Put, Ping and the cleanup     *)

(* The container stopped; the status keeps its zero value, Waiting.  *)
WaitExit(w) == /\ slot[w].pc = "wait"
               /\ ct[slot[w].task] # "running"
               /\ Move(w, "inspect", "Waiting")
               /\ UNCHANGED <<store, ct, newMsg>> /\ WatcherFrame

(* MaxExectionTime is over: at any moment, with respect to the container.  *)
WaitDeadline(w) == /\ slot[w].pc = "wait"
                   /\ Move(w, "kill", "Timeout")
                   /\ UNCHANGED <<store, ct, newMsg>> /\ WatcherFrame

WaitError(w) == /\ slot[w].pc = "wait"
                /\ DockerFails
                /\ Move(w, "kill", "Error")
                /\ UNCHANGED <<store, ct, newMsg>> /\ WatcherFrame

Kill(w) == /\ slot[w].pc = "kill"
           /\ ct[slot[w].task] = "running"
           /\ ct' = [ct EXCEPT ![slot[w].task] = "exitedN"]
           /\ Move(w, "inspect", slot[w].result)
           /\ UNCHANGED <<store, newMsg>> /\ WatcherFrame

(* Killing a container that does not run is an error for docker.  *)
KillFail(w) == /\ slot[w].pc = "kill"
               /\ ct[slot[w].task] # "running" \/ DockerFails
               /\ Move(w, "save", "Error")
               /\ UNCHANGED <<store, ct, newMsg>> /\ WatcherFrame

(* Only an exit code of 0 changes the status: a failed exit keeps it.  *)
Inspect(w) == /\ slot[w].pc = "inspect"
              /\ ct[slot[w].task] # "none"
              /\ Move(w, "save", IF ct[slot[w].task] = "exited0" THEN "Done"
                                 ELSE slot[w].result)
              /\ UNCHANGED <<store, ct, newMsg>> /\ WatcherFrame

InspectFail(w) == /\ slot[w].pc = "inspect"
                  /\ ct[slot[w].task] = "none" \/ DockerFails
                  /\ Move(w, "save", "Error")
                  /\ UNCHANGED <<store, ct, newMsg>> /\ WatcherFrame

(* HasCron and PrepareReschedule: what the watcher writes after a run.  *)
AfterRun(t, result) ==
  CASE Recurrence[t] = "once"    -> Record(result, 0, TRUE)
    [] Recurrence[t] = "every"   -> Record("Waiting", Every, TRUE)
    [] Recurrence[t] = "badcron" -> Record("Error", 0, TRUE)

WatchPut(w) == /\ slot[w].pc = "save"
               /\ Put(slot[w].task, AfterRun(slot[w].task, slot[w].result))
               /\ Move(w, "ping", "Waiting")
               /\ UNCHANGED <<ct, newMsg>> /\ WatcherFrame

(* The ping comes before the deferred cleanup that frees the resources.  *)
WatchPing(w) == /\ slot[w].pc = "ping"
                /\ Ping
                /\ Move(w, "release", "Waiting")
                /\ UNCHANGED <<store, ct>> /\ WatcherFrame

WatchStep(w) == \/ WaitExit(w) \/ WaitDeadline(w) \/ WaitError(w)
                \/ Kill(w) \/ KillFail(w) \/ Inspect(w) \/ InspectFail(w)
                \/ WatchPut(w) \/ WatchPing(w) \/ Release(w)

-----------------------------------------------------------------------------
(* API goroutines: Add, Cancel, Delete and Flush                             *)

Reply(c) == call' = [call EXCEPT ![c] = IdleCall]

Admissible(t) == Check(t) /\ MaxExec[t] > 0

Add(c, t) == /\ call[c].pc = "idle"
             /\ t \notin added
             /\ Admissible(t)
             /\ \E d \in 0..MaxDelay : Put(t, Record("Waiting", d, FALSE))
             /\ added' = added \cup {t}
             /\ call' = [call EXCEPT ![c] = [IdleCall EXCEPT !.pc = "addPing"]]
             /\ UNCHANGED <<ct, newMsg, canceled, deleted>> /\ ClientFrame

AddPing(c) == /\ call[c].pc = "addPing"
              /\ Ping
              /\ Reply(c)
              /\ UNCHANGED <<store, ct, added, canceled, deleted>> /\ ClientFrame

(* Get returns a copy; what follows works on the copy.  *)
Get(c, t, down, other, copy) ==
  call' = [call EXCEPT ![c] = [pc |-> IF store[t].status = "Running" THEN down ELSE other,
                               task |-> t, copy |-> copy]]

CancelGet(c, t) == /\ "cancel" \in Ops
                   /\ call[c].pc = "idle"
                   /\ Stored(t) /\ store[t].status # "Canceled"
                   /\ Get(c, t, "cancelDown", "cancelPut", store[t])
                   /\ UNCHANGED <<store, ct, newMsg, added, canceled, deleted>> /\ ClientFrame

DeleteGet(c, t) == /\ "delete" \in Ops
                   /\ call[c].pc = "idle"
                   /\ Stored(t)
                   /\ Get(c, t, "deleteDown", "deleteStore", Absent)
                   /\ UNCHANGED <<store, ct, newMsg, added, canceled, deleted>> /\ ClientFrame

(* After docker-compose down, whose error is ignored.  *)
AfterDown(c) ==
  IF call[c].pc \in {"cancelDown", "cancelRemove"}
  THEN GoTo(c, "cancelPut", [call[c].copy EXCEPT !.status = "Canceled"])
  ELSE GoTo(c, "deleteStore", call[c].copy)

(* Down stops the container, which may answer the signal with any exit code ... *)
DownStop(c) ==
  /\ \/ call[c].pc = "cancelDown" /\ GoTo(c, "cancelRemove", call[c].copy)
     \/ call[c].pc = "deleteDown" /\ GoTo(c, "deleteRemove", call[c].copy)
  /\ \E x \in {"exited0", "exitedN"} :
       ct' = [ct EXCEPT ![call[c].task] = IF @ = "running" THEN x ELSE @]
  /\ UNCHANGED <<store, newMsg, added, canceled, deleted>> /\ ClientFrame

(* ... and removes it.  *)
DownRemove(c) == /\ call[c].pc \in {"cancelRemove", "deleteRemove"}
                 /\ ct' = [ct EXCEPT ![call[c].task] = "none"]
                 /\ AfterDown(c)
                 /\ UNCHANGED <<store, newMsg, added, canceled, deleted>> /\ ClientFrame

DownFail(c) == /\ call[c].pc \in {"cancelDown", "deleteDown", "cancelRemove", "deleteRemove"}
               /\ DockerFails
               /\ AfterDown(c)
               /\ UNCHANGED <<store, ct, newMsg, added, canceled, deleted>> /\ ClientFrame

(* Whatever happened to the task since Get is overwritten.  *)
CancelPut(c) == /\ call[c].pc = "cancelPut"
                /\ Put(call[c].task, call[c].copy)
                /\ canceled' = canceled \cup {call[c].task}
                /\ Reply(c)
                /\ UNCHANGED <<ct, newMsg, added, deleted>> /\ ClientFrame

DeleteStore(c) == /\ call[c].pc = "deleteStore"
                  /\ Put(call[c].task, Absent)
                  /\ deleted' = deleted \cup {call[c].task}
                  /\ Reply(c)
                  /\ UNCHANGED <<ct, newMsg, added, canceled>> /\ ClientFrame

(* One batch of the store deletes the finished tasks that are old enough.  *)
Flush(c) == /\ "flush" \in Ops
            /\ call[c].pc = "idle"
            /\ \E S \in SUBSET {t \in Task : store[t].status \in Final} :
                 /\ S # {}
                 /\ store' = [t \in Task |-> IF t \in S THEN Absent ELSE store[t]]
                 /\ deleted' = deleted \cup S
            /\ UNCHANGED <<call, ct, newMsg, added, canceled>> /\ ClientFrame

ClientStart(c) == \/ \E t \in Task : Add(c, t) \/ CancelGet(c, t) \/ DeleteGet(c, t)
                  \/ Flush(c)
ClientStep(c) == \/ AddPing(c) \/ DownStop(c) \/ DownRemove(c) \/ DownFail(c)
                 \/ CancelPut(c) \/ DeleteStore(c)

-----------------------------------------------------------------------------
(* Containers and time                                                       *)

ContainerExit(t) == /\ ct[t] = "running"
                    /\ \E x \in Exits : ct' = [ct EXCEPT ![t] = x]
                    /\ UNCHANGED <<store, cpu, ram, newMsg, timers, loopVars, slot, clientVars>>

Pred(d) == IF d = 0 THEN 0 ELSE d - 1
Later(r) == [r EXCEPT !.start = Pred(@)]

Tick == /\ store' = [t \in Task |-> Later(store[t])]
        /\ call' = [c \in Client |-> [call[c] EXCEPT !.copy = Later(@)]]
        /\ timers' = {Pred(d) : d \in timers}
        /\ UNCHANGED <<ct, cpu, ram, newMsg, loopVars, slot, added, canceled, deleted>>

TimerFire == /\ 0 \in timers
             /\ timers' = timers \ {0}
             /\ Ping
             /\ UNCHANGED <<store, ct, cpu, ram, loopVars, slot, clientVars>>

-----------------------------------------------------------------------------
Next == \/ LoopStep
        \/ \E w \in Slot : ExecStep(w) \/ WatchStep(w)
        \/ \E c \in Client : ClientStart(c) \/ ClientStep(c)
        \/ \E t \in Task : ContainerExit(t)
        \/ Tick
        \/ TimerFire

Spec == Init /\ [][Next]_vars

(* Goroutines are scheduled and time passes.  A run ends: its context has a  *)
(* deadline, so the watcher always gets past Wait.                           *)
Fairness == /\ WF_vars(LoopStep \/ \E w \in Slot : ExecStep(w))
            /\ \A w \in Slot : WF_vars(WatchStep(w))
            /\ \A c \in Client : WF_vars(ClientStep(c))
            /\ WF_vars(Tick)
            /\ WF_vars(TimerFire)

FairSpec == Spec /\ Fairness

-----------------------------------------------------------------------------
(* Properties                                                                *)

Recorded == [status : Status, start : Horizon, run : BOOLEAN]
Results == {"Waiting", "Done", "Timeout", "Error"}
SlotPc == {"free", "up", "put", "wait", "kill", "inspect", "save", "ping", "release"}
SlotState == [pc : SlotPc, task : Task \cup {NoTask}, result : Results]
CallPc == {"idle", "addPing", "cancelDown", "cancelRemove", "cancelPut",
           "deleteDown", "deleteRemove", "deleteStore"}
CallState == [pc : CallPc, task : Task \cup {NoTask}, copy : Recorded]

(* The values the variables take.  *)
TypeOK ==
  /\ store \in [Task -> Recorded]
  /\ ct \in [Task -> CtState]
  /\ cpu \in Int /\ ram \in Int
  /\ newMsg \in BOOLEAN
  /\ timers \subseteq Horizon
  /\ loop \in {"idle", "look", "exec", "up", "put", "putError", "ping", "next"}
  /\ chosen \in [task : Task \cup {NoTask}, run : BOOLEAN]
  /\ slot \in [Slot -> SlotState]
  /\ call \in [Client -> CallState]
  /\ added \subseteq Task /\ canceled \subseteq Task /\ deleted \subseteq Task

Held == {w \in Slot : slot[w].pc # "free"}
Watches(w, t) == slot[w].task = t /\ slot[w].pc \in {"wait", "kill", "inspect", "save"}
Watching(t) == {w \in Slot : Watches(w, t)}
Executing(t) == {w \in Slot : slot[w].task = t /\ slot[w].pc \in {"up", "put"}} \cup Watching(t)

(* A Cancel, a Delete or a Flush was asked for this task.  *)
Touched(t) == \/ t \in canceled \cup deleted
              \/ \E c \in Client : call[c].task = t

(* readyToGo checks the resources and execTask takes them later, while the   *)
(* watchers give theirs back: the counters never go below zero.              *)
NoOvercommit == cpu >= 0 /\ ram >= 0

(* What is taken is held by a run, and is given back exactly once, whichever  *)
(* way the run ends: no capacity leaks and none is invented.                  *)
Takes(need) == [w \in Held |-> need[slot[w].task]]
ResourcesConserved == /\ cpu = TotalCpu - Total(Held, Takes(Cpu))
                      /\ ram = TotalRam - Total(Held, Takes(Ram))

(* The loop executes a task again only when its previous run is over.  *)
OneRunPerTask ==
  \A t \in Task : ~Touched(t) => \A v, w \in Executing(t) : v = w

(* A task stored as Running has a watcher that will write its end, and a     *)
(* watched task that nobody canceled or deleted is stored as Running.        *)
RunningIsWatched ==
  \A t \in Task :
    /\ store[t].status = "Running" => Watching(t) # {}
    /\ Watching(t) # {} /\ ~Touched(t) => store[t].status = "Running"

(* A container runs on resources that are accounted for.  *)
ContainersAreAccounted ==
  \A t \in Task : ct[t] = "running" =>
     \E w \in Slot : slot[w].task = t /\ slot[w].pc \in {"put", "wait", "kill"}

(* What the store says of a finished one-shot task is how its container ended. *)
StatusTellsTheEnd ==
  \A t \in Task : ~Touched(t) /\ Recurrence[t] = "once" =>
     /\ store[t].status = "Done" => ct[t] = "exited0"
     /\ store[t].status = "Timeout" => ct[t] = "exitedN"

(* While the loop sleeps, every waiting task has a wake-up to come: a timer   *)
(* that is not later than its start, or a Ping that is about to be made.      *)
NoLostWakeup ==
  loop = "idle" /\ ~newMsg =>
    \A t \in Waiting :
      \/ Touched(t)
      \/ \E d \in timers : d <= store[t].start
      \/ \E c \in Client : call[c].pc = "addPing"
      \/ \E w \in Slot : slot[w].pc = "ping"

(* A finished task is never changed again by the loop or by a watcher.  *)
FinalIsFinal ==
  [][\A t \in Task : store[t].status \in Final /\ ~Touched(t)
                      => store'[t].status \in {store[t].status, "Absent"}]_vars

(* Every run ends, and gives its resources back.  *)
RunsEnd == \A w \in Slot : slot[w].pc # "free" ~> slot[w].pc = "free"

(* Every one-shot task comes to an end, whatever room the others take and      *)
(* whatever fails, when no container exits with an error: no wake-up overlooks *)
(* it, unless someone deletes it.                                             *)
EveryTaskEnds ==
  \A t \in Task : Recurrence[t] = "once" =>
     (store[t].status = "Waiting" ~> store[t].status \in Final \/ Touched(t))

(* A periodic task is executed again and again, as long as it can be started: *)
(* a failure of its container does not end it.                                *)
PeriodicTasksGoOn ==
  \A t \in Task : Recurrence[t] = "every" =>
     (Stored(t) ~> store[t].status \in {"Running", "Error"})

-----------------------------------------------------------------------------
(* Tasks that go back to waiting after a run: the periodic ones, and those      *)
(* whose container exits with a code other than 0.                             *)
Requeued == {t \in Task : Recurrence[t] = "every" \/ "exitedN" \in Exits}

Board == INSTANCE TaskBoard WITH
  Periodic <- Requeued,
  board <- [t \in Task |-> IF Touched(t) THEN "Gone" ELSE store[t].status]

(* Tasks nobody cancels go through the states of the board, within capacity.  *)
ImplementsTaskBoard == Board!Spec

-----------------------------------------------------------------------------
(* What comments and tests say of the code, and the code does not do         *)

(* functional_tests/tests/test_rest.py, test_prune_on_cancel: after a DELETE   *)
(* there is no container.  Yet the loop executes a task canceled as it waited. *)
CanceledIsNotExecuted ==
  [][\A t \in canceled : loop = "look" /\ loop' = "exec" => chosen'.task # t]_vars

(* scheduler.go, "Delete a task": the private copy of the loop or of a watcher *)
(* puts the task back.                                                        *)
DeletedStaysDeleted == [][\A t \in deleted : ~Stored(t) => ~Stored(t)']_vars
=============================================================================
