--------------------------- MODULE SchedulerProofs ---------------------------
(* Safety of the scheduler for any number of tasks, watchers and API          *)
(* goroutines, any machine and any failure of docker.                         *)
EXTENDS Scheduler, TLAPS

(* The inductive invariant.  Every task the loop, a watcher or a client holds  *)
(* went through Add, and so passed Check.                                      *)
Known ==
  /\ \A t \in added : Admissible(t)
  /\ \A t \in Task : Stored(t) => t \in added
  /\ chosen.task \in added \cup {NoTask}
  /\ loop \in {"exec", "up", "put", "putError"} <=> chosen.task # NoTask
  /\ \A w \in Slot : slot[w].pc # "free" => slot[w].task \in added
  /\ \A c \in Client : IF call[c].pc \in {"idle", "addPing"} THEN call[c].task = NoTask
                       ELSE call[c].task \in added

(* What readyToGo saw free is still free when execTask takes it: only the loop *)
(* takes resources, and there is one loop.                                     *)
Capacity ==
  /\ cpu >= 0 /\ ram >= 0
  /\ loop = "exec" => Cpu[chosen.task] <= cpu /\ Ram[chosen.task] <= ram

(* The run being started is the loop's, and there is one.  *)
Starting ==
  /\ \A w \in Slot : slot[w].pc \in {"up", "put"} =>
       loop = slot[w].pc /\ slot[w].task = chosen.task
  /\ \A v, w \in Slot : slot[v].pc \in {"up", "put"} /\ slot[w].pc \in {"up", "put"} => v = w
  /\ \A c \in Client : call[c].pc = "cancelPut" => call[c].copy.status # "Running"

(* A task stored as Running is watched.  *)
Watched ==
  \A t \in Task : store[t].status = "Running" => \E w \in Slot : Watches(w, t)

(* A task nobody canceled or deleted has one watcher, which is there as long   *)
(* as the task is Running, and the loop executes it only while it is Waiting.   *)
Sole ==
  \A t \in Task : ~Touched(t) =>
    /\ \A v, w \in Slot : Watches(v, t) /\ Watches(w, t) => v = w
    /\ \A w \in Slot : Watches(w, t) => store[t].status = "Running"
    /\ chosen.task = t => store[t].status = "Waiting"

USE TaskAssumption, BoundAssumption

(* What the watcher stores after a run is a record of the store.  *)
LEMMA AfterRunType ==
  ASSUME NEW t \in Task, NEW result \in Results
  PROVE  /\ AfterRun(t, result) \in Recorded
         /\ AfterRun(t, result).status \notin {"Running", "Absent"}
  <1> USE DEF Results
  <1>1. Every \in Horizon /\ 0 \in Horizon
    BY DEF Horizon
  <1>2. CASE Recurrence[t] = "once"
    BY <1>1, <1>2 DEF AfterRun, Record, Recorded, Status, Final
  <1>3. CASE Recurrence[t] = "every"
    BY <1>1, <1>3 DEF AfterRun, Record, Recorded, Status, Final
  <1>4. CASE Recurrence[t] = "badcron"
    BY <1>1, <1>4 DEF AfterRun, Record, Recorded, Status, Final
  <1>5. QED
    BY <1>2, <1>3, <1>4

(* A tick keeps the start dates within the horizon and changes nothing else.  *)
LEMMA LaterType ==
  ASSUME NEW r \in Recorded
  PROVE  /\ Later(r) \in Recorded
         /\ Later(r).status = r.status
         /\ Later(r).run = r.run
  BY DEF Later, Pred, Recorded, Horizon

(* A tick moves a timer within the horizon.  *)
LEMMA PredType ==
  ASSUME NEW d \in Horizon
  PROVE  Pred(d) \in Horizon
  BY DEF Pred, Horizon

(* Moving a watcher keeps its type, its task and the other watchers.  *)
LEMMA MoveType ==
  ASSUME slot \in [Slot -> SlotState], NEW w \in Slot, NEW pc \in SlotPc, NEW result \in Results,
         Move(w, pc, result)
  PROVE  /\ slot' \in [Slot -> SlotState]
         /\ slot'[w].pc = pc /\ slot'[w].task = slot[w].task
         /\ \A v \in Slot \ {w} : slot'[v] = slot[v]
  BY DEF Move, SlotState

(* The same for an API goroutine.  *)
LEMMA GoToType ==
  ASSUME call \in [Client -> CallState], NEW c \in Client, NEW pc \in CallPc, NEW copy \in Recorded,
         GoTo(c, pc, copy)
  PROVE  /\ call' \in [Client -> CallState]
         /\ call'[c].pc = pc /\ call'[c].task = call[c].task /\ call'[c].copy = copy
         /\ \A d \in Client \ {c} : call'[d] = call[d]
  BY DEF GoTo, CallState

(* Every step of docker-compose down keeps the task of each API goroutine.  *)
LEMMA DownKeepsTasks ==
  ASSUME TypeOK, NEW c \in Client, DownStop(c) \/ DownRemove(c) \/ DownFail(c)
  PROVE  /\ \A d \in Client : call'[d].task = call[d].task
         /\ call'[c].pc \in {"cancelRemove", "deleteRemove", "cancelPut", "deleteStore"}
         /\ call[c].pc \in {"cancelDown", "deleteDown", "cancelRemove", "deleteRemove"}
         /\ call'[c].pc = "cancelPut" => call'[c].copy.status = "Canceled"
         /\ \A d \in Client \ {c} : call'[d] = call[d]
  <1>1. call \in [Client -> CallState] /\ call[c].copy \in Recorded
    BY DEF TypeOK, CallState
  <1>2. [call[c].copy EXCEPT !.status = "Canceled"] \in Recorded
    BY <1>1 DEF Recorded, Status, Final
  <1>3. [call[c].copy EXCEPT !.status = "Canceled"].status = "Canceled"
    BY <1>1 DEF Recorded
  <1>4. CASE DownStop(c)
    <2>1. PICK pc \in {"cancelRemove", "deleteRemove"} : GoTo(c, pc, call[c].copy)
      BY <1>4 DEF DownStop
    <2>2. pc \in CallPc
      BY DEF CallPc
    <2>3. call[c].pc \in {"cancelDown", "deleteDown"}
      BY <1>4 DEF DownStop
    <2>4. QED
      BY <1>1, <2>1, <2>2, <2>3, GoToType
  <1>5. CASE DownRemove(c) \/ DownFail(c)
    <2>1. /\ call[c].pc \in {"cancelDown", "deleteDown", "cancelRemove", "deleteRemove"}
          /\ AfterDown(c)
      BY <1>5 DEF DownRemove, DownFail
    <2>2. CASE call[c].pc \in {"cancelDown", "cancelRemove"}
      <3>. DEFINE k == [call[c].copy EXCEPT !.status = "Canceled"]
      <3>1. GoTo(c, "cancelPut", k)
        BY <2>1, <2>2 DEF AfterDown
      <3>2. k \in Recorded /\ k.status = "Canceled" /\ "cancelPut" \in CallPc
        BY <1>2, <1>3 DEF CallPc
      <3>. HIDE DEF k
      <3>3. /\ call'[c].pc = "cancelPut" /\ call'[c].task = call[c].task /\ call'[c].copy = k
            /\ \A d \in Client \ {c} : call'[d] = call[d]
        BY <1>1, <3>1, <3>2, GoToType
      <3>4. QED
        BY <2>1, <3>2, <3>3
    <2>3. CASE call[c].pc \notin {"cancelDown", "cancelRemove"}
      <3>1. GoTo(c, "deleteStore", call[c].copy)
        BY <2>1, <2>3 DEF AfterDown
      <3>2. "deleteStore" \in CallPc
        BY DEF CallPc
      <3>3. /\ call'[c].pc = "deleteStore" /\ call'[c].task = call[c].task
            /\ \A d \in Client \ {c} : call'[d] = call[d]
        BY <1>1, <3>1, <3>2, GoToType
      <3>4. QED
        BY <2>1, <3>3
    <2>4. QED
      BY <2>2, <2>3
  <1>6. QED
    BY <1>4, <1>5

(* The initial values.  *)
LEMMA InitTypes ==
  ASSUME Init
  PROVE  TypeOK
  <1>1. 0 \in Horizon
    BY DEF Horizon
  <1>2. Absent \in Recorded
    BY <1>1 DEF Absent, Record, Recorded, Status
  <1>3. FreeSlot \in SlotState /\ IdleCall \in CallState
    BY <1>2 DEF FreeSlot, IdleCall, SlotState, CallState, SlotPc, CallPc, Results
  <1>4. newMsg \in BOOLEAN
    BY Zenon DEF Init
  <1>5. QED
    BY <1>2, <1>3, <1>4 DEF Init, TypeOK, NoChoice, CtState

(* Every step keeps the types.  *)
LEMMA StepTypes ==
  ASSUME TypeOK, Known, [Next]_vars
  PROVE  TypeOK'
  <1> USE DEF TypeOK, loopVars, clientVars
  <1>0. 0 \in Horizon /\ Every \in Horizon /\ 0..MaxDelay \subseteq Horizon
    BY DEF Horizon
  <1>1. Absent \in Recorded
    BY <1>0 DEF Absent, Record, Recorded, Status
  <1>2. FreeSlot \in SlotState /\ IdleCall \in CallState
    BY <1>1 DEF FreeSlot, IdleCall, SlotState, CallState, SlotPc, CallPc, Results
  <1>3. CASE LoopWake \/ LoopNothing
    BY <1>3 DEF LoopWake, LoopNothing
  <1>4. CASE LoopPick
    BY <1>4 DEF LoopPick, Ready, Waiting, Recorded
  <1>5. CASE LoopSleep
    BY <1>5 DEF LoopSleep, Waiting, Recorded
  <1>6. CASE ExecPutError
    BY <1>6, <1>0 DEF ExecPutError, Put, Record, Recorded, Status, Final, NoChoice
  <1>7. CASE LoopPing
    BY <1>7 DEF LoopPing, Ping
  <1>8. ASSUME NEW w \in Slot, ExecConsume(w) PROVE TypeOK'
    <2>1. [FreeSlot EXCEPT !.pc = "up", !.task = chosen.task] \in SlotState
      BY DEF FreeSlot, SlotState, SlotPc, Results
    <2>2. chosen.task \in Task
      BY <1>8 DEF ExecConsume, Known
    <2>3. cpu' \in Int /\ ram' \in Int
      BY <1>8, <2>2 DEF ExecConsume, Consume
    <2>4. QED
      BY <1>8, <2>1, <2>3 DEF ExecConsume
  <1>9. ASSUME NEW w \in Slot, ExecUp(w) \/ ExecUpFail(w) PROVE TypeOK'
    <2>1. slot' \in [Slot -> SlotState]
      BY <1>9, MoveType DEF ExecUp, ExecUpFail, SlotPc, Results
    <2>2. QED
      BY <1>9, <2>1 DEF ExecUp, ExecUpFail, CtState
  <1>10. ASSUME NEW w \in Slot, ExecPutRunning(w) PROVE TypeOK'
    <2>1. slot' \in [Slot -> SlotState]
      BY <1>10, MoveType DEF ExecPutRunning, SlotPc, Results
    <2>2. QED
      BY <1>10, <1>0, <2>1 DEF ExecPutRunning, Put, Record, Recorded, Status, NoChoice
  <1>11. ASSUME NEW w \in Slot,
                WaitExit(w) \/ WaitDeadline(w) \/ WaitError(w) \/ KillFail(w) \/ InspectFail(w)
         PROVE  TypeOK'
    <2>1. slot' \in [Slot -> SlotState]
      BY <1>11, MoveType
      DEF WaitExit, WaitDeadline, WaitError, KillFail, InspectFail, SlotPc, Results
    <2>2. QED
      BY <1>11, <2>1 DEF WaitExit, WaitDeadline, WaitError, KillFail, InspectFail, WatcherFrame
  <1>12. ASSUME NEW w \in Slot, Kill(w) \/ Inspect(w) PROVE TypeOK'
    <2>1. slot[w].result \in Results
      BY DEF SlotState
    <2>2. slot' \in [Slot -> SlotState]
      BY <1>12, <2>1, MoveType DEF Kill, Inspect, SlotPc, Results
    <2>3. QED
      BY <1>12, <2>2 DEF Kill, Inspect, WatcherFrame, CtState
  <1>13. ASSUME NEW w \in Slot, WatchPut(w) PROVE TypeOK'
    <2>1. slot[w].task \in Task /\ slot[w].result \in Results
      BY <1>13 DEF WatchPut, Known, SlotState
    <2>2. AfterRun(slot[w].task, slot[w].result) \in Recorded
      BY <2>1, AfterRunType
    <2>3. slot' \in [Slot -> SlotState]
      BY <1>13, MoveType DEF WatchPut, SlotPc, Results
    <2>4. QED
      BY <1>13, <2>2, <2>3 DEF WatchPut, Put, WatcherFrame
  <1>14. ASSUME NEW w \in Slot, WatchPing(w) PROVE TypeOK'
    <2>1. slot' \in [Slot -> SlotState]
      BY <1>14, MoveType DEF WatchPing, SlotPc, Results
    <2>2. QED
      BY <1>14, <2>1 DEF WatchPing, Ping, WatcherFrame
  <1>15. ASSUME NEW w \in Slot, Release(w) PROVE TypeOK'
    <2>1. slot[w].task \in Task
      BY <1>15 DEF Release, Known
    <2>2. cpu' \in Int /\ ram' \in Int
      BY <1>15, <2>1 DEF Release
    <2>3. QED
      BY <1>15, <1>2, <2>2 DEF Release
  <1>16. ASSUME NEW c \in Client, NEW t \in Task, Add(c, t) PROVE TypeOK'
    <2>1. PICK d \in 0..MaxDelay : Put(t, Record("Waiting", d, FALSE))
      BY <1>16 DEF Add
    <2>2. Record("Waiting", d, FALSE) \in Recorded
      BY <1>0 DEF Record, Recorded, Status
    <2>3. [IdleCall EXCEPT !.pc = "addPing"] \in CallState
      BY <1>1 DEF IdleCall, CallState, CallPc
    <2>4. QED
      BY <1>16, <2>1, <2>2, <2>3 DEF Add, Put, ClientFrame
  <1>17. ASSUME NEW c \in Client, AddPing(c) PROVE TypeOK'
    BY <1>17, <1>2 DEF AddPing, Ping, Reply, ClientFrame
  <1>18. ASSUME NEW c \in Client, NEW t \in Task, CancelGet(c, t) \/ DeleteGet(c, t) PROVE TypeOK'
    BY <1>18, <1>1 DEF CancelGet, DeleteGet, Get, ClientFrame, CallState, CallPc
  <1>19. ASSUME NEW c \in Client, DownStop(c) PROVE TypeOK'
    <2>1. call' \in [Client -> CallState]
      BY <1>19, GoToType DEF DownStop, CallState, CallPc
    <2>2. PICK x \in {"exited0", "exitedN"} :
            ct' = [ct EXCEPT ![call[c].task] = IF @ = "running" THEN x ELSE @]
      BY <1>19 DEF DownStop
    <2>3. ct' \in [Task -> CtState]
      BY <2>2 DEF CtState
    <2>4. QED
      BY <1>19, <2>1, <2>3 DEF DownStop, ClientFrame
  <1>20. ASSUME NEW c \in Client, DownRemove(c) \/ DownFail(c) PROVE TypeOK'
    <2>1. [call[c].copy EXCEPT !.status = "Canceled"] \in Recorded
      BY DEF CallState, Recorded, Status, Final
    <2>2. call' \in [Client -> CallState]
      BY <1>20, <2>1, GoToType DEF DownRemove, DownFail, AfterDown, CallState, CallPc
    <2>3. QED
      BY <1>20, <2>2 DEF DownRemove, DownFail, ClientFrame, CtState
  <1>21. ASSUME NEW c \in Client, CancelPut(c) \/ DeleteStore(c) PROVE TypeOK'
    <2>1. call[c].task \in Task /\ call[c].copy \in Recorded
      BY <1>21 DEF CancelPut, DeleteStore, Known, CallState
    <2>2. QED
      BY <1>21, <1>1, <1>2, <2>1 DEF CancelPut, DeleteStore, Put, Reply, ClientFrame
  <1>22. ASSUME NEW c \in Client, Flush(c) PROVE TypeOK'
    BY <1>22, <1>1 DEF Flush, ClientFrame
  <1>23. ASSUME NEW t \in Task, ContainerExit(t) PROVE TypeOK'
    BY <1>23 DEF ContainerExit, CtState
  <1>24. CASE Tick
    <2>1. store' \in [Task -> Recorded]
      BY <1>24, LaterType DEF Tick
    <2>2. call' \in [Client -> CallState]
      <3>1. ASSUME NEW c \in Client PROVE [call[c] EXCEPT !.copy = Later(@)] \in CallState
        BY LaterType DEF CallState
      <3>2. QED
        BY <1>24, <3>1 DEF Tick
    <2>3. timers' \subseteq Horizon
      BY <1>24, PredType DEF Tick
    <2>4. QED
      BY <1>24, <2>1, <2>2, <2>3 DEF Tick
  <1>25. CASE TimerFire
    BY <1>25 DEF TimerFire, Ping
  <1>26. CASE UNCHANGED vars
    BY <1>26 DEF vars
  <1>27. QED
    BY <1>3, <1>4, <1>5, <1>6, <1>7, <1>8, <1>9, <1>10, <1>11, <1>12, <1>13, <1>14,
       <1>15, <1>16, <1>17, <1>18, <1>19, <1>20, <1>21, <1>22, <1>23, <1>24, <1>25, <1>26
    DEF Next, LoopStep, ExecStep, WatchStep, ClientStart, ClientStep

(* What a step of the main loop leaves alone.  *)
LEMMA LoopFrame ==
  ASSUME LoopStep
  PROVE  UNCHANGED <<ct, cpu, ram, slot, call, added, canceled, deleted>>
  BY DEF LoopStep, LoopWake, LoopPick, LoopNothing, LoopSleep, ExecPutError, LoopPing, clientVars

(* What the execution of a task by the loop leaves alone.  *)
LEMMA ExecFrame ==
  ASSUME NEW w \in Slot, ExecStep(w)
  PROVE  UNCHANGED <<newMsg, timers, call, added, canceled, deleted>>
  BY DEF ExecStep, ExecConsume, ExecUp, ExecUpFail, ExecPutRunning, clientVars

(* What a watcher leaves alone.  *)
LEMMA WatchFrame ==
  ASSUME NEW w \in Slot, WatchStep(w)
  PROVE  UNCHANGED <<timers, loop, chosen, call, added, canceled, deleted>>
  BY DEF WatchStep, WaitExit, WaitDeadline, WaitError, Kill, KillFail, Inspect, InspectFail,
         WatchPut, WatchPing, Release, WatcherFrame, loopVars, clientVars

(* What an API goroutine leaves alone.  *)
LEMMA ClientsFrame ==
  ASSUME NEW c \in Client, ClientStart(c) \/ ClientStep(c)
  PROVE  UNCHANGED <<cpu, ram, timers, loop, chosen, slot>>
  BY DEF ClientStart, ClientStep, Add, AddPing, CancelGet, DeleteGet, DownStop, DownRemove,
         DownFail, CancelPut, DeleteStore, Flush, ClientFrame, loopVars

(* Whoever was asked to be canceled or deleted stays so.  *)
LEMMA TouchedStays ==
  ASSUME TypeOK, Known, [Next]_vars, NEW t \in Task, Touched(t)
  PROVE  Touched(t)'
  <1> USE DEF Touched, TypeOK
  <1>1. CASE UNCHANGED <<call, added, canceled, deleted>>
    BY <1>1
  <1>2. ASSUME NEW c \in Client, ClientStart(c) PROVE Touched(t)'
    <2>1. CASE Flush(c)
      BY <2>1 DEF Flush
    <2>2. ASSUME NEW u \in Task, Add(c, u) \/ CancelGet(c, u) \/ DeleteGet(c, u)
          PROVE  Touched(t)'
      <3>1. call[c].task # t
        BY <2>2 DEF Add, CancelGet, DeleteGet, Known
      <3>2. \A d \in Client \ {c} : call'[d] = call[d]
        BY <2>2 DEF Add, CancelGet, DeleteGet, Get
      <3>3. canceled' = canceled /\ deleted' = deleted
        BY <2>2 DEF Add, CancelGet, DeleteGet
      <3>4. QED
        BY <3>1, <3>2, <3>3
    <2>3. QED
      BY <1>2, <2>1, <2>2 DEF ClientStart
  <1>3. ASSUME NEW c \in Client, ClientStep(c) PROVE Touched(t)'
    <2>1. CASE AddPing(c)
      BY <2>1 DEF AddPing, Reply, Known
    <2>2. CASE CancelPut(c) \/ DeleteStore(c)
      BY <2>2 DEF CancelPut, DeleteStore, Reply
    <2>3. CASE DownStop(c) \/ DownRemove(c) \/ DownFail(c)
      <3>1. canceled' = canceled /\ deleted' = deleted
        BY <2>3 DEF DownStop, DownRemove, DownFail
      <3>2. QED
        BY <2>3, <3>1, DownKeepsTasks
    <2>4. QED
      BY <1>3, <2>1, <2>2, <2>3 DEF ClientStep
  <1>4. CASE Tick
    BY <1>4 DEF Tick, CallState
  <1>5. QED
    BY <1>1, <1>2, <1>3, <1>4, LoopFrame, ExecFrame, WatchFrame
    DEF Next, vars, ContainerExit, TimerFire, clientVars

(* Only tasks that went through Add are stored, executed, watched or asked for. *)
LEMMA StepKnown ==
  ASSUME TypeOK, TypeOK', Known, Starting, [Next]_vars
  PROVE  Known'
  <1> USE DEF Known, TypeOK, Stored
  <1>1. CASE LoopStep
    <2>1. CASE LoopWake \/ LoopNothing \/ LoopSleep \/ LoopPing
      BY <1>1, <2>1, LoopFrame DEF LoopWake, LoopNothing, LoopSleep, LoopPing, Admissible, Check
    <2>2. CASE LoopPick
      BY <1>1, <2>2, LoopFrame DEF LoopPick, Ready, Waiting, Admissible, Check
    <2>3. CASE ExecPutError
      BY <1>1, <2>3, LoopFrame DEF ExecPutError, Put, NoChoice, Admissible, Check
    <2>4. QED
      BY <1>1, <2>1, <2>2, <2>3 DEF LoopStep
  <1>2. ASSUME NEW w \in Slot, ExecStep(w) PROVE Known'
    <2>1. CASE ExecConsume(w)
      BY <2>1, <1>2, ExecFrame DEF ExecConsume, Admissible, Check
    <2>2. CASE ExecUp(w) \/ ExecUpFail(w)
      <3>1. slot'[w].task = slot[w].task /\ \A v \in Slot \ {w} : slot'[v] = slot[v]
        BY <2>2, MoveType DEF ExecUp, ExecUpFail, SlotPc, Results
      <3>2. QED
        BY <2>2, <3>1, <1>2, ExecFrame DEF ExecUp, ExecUpFail, Admissible, Check
    <2>3. CASE ExecPutRunning(w)
      <3>1. slot'[w].task = slot[w].task /\ \A v \in Slot \ {w} : slot'[v] = slot[v]
        BY <2>3, MoveType DEF ExecPutRunning, SlotPc, Results
      <3>2. QED
        <4>1. chosen.task \in added
          BY <2>3 DEF ExecPutRunning
        <4>2. loop' = "ping" /\ chosen'.task = NoTask
          BY <2>3 DEF ExecPutRunning, NoChoice
        <4>3. \A t \in Task : Stored(t)' => t \in added
          BY <2>3, <4>1 DEF ExecPutRunning, Put
        <4>4. slot[w].task \in added
          BY <2>3 DEF ExecPutRunning
        <4>5. QED
          BY <3>1, <4>2, <4>3, <4>4, <1>2, ExecFrame DEF Admissible, Check
    <2>4. QED
      BY <1>2, <2>1, <2>2, <2>3 DEF ExecStep
  <1>3. ASSUME NEW w \in Slot, WatchStep(w) PROVE Known'
    <2>1. CASE Release(w)
      BY <2>1, <1>3, WatchFrame DEF Release, FreeSlot, Admissible, Check
    <2>2. CASE WatchPut(w)
      <3>1. slot'[w].task = slot[w].task /\ \A v \in Slot \ {w} : slot'[v] = slot[v]
        BY <2>2, MoveType DEF WatchPut, SlotPc, Results
      <3>2. slot[w].task \in added
        BY <2>2 DEF WatchPut
      <3>3. QED
        BY <2>2, <3>1, <3>2, <1>3, WatchFrame DEF WatchPut, Put, Admissible, Check
    <2>3. CASE \/ WaitExit(w) \/ WaitDeadline(w) \/ WaitError(w) \/ Kill(w) \/ KillFail(w)
               \/ Inspect(w) \/ InspectFail(w) \/ WatchPing(w)
      <3>1. PICK pc \in SlotPc, result \in Results : Move(w, pc, result)
        <4>1. slot[w].result \in Results
          BY DEF SlotState
        <4>2. QED
          BY <2>3, <4>1 DEF WaitExit, WaitDeadline, WaitError, Kill, KillFail, Inspect,
                            InspectFail, WatchPing, SlotPc, Results
      <3>2. slot'[w].task = slot[w].task /\ \A v \in Slot \ {w} : slot'[v] = slot[v]
        BY <3>1, MoveType
      <3>3. store' = store /\ slot[w].pc # "free"
        BY <2>3 DEF WaitExit, WaitDeadline, WaitError, Kill, KillFail, Inspect, InspectFail,
                    WatchPing
      <3>4. QED
        BY <3>2, <3>3, <1>3, WatchFrame DEF Admissible, Check
    <2>4. QED
      BY <1>3, <2>1, <2>2, <2>3 DEF WatchStep
  <1>4. ASSUME NEW c \in Client, ClientStart(c) PROVE Known'
    <2>1. ASSUME NEW t \in Task, Add(c, t) PROVE Known'
      <3>1. \A u \in Task \ {t} : store'[u] = store[u]
        BY <2>1 DEF Add, Put
      <3>2. added' = added \cup {t} /\ Admissible(t)
        BY <2>1 DEF Add
      <3>3. call'[c].task = NoTask /\ call'[c].pc = "addPing"
        BY <2>1 DEF Add, IdleCall
      <3>4. \A d \in Client \ {c} : call'[d] = call[d]
        BY <2>1 DEF Add
      <3>5. QED
        BY <1>4, ClientsFrame, <3>1, <3>2, <3>3, <3>4 DEF Admissible, Check
    <2>2. ASSUME NEW t \in Task, CancelGet(c, t) \/ DeleteGet(c, t) PROVE Known'
      <3>1. store' = store /\ added' = added /\ t \in added
        BY <2>2 DEF CancelGet, DeleteGet
      <3>2. /\ call'[c].task = t
            /\ call'[c].pc \in {"cancelDown", "cancelPut", "deleteDown", "deleteStore"}
            /\ \A d \in Client \ {c} : call'[d] = call[d]
        BY <2>2 DEF CancelGet, DeleteGet, Get
      <3>3. QED
        BY <1>4, ClientsFrame, <3>1, <3>2 DEF Admissible, Check
    <2>3. CASE Flush(c)
      BY <2>3, <1>4, ClientsFrame DEF Flush, Absent, Record, Admissible, Check
    <2>4. QED
      BY <1>4, <2>1, <2>2, <2>3 DEF ClientStart
  <1>5. ASSUME NEW c \in Client, ClientStep(c) PROVE Known'
    <2>1. CASE AddPing(c)
      BY <2>1, <1>5, ClientsFrame DEF AddPing, Reply, IdleCall, Admissible, Check
    <2>2. CASE CancelPut(c) \/ DeleteStore(c)
      <3>1. added' = added /\ call[c].task \in added
        BY <2>2 DEF CancelPut, DeleteStore
      <3>2. \A u \in Task : Stored(u)' => Stored(u) \/ u = call[c].task
        BY <2>2 DEF CancelPut, DeleteStore, Put
      <3>3. call' = [call EXCEPT ![c] = IdleCall]
        BY <2>2 DEF CancelPut, DeleteStore, Reply
      <3>4. QED
        BY <1>5, ClientsFrame, <3>1, <3>2, <3>3 DEF IdleCall, Admissible, Check
    <2>3. CASE DownStop(c) \/ DownRemove(c) \/ DownFail(c)
      <3>1. store' = store /\ added' = added
        BY <2>3 DEF DownStop, DownRemove, DownFail
      <3>2. QED
        BY <1>5, <2>3, <3>1, ClientsFrame, DownKeepsTasks DEF Admissible, Check
    <2>4. QED
      BY <1>5, <2>1, <2>2, <2>3 DEF ClientStep
  <1>6. ASSUME NEW t \in Task, ContainerExit(t) PROVE Known'
    BY <1>6 DEF ContainerExit, loopVars, clientVars, Admissible, Check
  <1>7. CASE Tick
    <2>1. \A u \in Task : Stored(u)' <=> Stored(u)
      BY <1>7, LaterType DEF Tick
    <2>2. \A c \in Client : call'[c].pc = call[c].pc /\ call'[c].task = call[c].task
      BY <1>7 DEF Tick, CallState
    <2>3. QED
      BY <1>7, <2>1, <2>2 DEF Tick, loopVars, Admissible, Check
  <1>8. CASE TimerFire \/ UNCHANGED vars
    BY <1>8 DEF TimerFire, vars, loopVars, clientVars, Admissible, Check
  <1>9. QED
    BY <1>1, <1>2, <1>3, <1>4, <1>5, <1>6, <1>7, <1>8 DEF Next

(* Every step of a watcher but its Put leaves the store alone, and only the Put *)
(* ends the watch.                                                             *)
LEMMA WatchMoves ==
  ASSUME TypeOK, NEW w \in Slot, WatchStep(w)
  PROVE  /\ slot'[w].pc \notin {"up", "put"}
         /\ \A v \in Slot \ {w} : slot'[v] = slot[v]
         /\ ~WatchPut(w) => /\ store' = store
                            /\ \A t \in Task : Watches(w, t)' <=> Watches(w, t)
         /\ WatchPut(w) => \A t \in Task : ~Watches(w, t)'
  <1> USE DEF TypeOK
  <1>1. CASE Release(w)
    BY <1>1 DEF Release, FreeSlot, Watches, WatchPut
  <1>2. CASE WatchPut(w)
    <2>1. Move(w, "ping", "Waiting")
      BY <1>2 DEF WatchPut
    <2>2. slot'[w].pc = "ping" /\ \A v \in Slot \ {w} : slot'[v] = slot[v]
      BY <2>1, MoveType DEF SlotPc, Results
    <2>3. QED
      BY <1>2, <2>2 DEF Watches
  <1>3. CASE WatchPing(w)
    <2>1. Move(w, "release", "Waiting") /\ slot[w].pc = "ping"
      BY <1>3 DEF WatchPing
    <2>2. slot'[w].pc = "release" /\ \A v \in Slot \ {w} : slot'[v] = slot[v]
      BY <2>1, MoveType DEF SlotPc, Results
    <2>3. QED
      BY <1>3, <2>1, <2>2 DEF Watches, WatchPing, WatchPut
  <1>4. CASE \/ WaitExit(w) \/ WaitDeadline(w) \/ WaitError(w) \/ Kill(w) \/ KillFail(w)
             \/ Inspect(w) \/ InspectFail(w)
    <2> DEFINE phases == {"kill", "inspect", "save"}
    <2>1. slot[w].result \in Results
      BY DEF SlotState
    <2>2. PICK pc \in phases, result \in Results : Move(w, pc, result)
      BY <1>4, <2>1 DEF WaitExit, WaitDeadline, WaitError, Kill, KillFail, Inspect,
                        InspectFail, Results
    <2>3. slot'[w].pc \in phases /\ slot'[w].task = slot[w].task
          /\ \A v \in Slot \ {w} : slot'[v] = slot[v]
      BY <2>2, MoveType DEF SlotPc
    <2>4. slot[w].pc \in {"wait", "kill", "inspect"} /\ store' = store
      BY <1>4 DEF WaitExit, WaitDeadline, WaitError, Kill, KillFail, Inspect, InspectFail
    <2>5. ~WatchPut(w)
      BY <2>4 DEF WatchPut
    <2>6. QED
      BY <2>3, <2>4, <2>5 DEF Watches
  <1>5. QED
    BY <1>1, <1>2, <1>3, <1>4 DEF WatchStep

(* Only the loop takes resources, after it saw them free.  *)
LEMMA StepCapacity ==
  ASSUME TypeOK, Known, Capacity, [Next]_vars
  PROVE  Capacity'
  <1> USE DEF Capacity, TypeOK
  <1>1. CASE LoopStep
    <2>1. CASE LoopPick
      BY <1>1, <2>1, LoopFrame DEF LoopPick, Ready, Waiting, IsDoable
    <2>2. CASE ~LoopPick
      <3>1. loop' # "exec"
        BY <1>1, <2>2 DEF LoopStep, LoopWake, LoopNothing, LoopSleep, ExecPutError, LoopPing
      <3>2. QED
        BY <1>1, <3>1, LoopFrame
    <2>3. QED
      BY <2>1, <2>2
  <1>2. ASSUME NEW w \in Slot, ExecStep(w) PROVE Capacity'
    <2>1. CASE ExecConsume(w)
      <3>1. chosen.task \in Task
        BY <2>1 DEF ExecConsume, Known
      <3>2. QED
        BY <2>1, <3>1 DEF ExecConsume, Consume
    <2>2. CASE ExecUp(w) \/ ExecUpFail(w) \/ ExecPutRunning(w)
      BY <2>2 DEF ExecUp, ExecUpFail, ExecPutRunning
    <2>3. QED
      BY <1>2, <2>1, <2>2 DEF ExecStep
  <1>3. ASSUME NEW w \in Slot, WatchStep(w) PROVE Capacity'
    <2>1. CASE Release(w)
      <3>1. slot[w].task \in Task /\ Cpu[slot[w].task] > 0 /\ Ram[slot[w].task] > 0
        BY <2>1 DEF Release, Known, Admissible, Check
      <3>2. cpu' >= cpu /\ ram' >= ram /\ cpu' \in Int /\ ram' \in Int
        BY <2>1, <3>1 DEF Release
      <3>3. loop = "exec" => chosen.task \in Task
        BY DEF Known
      <3>4. QED
        BY <1>3, <3>2, <3>3, WatchFrame
    <2>2. CASE ~Release(w)
      <3>1. cpu' = cpu /\ ram' = ram
        BY <1>3, <2>2 DEF WatchStep, WaitExit, WaitDeadline, WaitError, Kill, KillFail, Inspect,
                          InspectFail, WatchPut, WatchPing, WatcherFrame
      <3>2. QED
        BY <1>3, <3>1, WatchFrame
    <2>3. QED
      BY <2>1, <2>2
  <1>4. ASSUME NEW c \in Client, ClientStart(c) \/ ClientStep(c) PROVE Capacity'
    BY <1>4, ClientsFrame
  <1>5. CASE Tick \/ TimerFire \/ UNCHANGED vars \/ \E t \in Task : ContainerExit(t)
    BY <1>5 DEF Tick, TimerFire, vars, ContainerExit, loopVars
  <1>6. QED
    BY <1>1, <1>2, <1>3, <1>4, <1>5 DEF Next

(* The loop starts one run at a time, and no client holds a Running copy to put. *)
LEMMA StepStarting ==
  ASSUME TypeOK, Known, Starting, [Next]_vars
  PROVE  Starting'
  <1> USE DEF Starting, TypeOK
  <1>1. CASE LoopStep
    <2>1. loop \notin {"up", "put"}
      BY <1>1 DEF LoopStep, LoopWake, LoopPick, LoopNothing, LoopSleep, ExecPutError, LoopPing
    <2>2. \A w \in Slot : slot'[w].pc \notin {"up", "put"}
      BY <1>1, <2>1, LoopFrame
    <2>3. QED
      BY <1>1, <2>2, LoopFrame
  <1>2. ASSUME NEW w \in Slot, ExecStep(w) PROVE Starting'
    <2>1. CASE ExecConsume(w)
      <3>1. \A v \in Slot : slot[v].pc \notin {"up", "put"}
        BY <2>1 DEF ExecConsume
      <3>2. slot'[w].pc = "up" /\ slot'[w].task = chosen.task /\ loop' = "up" /\ chosen' = chosen
        BY <2>1 DEF ExecConsume, FreeSlot
      <3>3. \A v \in Slot \ {w} : slot'[v] = slot[v]
        BY <2>1 DEF ExecConsume
      <3>4. QED
        BY <1>2, <3>1, <3>2, <3>3, ExecFrame
    <2>2. CASE ExecUp(w)
      <3>1. slot'[w].pc = "put" /\ slot'[w].task = slot[w].task
            /\ \A v \in Slot \ {w} : slot'[v] = slot[v]
        BY <2>2, MoveType DEF ExecUp, SlotPc, Results
      <3>2. \A v \in Slot \ {w} : slot'[v].pc \notin {"up", "put"}
        BY <2>2, <3>1 DEF ExecUp
      <3>3. QED
        BY <1>2, <2>2, <3>1, <3>2, ExecFrame DEF ExecUp
    <2>3. CASE ExecUpFail(w) \/ ExecPutRunning(w)
      <3>1. slot'[w].pc \notin {"up", "put"} /\ \A v \in Slot \ {w} : slot'[v] = slot[v]
        BY <2>3, MoveType DEF ExecUpFail, ExecPutRunning, SlotPc, Results
      <3>2. \A v \in Slot : slot'[v].pc \notin {"up", "put"}
        BY <2>3, <3>1 DEF ExecUpFail, ExecPutRunning
      <3>3. QED
        BY <1>2, <3>2, ExecFrame
    <2>4. QED
      BY <1>2, <2>1, <2>2, <2>3 DEF ExecStep
  <1>3. ASSUME NEW w \in Slot, WatchStep(w) PROVE Starting'
    BY <1>3, WatchMoves, WatchFrame
  <1>4. ASSUME NEW c \in Client, ClientStart(c) \/ ClientStep(c) PROVE Starting'
    <2>1. call'[c].pc = "cancelPut" => call'[c].copy.status # "Running"
      <3>1. CASE Flush(c)
        BY <3>1 DEF Flush
      <3>2. ASSUME NEW t \in Task, Add(c, t) \/ CancelGet(c, t) \/ DeleteGet(c, t)
            PROVE call'[c].pc = "cancelPut" => call'[c].copy.status # "Running"
        <4>1. CASE Add(c, t)
          BY <4>1 DEF Add, IdleCall
        <4>2. CASE CancelGet(c, t)
          BY <4>2 DEF CancelGet, Get
        <4>3. CASE DeleteGet(c, t)
          BY <4>3 DEF DeleteGet, Get
        <4>4. QED
          BY <3>2, <4>1, <4>2, <4>3
      <3>3. CASE AddPing(c) \/ CancelPut(c) \/ DeleteStore(c)
        BY <3>3 DEF AddPing, CancelPut, DeleteStore, Reply, IdleCall
      <3>4. CASE DownStop(c) \/ DownRemove(c) \/ DownFail(c)
        BY <3>4, DownKeepsTasks
      <3>5. QED
        BY <1>4, <3>1, <3>2, <3>3, <3>4 DEF ClientStart, ClientStep
    <2>2. \A d \in Client \ {c} : call'[d] = call[d]
      BY <1>4, DownKeepsTasks
      DEF ClientStart, ClientStep, Flush, Add, CancelGet, DeleteGet, Get, AddPing, CancelPut,
          DeleteStore, Reply
    <2>3. QED
      BY <1>4, <2>1, <2>2, ClientsFrame
  <1>5. CASE Tick
    <2>1. \A c \in Client : call'[c].pc = call[c].pc /\ call'[c].copy.status = call[c].copy.status
      BY <1>5, LaterType DEF Tick, CallState
    <2>2. QED
      BY <1>5, <2>1 DEF Tick, loopVars
  <1>6. CASE TimerFire \/ UNCHANGED vars \/ \E t \in Task : ContainerExit(t)
    BY <1>6 DEF TimerFire, vars, ContainerExit, loopVars, clientVars
  <1>7. QED
    BY <1>1, <1>2, <1>3, <1>4, <1>5, <1>6 DEF Next

(* A task that becomes Running has its watcher; a watcher ends by a Put of a    *)
(* status that is not Running.                                                 *)
LEMMA StepWatched ==
  ASSUME TypeOK, Known, Starting, Watched, [Next]_vars
  PROVE  Watched'
  <1> USE DEF Watched, TypeOK
  <1>0. SUFFICES ASSUME NEW t \in Task, store'[t].status = "Running"
                 PROVE  \E w \in Slot : Watches(w, t)'
    OBVIOUS
  <1>1. CASE LoopStep
    <2>1. store[t].status = "Running"
      BY <1>0, <1>1
      DEF LoopStep, LoopWake, LoopPick, LoopNothing, LoopSleep, ExecPutError, LoopPing, Put, Record
    <2>2. QED
      BY <1>1, <2>1, LoopFrame DEF Watches
  <1>2. ASSUME NEW w \in Slot, ExecStep(w) PROVE \E v \in Slot : Watches(v, t)'
    <2>1. CASE ExecConsume(w) \/ ExecUp(w) \/ ExecUpFail(w)
      <3>1. PICK v \in Slot : Watches(v, t)
        BY <1>0, <2>1 DEF ExecConsume, ExecUp, ExecUpFail
      <3>2. v # w
        BY <2>1, <3>1 DEF ExecConsume, ExecUp, ExecUpFail, Watches
      <3>3. slot'[v] = slot[v]
        BY <2>1, <3>2 DEF ExecConsume, ExecUp, ExecUpFail, Move
      <3>4. QED
        BY <3>1, <3>3 DEF Watches
    <2>2. CASE ExecPutRunning(w)
      <3>1. slot'[w].pc = "wait" /\ slot'[w].task = slot[w].task
            /\ \A v \in Slot \ {w} : slot'[v] = slot[v]
        BY <2>2, MoveType DEF ExecPutRunning, SlotPc, Results
      <3>2. CASE t = chosen.task
        BY <2>2, <3>1, <3>2 DEF ExecPutRunning, Starting, Watches
      <3>3. CASE t # chosen.task
        <4>1. store[t].status = "Running"
          BY <1>0, <2>2, <3>3 DEF ExecPutRunning, Put
        <4>2. PICK v \in Slot : Watches(v, t)
          BY <4>1
        <4>3. v # w
          BY <2>2, <4>2 DEF ExecPutRunning, Watches
        <4>4. QED
          BY <3>1, <4>2, <4>3 DEF Watches
      <3>4. QED
        BY <3>2, <3>3
    <2>3. QED
      BY <1>2, <2>1, <2>2 DEF ExecStep
  <1>3. ASSUME NEW w \in Slot, WatchStep(w) PROVE \E v \in Slot : Watches(v, t)'
    <2>1. CASE WatchPut(w)
      <3>1. slot[w].task \in Task /\ slot[w].result \in Results
        BY <2>1 DEF WatchPut, Known, SlotState
      <3>2. slot[w].task # t /\ store[t].status = "Running"
        BY <1>0, <2>1, <3>1, AfterRunType DEF WatchPut, Put
      <3>3. PICK v \in Slot : Watches(v, t)
        BY <3>2
      <3>4. v # w
        BY <3>2, <3>3 DEF Watches
      <3>5. QED
        BY <1>3, <3>3, <3>4, WatchMoves DEF Watches
    <2>2. CASE ~WatchPut(w)
      <3>1. PICK v \in Slot : Watches(v, t)
        BY <1>0, <1>3, <2>2, WatchMoves
      <3>2. Watches(v, t)'
        BY <1>3, <2>2, <3>1, WatchMoves DEF Watches
      <3>3. QED
        BY <3>2
    <2>3. QED
      BY <2>1, <2>2
  <1>4. ASSUME NEW c \in Client, ClientStart(c) \/ ClientStep(c)
        PROVE  \E w \in Slot : Watches(w, t)'
    <2>1. store[t].status = "Running"
      <3>1. CASE CancelPut(c)
        BY <1>0, <3>1 DEF CancelPut, Put, Starting
      <3>2. CASE DeleteStore(c) \/ Flush(c)
        BY <1>0, <3>2 DEF DeleteStore, Flush, Put, Absent, Record
      <3>3. ASSUME NEW u \in Task, Add(c, u) PROVE store[t].status = "Running"
        BY <1>0, <3>3 DEF Add, Put, Record
      <3>4. ASSUME store' = store PROVE store[t].status = "Running"
        BY <1>0, <3>4
      <3>5. QED
        BY <1>4, <3>1, <3>2, <3>3, <3>4
        DEF ClientStart, ClientStep, CancelGet, DeleteGet, AddPing, DownStop, DownRemove, DownFail
    <2>2. QED
      BY <1>4, <2>1, ClientsFrame DEF Watches
  <1>5. CASE Tick
    BY <1>0, <1>5, LaterType DEF Tick, Watches
  <1>6. CASE TimerFire \/ UNCHANGED vars \/ \E u \in Task : ContainerExit(u)
    BY <1>0, <1>6 DEF TimerFire, vars, ContainerExit, Watches
  <1>7. QED
    BY <1>1, <1>2, <1>3, <1>4, <1>5, <1>6 DEF Next

(* One run at a time for a task nobody canceled or deleted.  *)
LEMMA StepSole ==
  ASSUME TypeOK, Known, Starting, Sole, [Next]_vars
  PROVE  Sole'
  <1> USE DEF TypeOK
  <1> DEFINE SoleAt(t) == /\ \A v, w \in Slot : Watches(v, t) /\ Watches(w, t) => v = w
                          /\ \A w \in Slot : Watches(w, t) => store[t].status = "Running"
                          /\ chosen.task = t => store[t].status = "Waiting"
  <1>0. SUFFICES ASSUME NEW t \in Task, ~Touched(t)', SoleAt(t)
                 PROVE  SoleAt(t)'
    BY TouchedStays DEF Sole
  <1>1. CASE LoopStep
    <2>0. \A w \in Slot : Watches(w, t)' <=> Watches(w, t)
      BY <1>1, LoopFrame DEF Watches
    <2>1. CASE LoopPick
      BY <2>0, <2>1, <1>0 DEF LoopPick, Ready, Waiting
    <2>2. CASE ExecPutError
      <3>1. chosen'.task = NoTask /\ t # NoTask
        BY <2>2 DEF ExecPutError, NoChoice
      <3>2. CASE chosen.task = t
        BY <2>0, <3>1, <3>2, <1>0
      <3>3. CASE chosen.task # t
        BY <2>0, <2>2, <3>1, <3>3, <1>0 DEF ExecPutError, Put
      <3>4. QED
        BY <3>2, <3>3
    <2>3. CASE LoopWake \/ LoopNothing \/ LoopSleep \/ LoopPing
      BY <2>0, <2>3, <1>0 DEF LoopWake, LoopNothing, LoopSleep, LoopPing
    <2>4. QED
      BY <1>1, <2>1, <2>2, <2>3 DEF LoopStep
  <1>2. ASSUME NEW w \in Slot, ExecStep(w) PROVE SoleAt(t)'
    <2>1. CASE ExecConsume(w) \/ ExecUp(w) \/ ExecUpFail(w)
      <3>1. store' = store /\ chosen' = chosen
        BY <2>1 DEF ExecConsume, ExecUp, ExecUpFail
      <3>2. slot[w].pc \in {"free", "up"} /\ slot'[w].pc \in {"up", "put", "release"}
        <4>1. CASE ExecConsume(w)
          BY <4>1 DEF ExecConsume, FreeSlot
        <4>2. CASE ExecUp(w) \/ ExecUpFail(w)
          BY <4>2, MoveType DEF ExecUp, ExecUpFail, SlotPc, Results
        <4>3. QED
          BY <2>1, <4>1, <4>2
      <3>3. \A v \in Slot \ {w} : slot'[v] = slot[v]
        BY <2>1 DEF ExecConsume, ExecUp, ExecUpFail, Move
      <3>4. \A v \in Slot : Watches(v, t)' <=> Watches(v, t)
        BY <3>2, <3>3 DEF Watches
      <3>5. QED
        BY <1>0, <3>1, <3>4
    <2>2. CASE ExecPutRunning(w)
      <3>1. slot'[w].pc = "wait" /\ slot'[w].task = slot[w].task
            /\ \A v \in Slot \ {w} : slot'[v] = slot[v]
        BY <2>2, MoveType DEF ExecPutRunning, SlotPc, Results
      <3>2. chosen'.task = NoTask /\ t # NoTask /\ slot[w].task = chosen.task
        BY <2>2 DEF ExecPutRunning, NoChoice, Starting
      <3>3. CASE chosen.task = t
        <4>1. \A v \in Slot : ~Watches(v, t)
          BY <1>0, <3>3
        <4>2. \A v \in Slot : Watches(v, t)' => v = w
          BY <3>1, <4>1 DEF Watches
        <4>3. store'[t].status = "Running"
          BY <2>2, <3>3 DEF ExecPutRunning, Put, Record
        <4>4. QED
          BY <3>2, <4>2, <4>3
      <3>4. CASE chosen.task # t
        <4>1. \A v \in Slot : Watches(v, t)' <=> Watches(v, t)
          BY <2>2, <3>1, <3>2, <3>4 DEF Watches
        <4>2. store'[t] = store[t]
          BY <2>2, <3>4 DEF ExecPutRunning, Put
        <4>3. QED
          BY <1>0, <3>2, <4>1, <4>2
      <3>5. QED
        BY <3>3, <3>4
    <2>3. QED
      BY <1>2, <2>1, <2>2 DEF ExecStep
  <1>3. ASSUME NEW w \in Slot, WatchStep(w) PROVE SoleAt(t)'
    <2>1. chosen' = chosen
      BY <1>3, WatchFrame
    <2>2. CASE WatchPut(w)
      <3>1. CASE slot[w].task = t
        <4>1. Watches(w, t)
          BY <2>2, <3>1 DEF WatchPut, Watches
        <4>2. \A v \in Slot : ~Watches(v, t)'
          BY <1>0, <1>3, <2>2, <4>1, WatchMoves DEF Watches
        <4>3. chosen.task # t
          BY <1>0, <4>1
        <4>4. QED
          BY <2>1, <4>2, <4>3
      <3>2. CASE slot[w].task # t
        <4>1. store'[t] = store[t]
          BY <2>2, <3>2 DEF WatchPut, Put
        <4>2. \A v \in Slot : Watches(v, t)' <=> Watches(v, t)
          BY <1>3, <2>2, <3>2, WatchMoves DEF Watches
        <4>3. QED
          BY <1>0, <2>1, <4>1, <4>2
      <3>3. QED
        BY <3>1, <3>2
    <2>3. CASE ~WatchPut(w)
      <3>1. \A v \in Slot : Watches(v, t)' <=> Watches(v, t)
        BY <1>3, <2>3, WatchMoves DEF Watches
      <3>2. store' = store
        BY <1>3, <2>3, WatchMoves
      <3>3. QED
        BY <1>0, <2>1, <3>1, <3>2
    <2>4. QED
      BY <2>2, <2>3
  <1>4. ASSUME NEW c \in Client, ClientStart(c) \/ ClientStep(c) PROVE SoleAt(t)'
    <2>1. chosen' = chosen /\ \A w \in Slot : Watches(w, t)' <=> Watches(w, t)
      BY <1>4, ClientsFrame DEF Watches
    <2>2. CASE store'[t] = store[t]
      BY <1>0, <2>1, <2>2
    <2>3. CASE store'[t] # store[t]
      <3>1. Add(c, t)
        <4>1. ~(CancelPut(c) \/ DeleteStore(c) \/ Flush(c))
          BY <1>0, <2>3 DEF CancelPut, DeleteStore, Flush, Put, Touched
        <4>2. \A u \in Task \ {t} : ~Add(c, u)
          BY <2>3 DEF Add, Put
        <4>3. QED
          BY <1>4, <2>3, <4>1, <4>2
          DEF ClientStart, ClientStep, CancelGet, DeleteGet, AddPing, DownStop, DownRemove, DownFail
      <3>2. t \notin added
        BY <3>1 DEF Add
      <3>3. chosen.task # t /\ \A w \in Slot : ~Watches(w, t)
        BY <3>2 DEF Known, Watches
      <3>4. QED
        BY <2>1, <3>3
    <2>4. QED
      BY <2>2, <2>3
  <1>5. CASE Tick
    BY <1>0, <1>5, LaterType DEF Tick, Watches, loopVars
  <1>6. CASE TimerFire \/ UNCHANGED vars \/ \E u \in Task : ContainerExit(u)
    BY <1>0, <1>6 DEF TimerFire, vars, ContainerExit, Watches, loopVars
  <1>7. QED
    BY <1>1, <1>2, <1>3, <1>4, <1>5, <1>6 DEF Next

IInv == TypeOK /\ Known /\ Capacity /\ Starting /\ Watched /\ Sole

(* The inductive invariant holds.  *)
LEMMA Inductive == Spec => []IInv
  <1>1. Init => IInv
    <2> SUFFICES ASSUME Init PROVE IInv
      OBVIOUS
    <2>1. /\ \A t \in Task : store[t] = Absent
          /\ \A w \in Slot : slot[w] = FreeSlot
          /\ \A c \in Client : call[c] = IdleCall
          /\ chosen = NoChoice /\ loop = "idle" /\ added = {}
          /\ cpu = TotalCpu /\ ram = TotalRam
      BY DEF Init
    <2>2. Known /\ Capacity /\ Starting
      BY <2>1 DEF Known, Capacity, Starting, Stored, Absent, Record, FreeSlot, IdleCall, NoChoice
    <2>3. Watched /\ Sole
      BY <2>1 DEF Watched, Sole, Watches, Absent, Record, FreeSlot, NoChoice
    <2>4. QED
      BY <2>2, <2>3, InitTypes DEF IInv
  <1>2. IInv /\ [Next]_vars => IInv'
    BY StepTypes, StepKnown, StepCapacity, StepStarting, StepWatched, StepSole DEF IInv
  <1>3. QED
    BY <1>1, <1>2, PTL DEF Spec

(* The variables keep their types.  *)
THEOREM TypeCorrectness == Spec => []TypeOK
  <1>1. IInv => TypeOK
    BY DEF IInv
  <1>2. QED
    BY <1>1, Inductive, PTL

(* The machine is never overcommitted, whatever is canceled, deleted or fails.  *)
THEOREM NeverOvercommitted == Spec => []NoOvercommit
  <1>1. IInv => NoOvercommit
    BY DEF IInv, Capacity, NoOvercommit
  <1>2. QED
    BY <1>1, Inductive, PTL

(* A stored Running has a watcher that will replace it, and a watched task       *)
(* nobody touched is stored as Running.                                          *)
THEOREM RunningTasksAreWatched == Spec => []RunningIsWatched
  <1>1. IInv => RunningIsWatched
    BY DEF IInv, Watched, Sole, RunningIsWatched, Watching
  <1>2. QED
    BY <1>1, Inductive, PTL

(* Two runs of a task never overlap unless it was canceled or deleted.  *)
THEOREM RunsDoNotOverlap == Spec => []OneRunPerTask
  <1>1. IInv => OneRunPerTask
    <2> SUFFICES ASSUME IInv, NEW t \in Task, ~Touched(t),
                        NEW v \in Executing(t), NEW w \in Executing(t)
                 PROVE  v = w
      BY DEF OneRunPerTask
    <2>1. CASE Watches(v, t) /\ Watches(w, t)
      BY <2>1 DEF IInv, Sole, Executing, Watching
    <2>2. CASE ~Watches(v, t) /\ ~Watches(w, t)
      BY <2>2 DEF IInv, Starting, Executing, Watching
    <2>3. CASE ~(Watches(v, t) <=> Watches(w, t))
      <3>1. chosen.task = t
        BY <2>3 DEF IInv, Starting, Executing, Watching
      <3>2. store[t].status = "Waiting" /\ store[t].status = "Running"
        BY <2>3, <3>1 DEF IInv, Sole, Executing, Watching
      <3>3. QED
        BY <3>2
    <2>4. QED
      BY <2>1, <2>2, <2>3
  <1>2. QED
    BY <1>1, Inductive, PTL

(* No step of the loop, of a watcher or of time changes the status of a finished *)
(* task nobody touched.                                                         *)
LEMMA StepFinal ==
  ASSUME TypeOK, Known, Sole, [Next]_vars,
         NEW t \in Task, store[t].status \in Final, ~Touched(t)
  PROVE  store'[t].status \in {store[t].status, "Absent"}
  <1> USE DEF TypeOK, Final
  <1>0. chosen.task # t /\ \A w \in Slot : ~Watches(w, t)
    BY DEF Sole
  <1>1. CASE LoopStep
    BY <1>0, <1>1
    DEF LoopStep, LoopWake, LoopPick, LoopNothing, LoopSleep, ExecPutError, LoopPing, Put
  <1>2. ASSUME NEW w \in Slot, ExecStep(w) PROVE store'[t] = store[t]
    BY <1>0, <1>2 DEF ExecStep, ExecConsume, ExecUp, ExecUpFail, ExecPutRunning, Put
  <1>3. ASSUME NEW w \in Slot, WatchStep(w) PROVE store'[t] = store[t]
    <2>1. CASE WatchPut(w)
      <3>1. slot[w].task # t
        BY <1>0, <2>1 DEF WatchPut, Watches
      <3>2. QED
        BY <2>1, <3>1 DEF WatchPut, Put
    <2>2. CASE ~WatchPut(w)
      BY <1>3, <2>2, WatchMoves
    <2>3. QED
      BY <2>1, <2>2
  <1>4. ASSUME NEW c \in Client, ClientStart(c) \/ ClientStep(c)
        PROVE  store'[t] = store[t] \/ store'[t] = Absent
    <2>1. CASE CancelPut(c) \/ DeleteStore(c)
      <3>1. call[c].task # t
        BY DEF Touched
      <3>2. QED
        BY <2>1, <3>1 DEF CancelPut, DeleteStore, Put
    <2>2. CASE Flush(c)
      BY <2>2 DEF Flush
    <2>3. ASSUME NEW u \in Task, Add(c, u) PROVE store'[t] = store[t]
      <3>1. u # t
        BY <2>3 DEF Add, Known, Stored
      <3>2. QED
        BY <2>3, <3>1 DEF Add, Put
    <2>4. ASSUME store' = store PROVE store'[t] = store[t]
      BY <2>4
    <2>5. QED
      BY <1>4, <2>1, <2>2, <2>3, <2>4
      DEF ClientStart, ClientStep, CancelGet, DeleteGet, AddPing, DownStop, DownRemove, DownFail
  <1>5. CASE Tick
    BY <1>5, LaterType DEF Tick
  <1>6. CASE TimerFire \/ UNCHANGED vars \/ \E u \in Task : ContainerExit(u)
    BY <1>6 DEF TimerFire, vars, ContainerExit
  <1>7. QED
    BY <1>1, <1>2, <1>3, <1>4, <1>5, <1>6 DEF Next, Absent, Record

(* The end of a task stays what it was, until a request touches the task.  *)
THEOREM TheEndIsFinal == Spec => FinalIsFinal
  <1>1. IInv /\ [Next]_vars =>
          [\A t \in Task : store[t].status \in Final /\ ~Touched(t)
                          => store'[t].status \in {store[t].status, "Absent"}]_vars
    BY StepFinal DEF IInv
  <1>2. QED
    BY <1>1, Inductive, PTL DEF Spec, FinalIsFinal
==============================================================================
