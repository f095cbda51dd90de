----------------------------- MODULE RunProofs -----------------------------
(* What a run leaves behind it: the status it stores says how its container   *)
(* ended, no container outlives its watcher, and whoever waits is woken.      *)
EXTENDS SchedulerProofs

USE TaskAssumption, BoundAssumption

(* What a watcher knows of the container of a task nobody touched, at each     *)
(* point of Wait: the container it waits for runs or has ended by itself, the  *)
(* one it inspects has ended, and the status it is about to store tells how.    *)
Tells(w, t) ==
  /\ slot[w].pc \in {"put", "wait", "kill"} => ct[t] \in {"running"} \cup Exits
  /\ slot[w].pc = "wait" => slot[w].result = "Waiting"
  /\ slot[w].pc = "kill" => slot[w].result \in {"Timeout", "Error"}
  /\ slot[w].pc = "inspect" => /\ ct[t] # "running"
                               /\ slot[w].result \in {"Waiting", "Timeout", "Error"}
                               /\ slot[w].result = "Waiting" => ct[t] \in Exits
  /\ slot[w].pc = "save" => /\ slot[w].result = "Done" => ct[t] = "exited0"
                            /\ slot[w].result = "Timeout" => ct[t] = "exitedN"
                            /\ slot[w].result = "Waiting" => "exitedN" \in Exits

Told == /\ \A t \in Task : ~Touched(t) =>
              \A w \in Slot : slot[w].task = t => Tells(w, t)
        /\ StatusTellsTheEnd

-----------------------------------------------------------------------------
(* While the loop sleeps, a waiting task has a wake-up to come.                 *)
LEMMA StepNoLostWakeup ==
  ASSUME TypeOK, Known, NoLostWakeup, [Next]_vars
  PROVE  NoLostWakeup'
<1>. USE DEF TypeOK
<1>. DEFINE Awaited(t) == \/ Touched(t)
                          \/ \E d \in timers : d <= store[t].start
                          \/ \E c \in Client : call[c].pc = "addPing"
                          \/ \E w \in Slot : slot[w].pc = "ping"
<1>0. SUFFICES ASSUME loop' = "idle", ~newMsg', NEW t \in Task,
                      store'[t].status = "Waiting", ~Touched(t)'
               PROVE  Awaited(t)'
  BY DEF NoLostWakeup, Waiting
<1>1. ~Touched(t)
  BY <1>0, TouchedStays
<1>2. ASSUME loop = "idle", ~newMsg, store[t].status = "Waiting"
      PROVE  \/ \E d \in timers : d <= store[t].start
             \/ \E c \in Client : call[c].pc = "addPing"
             \/ \E w \in Slot : slot[w].pc = "ping"
  BY <1>1, <1>2 DEF NoLostWakeup, Waiting
<1>3. CASE LoopStep
  <2>1. CASE LoopSleep
    BY <1>0, <2>1 DEF LoopSleep, Waiting, Recorded
  <2>2. CASE ~LoopSleep
    BY <1>0, <1>3, <2>2
    DEF LoopStep, LoopWake, LoopPick, LoopNothing, ExecPutError, LoopPing, Ping
  <2>3. QED
    BY <2>1, <2>2
<1>4. ASSUME NEW w \in Slot, ExecStep(w) PROVE Awaited(t)'
  BY <1>0, <1>4 DEF ExecStep, ExecConsume, ExecUp, ExecUpFail, ExecPutRunning
<1>5. ASSUME NEW w \in Slot, WatchStep(w) PROVE Awaited(t)'
  <2>1. CASE WatchPut(w)
    <3>1. slot'[w].pc = "ping"
      BY <2>1, MoveType DEF WatchPut, SlotPc, Results
    <3>2. QED
      BY <3>1
  <2>2. CASE ~WatchPut(w)
    <3>1. /\ store' = store /\ loop' = loop /\ timers' = timers /\ call' = call
          /\ \A v \in Slot \ {w} : slot'[v] = slot[v]
      BY <1>5, <2>2, WatchMoves, WatchFrame
    <3>2. ~newMsg /\ slot[w].pc # "ping"
      BY <1>0, <1>5, <2>2
      DEF WatchStep, WaitExit, WaitDeadline, WaitError, Kill, KillFail, Inspect, InspectFail,
          WatchPing, Release, Ping
    <3>3. QED
      BY <1>0, <1>2, <3>1, <3>2
  <2>3. QED
    BY <2>1, <2>2
<1>6. ASSUME NEW c \in Client, ClientStart(c) \/ ClientStep(c) PROVE Awaited(t)'
  <2>1. loop' = loop /\ timers' = timers /\ slot' = slot
    BY <1>6, ClientsFrame
  <2>2. ASSUME NEW u \in Task, Add(c, u) PROVE Awaited(t)'
    BY <2>2 DEF Add
  <2>3. ~AddPing(c)
    BY <1>0 DEF AddPing, Ping
  <2>4. ASSUME store'[t] = store[t], newMsg' = newMsg, call[c].pc # "addPing",
               \A d \in Client \ {c} : call'[d] = call[d]
        PROVE  Awaited(t)'
    BY <1>0, <1>2, <2>1, <2>4
  <2>5. CASE CancelPut(c) \/ DeleteStore(c)
    <3>1. call[c].task # t
      BY <1>1 DEF Touched
    <3>2. QED
      BY <2>4, <2>5, <3>1 DEF CancelPut, DeleteStore, Put, Reply
  <2>6. CASE Flush(c)
    <3>1. store'[t] = store[t]
      BY <1>0, <2>6 DEF Flush, Touched
    <3>2. QED
      BY <2>4, <2>6, <3>1 DEF Flush
  <2>7. ASSUME NEW u \in Task, CancelGet(c, u) \/ DeleteGet(c, u) PROVE Awaited(t)'
    BY <2>4, <2>7 DEF CancelGet, DeleteGet, Get
  <2>8. CASE DownStop(c) \/ DownRemove(c) \/ DownFail(c)
    <3>1. store' = store /\ newMsg' = newMsg
      BY <2>8 DEF DownStop, DownRemove, DownFail
    <3>2. QED
      BY <2>4, <2>8, <3>1, DownKeepsTasks
  <2>9. QED
    BY <1>6, <2>2, <2>3, <2>5, <2>6, <2>7, <2>8 DEF ClientStart, ClientStep
<1>7. ASSUME NEW u \in Task, ContainerExit(u) PROVE Awaited(t)'
  BY <1>0, <1>2, <1>7 DEF ContainerExit, loopVars, clientVars
<1>8. CASE Tick
  <2>1. loop = "idle" /\ ~newMsg /\ store[t].status = "Waiting"
    BY <1>0, <1>8, LaterType DEF Tick, loopVars
  <2>2. \A c \in Client : call'[c].pc = call[c].pc
    BY <1>8 DEF Tick, CallState
  <2>3. ASSUME NEW d \in timers, d <= store[t].start
        PROVE  \E e \in timers' : e <= store'[t].start
    <3>1. Pred(d) \in timers' /\ store'[t].start = Pred(store[t].start)
      BY <1>8 DEF Tick, Later, Recorded
    <3>2. d \in Nat /\ store[t].start \in Nat
      BY DEF Recorded, Horizon
    <3>3. Pred(d) <= Pred(store[t].start)
      BY <2>3, <3>2 DEF Pred
    <3>4. QED
      BY <3>1, <3>3
  <2>4. QED
    BY <1>2, <1>8, <2>1, <2>2, <2>3 DEF Tick
<1>9. CASE TimerFire
  BY <1>0, <1>9 DEF TimerFire, Ping
<1>10. CASE UNCHANGED vars
  BY <1>0, <1>2, <1>10 DEF vars, loopVars, clientVars
<1>11. QED
  BY <1>3, <1>4, <1>5, <1>6, <1>7, <1>8, <1>9, <1>10 DEF Next

(* No wake-up is lost: the loop never goes to sleep, and never sleeps on, with   *)
(* a waiting task for which neither a timer nor a Ping is to come.               *)
THEOREM NoWakeupIsLost == Spec => []NoLostWakeup
<1>1. Init => NoLostWakeup
  BY DEF Init, NoLostWakeup, Waiting, Absent, Record
<1>2. TypeOK /\ Known /\ NoLostWakeup /\ [Next]_vars => NoLostWakeup'
  BY StepNoLostWakeup
<1>3. IInv => TypeOK /\ Known
  BY DEF IInv
<1>4. QED
  BY <1>1, <1>2, <1>3, Inductive, PTL DEF Spec

-----------------------------------------------------------------------------
-----------------------------------------------------------------------------
(* A container that runs has its watcher, as long as docker does what it is     *)
(* asked.                                                                      *)
LEMMA StepContainers ==
  ASSUME DockerFails = FALSE, TypeOK, Starting, ContainersAreAccounted, [Next]_vars
  PROVE  ContainersAreAccounted'
<1>. USE DEF TypeOK
<1>. DEFINE Held3(w, t) == slot[w].task = t /\ slot[w].pc \in {"put", "wait", "kill"}
<1>0. SUFFICES ASSUME NEW t \in Task, ct'[t] = "running"
               PROVE  \E w \in Slot : Held3(w, t)'
  BY DEF ContainersAreAccounted
<1>1. ct[t] = "running" => \E w \in Slot : Held3(w, t)
  BY DEF ContainersAreAccounted
<1>2. CASE UNCHANGED slot /\ ct[t] = "running"
  BY <1>1, <1>2
<1>3. ASSUME NEW w \in Slot, ExecStep(w) PROVE \E v \in Slot : Held3(v, t)'
  <2>1. CASE ExecConsume(w)
    BY <1>0, <1>1, <2>1 DEF ExecConsume
  <2>2. CASE ExecUp(w)
    <3>1. /\ slot'[w].pc = "put" /\ slot'[w].task = chosen.task
          /\ \A v \in Slot \ {w} : slot'[v] = slot[v]
      BY <2>2, MoveType DEF ExecUp, Starting, SlotPc, Results
    <3>2. slot[w].pc = "up"
      BY <2>2 DEF ExecUp
    <3>3. t # chosen.task => ct'[t] = ct[t]
      BY <2>2 DEF ExecUp
    <3>4. QED
      BY <1>0, <1>1, <3>1, <3>2, <3>3
  <2>3. CASE ExecPutRunning(w)
    <3>1. /\ slot'[w].pc = "wait" /\ slot'[w].task = slot[w].task
          /\ \A v \in Slot \ {w} : slot'[v] = slot[v]
      BY <2>3, MoveType DEF ExecPutRunning, SlotPc, Results
    <3>2. QED
      BY <1>0, <1>1, <2>3, <3>1 DEF ExecPutRunning
  <2>4. QED
    BY <1>3, <2>1, <2>2, <2>3 DEF ExecStep, ExecUpFail
<1>4. ASSUME NEW w \in Slot, WatchStep(w) PROVE \E v \in Slot : Held3(v, t)'
  <2>1. ct[t] = "running"
    BY <1>0, <1>4 DEF WatchStep, WaitExit, WaitDeadline, WaitError, Kill, KillFail, Inspect,
                      InspectFail, WatchPut, WatchPing, Release
  <2>2. PICK v \in Slot : Held3(v, t)
    BY <1>1, <2>1
  <2>3. CASE v # w
    BY <1>4, <2>2, <2>3, WatchMoves
  <2>4. CASE v = w /\ WaitDeadline(w)
    <3>1. slot'[w].pc = "kill" /\ slot'[w].task = slot[w].task
      BY <2>4, MoveType DEF WaitDeadline, SlotPc, Results
    <3>2. QED
      BY <2>2, <2>4, <3>1
  <2>5. CASE v = w /\ ~WaitDeadline(w)
    BY <1>0, <1>4, <2>1, <2>2, <2>5
    DEF WatchStep, WaitExit, WaitError, Kill, KillFail, Inspect, InspectFail, WatchPut,
        WatchPing, Release
  <2>6. QED
    BY <2>3, <2>4, <2>5
<1>5. ASSUME NEW c \in Client, ClientStart(c) \/ ClientStep(c) PROVE UNCHANGED slot /\ ct[t] = "running"
  BY <1>0, <1>5, ClientsFrame
  DEF ClientStart, ClientStep, Add, AddPing, CancelGet, DeleteGet, DownStop, DownRemove,
      DownFail, CancelPut, DeleteStore, Flush
<1>6. ASSUME NEW u \in Task, ContainerExit(u) PROVE UNCHANGED slot /\ ct[t] = "running"
  BY <1>0, <1>6 DEF ContainerExit
<1>7. CASE LoopStep
  BY <1>0, <1>2, <1>7, LoopFrame
<1>8. CASE Tick \/ TimerFire \/ UNCHANGED vars
  BY <1>0, <1>2, <1>8 DEF Tick, TimerFire, vars
<1>9. QED
  BY <1>2, <1>3, <1>4, <1>5, <1>6, <1>7, <1>8 DEF Next

(* Whatever is canceled, deleted or times out, a container that runs is one that *)
(* a goroutine holding its resources waits for; docker must not fail, since     *)
(* execTask drops the run of an Up that fails and Wait one whose Kill fails.     *)
THEOREM NoContainerIsForgotten ==
  ASSUME DockerFails = FALSE
  PROVE  Spec => []ContainersAreAccounted
<1>1. Init => ContainersAreAccounted
  BY DEF Init, ContainersAreAccounted
<1>2. TypeOK /\ Starting /\ ContainersAreAccounted /\ [Next]_vars => ContainersAreAccounted'
  BY StepContainers
<1>3. IInv => TypeOK /\ Starting
  BY DEF IInv
<1>4. QED
  BY <1>1, <1>2, <1>3, Inductive, PTL DEF Spec

-----------------------------------------------------------------------------
(* What a step of a watcher does to what it knows.                              *)
LEMMA WatcherTells ==
  ASSUME TypeOK, NEW t \in Task, NEW w \in Slot, WatchStep(w), slot[w].task = t, Tells(w, t)
  PROVE  slot'[w].task = t => Tells(w, t)'
<1>. USE DEF TypeOK, Tells
<1>0. slot[w].result \in Results /\ ct[t] \in CtState
  BY DEF SlotState
<1>1. ASSUME NEW pc \in SlotPc, NEW result \in Results, Move(w, pc, result)
      PROVE  slot'[w].pc = pc /\ slot'[w].result = result /\ slot'[w].task = t
  BY <1>1 DEF Move, SlotState
<1>2. CASE WaitExit(w)
  <2>1. slot'[w].pc = "inspect" /\ slot'[w].result = "Waiting"
    BY <1>1, <1>2 DEF WaitExit, SlotPc, Results
  <2>2. slot[w].pc = "wait" /\ ct[t] # "running" /\ ct' = ct
    BY <1>2 DEF WaitExit
  <2>3. QED
    BY <2>1, <2>2
<1>3. CASE WaitDeadline(w) \/ WaitError(w)
  <2>1. slot'[w].pc = "kill" /\ slot'[w].result \in {"Timeout", "Error"}
    BY <1>1, <1>3 DEF WaitDeadline, WaitError, SlotPc, Results
  <2>2. slot[w].pc = "wait" /\ ct' = ct
    BY <1>3 DEF WaitDeadline, WaitError
  <2>3. QED
    BY <2>1, <2>2
<1>4. CASE Kill(w)
  <2>1. slot'[w].pc = "inspect" /\ slot'[w].result = slot[w].result
    BY <1>0, <1>1, <1>4 DEF Kill, SlotPc
  <2>2. slot[w].pc = "kill" /\ ct'[t] = "exitedN"
    BY <1>4 DEF Kill
  <2>3. QED
    BY <2>1, <2>2
<1>5. CASE Inspect(w)
  <2>1. slot'[w].pc = "save"
        /\ slot'[w].result = IF ct[t] = "exited0" THEN "Done" ELSE slot[w].result
    BY <1>0, <1>1, <1>5 DEF Inspect, SlotPc, Results
  <2>2. slot[w].pc = "inspect" /\ ct' = ct /\ ct[t] # "none"
    BY <1>5 DEF Inspect
  <2>3. QED
    BY <1>0, <2>1, <2>2 DEF CtState
<1>6. CASE KillFail(w) \/ InspectFail(w)
  <2>1. slot'[w].pc = "save" /\ slot'[w].result = "Error"
    BY <1>1, <1>6 DEF KillFail, InspectFail, SlotPc, Results
  <2>2. QED
    BY <2>1
<1>7. CASE WatchPut(w) \/ WatchPing(w)
  <2>1. slot'[w].pc \in {"ping", "release"}
    BY <1>1, <1>7 DEF WatchPut, WatchPing, SlotPc, Results
  <2>2. QED
    BY <2>1
<1>8. CASE Release(w)
  BY <1>8 DEF Release, FreeSlot
<1>9. QED
  BY <1>2, <1>3, <1>4, <1>5, <1>6, <1>7, <1>8 DEF WatchStep

(* What the store says of a one-shot task.                                      *)
EndIsTold(t) == Recurrence[t] = "once" => /\ store[t].status = "Done" => ct[t] = "exited0"
                                          /\ store[t].status = "Timeout" => ct[t] = "exitedN"

(* The watchers and the store know the end of every task nobody touched.         *)
LEMMA StepTold ==
  ASSUME TypeOK, Known, Starting, Sole, Told, [Next]_vars
  PROVE  Told'
<1>. USE DEF TypeOK
<1>. DEFINE TellAll(t) == \A w \in Slot : slot[w].task = t => Tells(w, t)
<1>0. SUFFICES ASSUME NEW t \in Task, ~Touched(t)'
               PROVE  TellAll(t)' /\ EndIsTold(t)'
  BY DEF Told, StatusTellsTheEnd, EndIsTold
<1>1. ~Touched(t)
  BY <1>0, TouchedStays
<1>2. TellAll(t) /\ EndIsTold(t)
  BY <1>1 DEF Told, StatusTellsTheEnd, EndIsTold
<1>3. ASSUME UNCHANGED slot, ct'[t] = ct[t] PROVE TellAll(t)'
  BY <1>2, <1>3 DEF Tells
<1>4. ASSUME ct'[t] = ct[t],
             store'[t].status \in {store[t].status, "Waiting", "Running", "Error", "Absent"}
      PROVE  EndIsTold(t)'
  BY <1>2, <1>4 DEF EndIsTold
<1>5. CASE LoopStep
  <2>1. store'[t].status \in {store[t].status, "Error"}
    BY <1>5
    DEF LoopStep, LoopWake, LoopPick, LoopNothing, LoopSleep, ExecPutError, LoopPing, Put, Record
  <2>2. QED
    BY <1>3, <1>4, <1>5, <2>1, LoopFrame
<1>6. ASSUME NEW w \in Slot, ExecStep(w) PROVE TellAll(t)' /\ EndIsTold(t)'
  <2>1. CASE ExecConsume(w)
    <3>1. slot'[w].pc = "up" /\ \A v \in Slot \ {w} : slot'[v] = slot[v]
      BY <2>1 DEF ExecConsume
    <3>2. ct' = ct /\ store' = store
      BY <2>1 DEF ExecConsume
    <3>3. QED
      BY <1>2, <1>4, <3>1, <3>2 DEF Tells
  <2>2. CASE ExecUp(w) \/ ExecUpFail(w)
    <3>1. /\ slot'[w].pc \in {"put", "release"} /\ slot'[w].task = slot[w].task
          /\ \A v \in Slot \ {w} : slot'[v] = slot[v]
      BY <2>2, MoveType DEF ExecUp, ExecUpFail, SlotPc, Results
    <3>2. /\ slot[w].pc = "up" /\ slot[w].task = chosen.task /\ store' = store
          /\ slot'[w].pc = "put" /\ t = chosen.task => ct'[t] = "running"
      <4>1. slot[w].pc = "up" /\ store' = store
        BY <2>2 DEF ExecUp, ExecUpFail
      <4>2. slot[w].task = chosen.task
        BY <4>1 DEF Starting
      <4>3. CASE ExecUp(w)
        BY <4>1, <4>2, <4>3 DEF ExecUp
      <4>4. CASE ExecUpFail(w)
        <5>1. slot'[w].pc = "release"
          BY <4>4, MoveType DEF ExecUpFail, SlotPc, Results
        <5>2. QED
          BY <4>1, <4>2, <5>1
      <4>5. QED
        BY <2>2, <4>3, <4>4
    <3>3. CASE t = chosen.task
      <4>1. store[t].status = "Waiting"
        BY <1>1, <3>3 DEF Sole
      <4>2. \A v \in Slot \ {w} : slot[v].pc \notin {"up", "put"} /\ ~Watches(v, t)
        BY <1>1, <3>2, <4>1 DEF Starting, Sole
      <4>3. TellAll(t)'
        BY <3>1, <3>2, <3>3, <4>2 DEF Tells, Watches
      <4>4. QED
        BY <3>2, <4>1, <4>3 DEF EndIsTold
    <3>4. CASE t # chosen.task
      <4>1. ct'[t] = ct[t]
        BY <2>2, <3>4 DEF ExecUp, ExecUpFail
      <4>2. QED
        BY <1>2, <1>4, <3>1, <3>2, <3>4, <4>1 DEF Tells
    <3>5. QED
      BY <3>3, <3>4
  <2>3. CASE ExecPutRunning(w)
    <3>1. /\ slot'[w].pc = "wait" /\ slot'[w].result = "Waiting" /\ slot'[w].task = slot[w].task
          /\ \A v \in Slot \ {w} : slot'[v] = slot[v]
      BY <2>3 DEF ExecPutRunning, Move, SlotState
    <3>2. slot[w].pc = "put" /\ ct' = ct /\ store'[t].status \in {store[t].status, "Running"}
      BY <2>3 DEF ExecPutRunning, Put, Record
    <3>3. TellAll(t)'
      BY <1>2, <3>1, <3>2 DEF Tells
    <3>4. QED
      BY <1>4, <3>2, <3>3
  <2>4. QED
    BY <1>6, <2>1, <2>2, <2>3 DEF ExecStep
<1>7. ASSUME NEW w \in Slot, WatchStep(w) PROVE TellAll(t)' /\ EndIsTold(t)'
  <2>1. \A v \in Slot \ {w} : slot'[v] = slot[v]
    BY <1>7, WatchMoves
  <2>2. CASE slot[w].task # t
    <3>1. ct'[t] = ct[t] /\ store'[t] = store[t] /\ slot'[w].task # t
      <4>1. ct'[t] = ct[t] /\ store'[t] = store[t]
        BY <1>7, <2>2 DEF WatchStep, WaitExit, WaitDeadline, WaitError, Kill, KillFail, Inspect,
                          InspectFail, WatchPut, WatchPing, Release, Put
      <4>2. CASE Release(w)
        <5>1. slot'[w].task = NoTask
          BY <4>2 DEF Release, FreeSlot
        <5>2. QED
          BY <4>1, <5>1
      <4>3. CASE ~Release(w)
        <5>1. slot[w].result \in Results
          BY DEF SlotState
        <5>2. PICK pc \in SlotPc, result \in Results : Move(w, pc, result)
          BY <1>7, <4>3, <5>1 DEF WatchStep, WaitExit, WaitDeadline, WaitError, Kill, KillFail,
                                  Inspect, InspectFail, WatchPut, WatchPing, SlotPc, Results
        <5>3. QED
          BY <2>2, <4>1, <5>2, MoveType
      <4>4. QED
        BY <4>2, <4>3
    <3>2. QED
      BY <1>2, <1>4, <2>1, <3>1 DEF Tells
  <2>3. CASE slot[w].task = t
    <3>1. slot'[w].task = t => Tells(w, t)'
      BY <1>2, <1>7, <2>3, WatcherTells
    <3>2. CASE Kill(w)
      <4>1. Watches(w, t) /\ store' = store
        BY <2>3, <3>2 DEF Kill, Watches
      <4>2. \A v \in Slot \ {w} : ~Watches(v, t) /\ (slot[v].task = t => slot[v].pc # "put")
        BY <1>1, <4>1 DEF Sole, Starting
      <4>3. TellAll(t)'
        BY <2>1, <3>1, <4>2 DEF Tells, Watches
      <4>4. store[t].status = "Running"
        BY <1>1, <4>1 DEF Sole
      <4>5. QED
        BY <4>1, <4>3, <4>4 DEF EndIsTold
    <3>3. CASE ~Kill(w)
      <4>1. ct' = ct
        BY <1>7, <3>3 DEF WatchStep, WaitExit, WaitDeadline, WaitError, KillFail, Inspect,
                          InspectFail, WatchPut, WatchPing, Release
      <4>2. TellAll(t)'
        BY <1>2, <2>1, <3>1, <4>1 DEF Tells
      <4>3. EndIsTold(t)'
        <5>1. CASE WatchPut(w)
          <6>1. slot[w].pc = "save" /\ store'[t] = AfterRun(t, slot[w].result)
            BY <2>3, <5>1 DEF WatchPut, Put
          <6>2. Recurrence[t] = "once" => store'[t].status = slot[w].result
            BY <6>1 DEF AfterRun, Record
          <6>3. QED
            BY <1>2, <2>3, <4>1, <6>1, <6>2 DEF EndIsTold, Tells
        <5>2. CASE ~WatchPut(w)
          BY <1>4, <1>7, <4>1, <5>2, WatchMoves
        <5>3. QED
          BY <5>1, <5>2
      <4>4. QED
        BY <4>2, <4>3
    <3>4. QED
      BY <3>2, <3>3
  <2>4. QED
    BY <2>2, <2>3
<1>8. ASSUME NEW c \in Client, ClientStart(c) \/ ClientStep(c) PROVE TellAll(t)' /\ EndIsTold(t)'
  <2>1. call[c].task # t
    BY <1>1 DEF Touched
  <2>2. ct'[t] = ct[t]
    BY <1>8, <2>1 DEF ClientStart, ClientStep, Add, AddPing, CancelGet, DeleteGet, DownStop,
                      DownRemove, DownFail, CancelPut, DeleteStore, Flush
  <2>3. store'[t].status \in {store[t].status, "Waiting", "Absent"}
    BY <1>8, <2>1 DEF ClientStart, ClientStep, Add, AddPing, CancelGet, DeleteGet, DownStop,
                      DownRemove, DownFail, CancelPut, DeleteStore, Flush, Put, Record, Absent
  <2>4. QED
    BY <1>3, <1>4, <1>8, <2>2, <2>3, ClientsFrame
<1>9. ASSUME NEW u \in Task, ContainerExit(u) PROVE TellAll(t)' /\ EndIsTold(t)'
  <2>1. slot' = slot /\ store' = store
    BY <1>9 DEF ContainerExit
  <2>2. ct'[t] = ct[t] \/ (ct[t] = "running" /\ ct'[t] \in Exits /\ ct'[t] # "running")
    BY <1>9 DEF ContainerExit
  <2>3. QED
    BY <1>2, <2>1, <2>2 DEF Tells, EndIsTold
<1>10. CASE Tick
  <2>1. store'[t].status = store[t].status /\ ct' = ct /\ slot' = slot
    BY <1>10, LaterType DEF Tick
  <2>2. QED
    BY <1>3, <1>4, <2>1
<1>11. CASE TimerFire \/ UNCHANGED vars
  BY <1>3, <1>4, <1>11 DEF TimerFire, vars
<1>12. QED
  BY <1>5, <1>6, <1>7, <1>8, <1>9, <1>10, <1>11 DEF Next

LEMMA AlwaysTold == Spec => []Told
<1>1. Init => Told
  BY DEF Init, Told, StatusTellsTheEnd, Tells, FreeSlot, Absent, Record
<1>2. TypeOK /\ Known /\ Starting /\ Sole /\ Told /\ [Next]_vars => Told'
  BY StepTold
<1>3. IInv => TypeOK /\ Known /\ Starting /\ Sole
  BY DEF IInv
<1>4. QED
  BY <1>1, <1>2, <1>3, Inductive, PTL DEF Spec

(* The store does not lie about a run that is over: Done is an exit code of 0,   *)
(* Timeout a container that was killed or failed.                                *)
THEOREM StatusIsTheEnd == Spec => []StatusTellsTheEnd
<1>1. Told => StatusTellsTheEnd
  BY DEF Told
<1>2. QED
  BY <1>1, AlwaysTold, PTL
=============================================================================
