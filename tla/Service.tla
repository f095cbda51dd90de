------------------------------ MODULE Service ------------------------------
(* The life of a scheduler, from Load to WaitStop, and what its goroutines hold *)
(* meanwhile: s.lock, which execTask keeps from the resources to the event, a  *)
(* ForEach of the store, the lock of the pubsub. Resources, timers and results *)
(* of runs are in module Scheduler: here a task runs once, and ends.           *)
EXTENDS PubSub, Store

CONSTANTS
  Added,      \* a task that a client adds
  Old         \* one that is stored when the process starts

Task == {Added, Old}
Goroutine == Task \cup {"main", "loop", "add"}

ASSUME ServiceAssumption ==
  /\ Added # Old /\ Key = Task /\ Task \cap {"main", "loop", "add"} = {}
  /\ Scanner = {"main", "loop"}
  /\ Publisher = Goroutine
  /\ Absent \notin {"Waiting", "Running", "Done", "Error"}
  /\ \A k \in Kind : k.adopts \in BOOLEAN   \* Load finds a running container for Old

VARIABLES
  at,        \* where each goroutine is; a task is its watcher
  slock,     \* s.lock
  chosen,    \* the task that execTask is called for
  started, stopping,   \* the flag and the wait group of the scheduler
  ctxDone,   \* the context of Start
  newMsg     \* somethingNewHappened owes the loop a turn (module Todo)

vars == <<psVars, stVars, at, slock, chosen, started, stopping, ctxDone, newMsg>>

Jump(g, pc) == at' = [at EXCEPT ![g] = pc]
Evt(a, t) == [action |-> a, task |-> {t}]

Init == /\ PInit /\ SInit
        /\ kv = [k \in Key |-> IF k = Added THEN Absent
                               ELSE IF kind.adopts THEN "Running" ELSE "Waiting"]
        /\ at = [g \in Goroutine |-> IF g = "main" THEN "load" ELSE "off"]
        /\ slock = Unlocked
        /\ chosen = Old
        /\ started = FALSE /\ stopping = 0 /\ ctxDone = FALSE /\ newMsg = FALSE

Flags == UNCHANGED <<started, stopping, ctxDone>>

-----------------------------------------------------------------------------
(* Mistakes, one line of the code wrong each.                                *)

StartForgetsToCount == /\ at["main"] = "start"
                   /\ at' = [at EXCEPT !["main"] = "startFlag", !["loop"] = "select"]
                   /\ UNCHANGED <<psVars, stVars, slock, chosen, started, stopping, ctxDone, newMsg>>

ExecPutStartsWatcher(p) ==
  /\ at[p] = "put" /\ Write(chosen, "Running")
  /\ at' = [at EXCEPT ![p] = "event", ![chosen] = "wait"]
  /\ UNCHANGED <<psVars, slock, chosen, newMsg>> /\ Flags

ExecErrorKeepsLock(p) ==
  /\ at[p] = "unlock"
  /\ Jump(p, IF scan[p].on THEN "visit" ELSE "ping")
  /\ UNCHANGED <<psVars, stVars, slock, chosen, newMsg>> /\ Flags

-----------------------------------------------------------------------------
(* execTask, by the loop or by Load                                          *)

Executor == {"main", "loop"}

(* It is called for t, and asks for the lock m.  *)
Exec(p, t, m) == /\ chosen' = t /\ Jump(p, "lock")
                 /\ slock' = Want(m, p)

ExecLock(p) == /\ at[p] = "lock" /\ MayWrite(slock, p)
               /\ slock' = Lock(slock, p)
               /\ \E pc \in {"put", "putError"} : Jump(p, pc)     \* Up, and its failure
               /\ UNCHANGED <<psVars, stVars, chosen, newMsg>> /\ Flags

ExecPut(p) == /\ at[p] = "put" /\ Jump(p, "event")
              /\ Write(chosen, "Running")
              /\ UNCHANGED <<psVars, slock, chosen, newMsg>> /\ Flags

ExecPutError(p) == /\ at[p] = "putError" /\ Jump(p, "unlock")
                   /\ Write(chosen, "Error")
                   /\ UNCHANGED <<psVars, slock, chosen, newMsg>> /\ Flags

ExecEvent(p) == /\ at[p] = "event" /\ Jump(p, "publish")
                /\ PublishBegin(p, Evt("Running", chosen))
                /\ UNCHANGED <<stVars, slock, chosen, newMsg>> /\ Flags

(* Back in the ForEach of Load, or in oneLoop.  *)
AfterExec(p) == IF scan[p].on THEN "visit" ELSE "ping"

(* Publish is over: s.lock is free, and a goroutine watches the run.  *)
ExecWatch(p) == /\ at[p] = "publish"
                /\ PublishEnd(p)
                /\ slock' = Unlock(slock)
                /\ at' = [at EXCEPT ![p] = AfterExec(p), ![chosen] = "wait"]
                /\ UNCHANGED <<stVars, chosen, newMsg>> /\ Flags

ExecError(p) == /\ at[p] = "unlock" /\ Jump(p, AfterExec(p))
                /\ slock' = Unlock(slock)
                /\ UNCHANGED <<psVars, stVars, chosen, newMsg>> /\ Flags

ExecTask(p) == \/ ExecLock(p) \/ ExecPut(p) \/ ExecPutError(p)
               \/ ExecEvent(p) \/ ExecWatch(p) \/ ExecError(p)

-----------------------------------------------------------------------------
(* oneLoop, by the loop or at the end of Load                                *)

(* Done, then readyToGo: it holds s.lock during its ForEach.  *)
LookBegin(p) == /\ at[p] = "look" /\ MayRead(slock) /\ Jump(p, "ready")
                /\ slock' = RLock(slock, p)
                /\ ScanBegin(p)
                /\ newMsg' = FALSE
                /\ UNCHANGED <<psVars, chosen>> /\ Flags

AfterLoop(p) == IF p = "main" THEN "start" ELSE "select"

LookEnd(p) == /\ at[p] = "ready" /\ ScanEnd(p)
              /\ \/ \E t \in Task : /\ <<t, "Waiting">> \in scan[p].got
                                    /\ Exec(p, t, RUnlock(slock, p))
                 \/ /\ \A t \in Task : <<t, "Waiting">> \notin scan[p].got
                    /\ slock' = RUnlock(slock, p)
                    /\ UNCHANGED chosen /\ Jump(p, AfterLoop(p))
              /\ UNCHANGED <<psVars, newMsg>> /\ Flags

LoopPing(p) == /\ at[p] = "ping" /\ Jump(p, AfterLoop(p))
               /\ newMsg' = TRUE
               /\ UNCHANGED <<psVars, stVars, slock, chosen>> /\ Flags

OneLoop(p) == LookBegin(p) \/ LookEnd(p) \/ LoopPing(p)

(* The callback of a ForEach gets a key; that of Load may call execTask.  *)
Visit(p) == /\ at[p] \in {"ready", "visit"}
            /\ \E k \in Key : /\ ScanNext(p, k)
                              /\ IF at[p] = "visit" /\ Value(p, k) = "Running"
                                 THEN Exec(p, k, slock)
                                 ELSE UNCHANGED <<chosen, at, slock>>
            /\ UNCHANGED <<psVars, newMsg>> /\ Flags

-----------------------------------------------------------------------------
(* Load, Start and WaitStop                                                  *)

LoadBegin == /\ at["main"] = "load" /\ Jump("main", "visit")
             /\ ScanBegin("main")
             /\ UNCHANGED <<psVars, slock, chosen, newMsg>> /\ Flags

(* The end of ForEach; the Puts that follow are in module Recovery.  *)
LoadEnd == /\ at["main"] = "visit" /\ Jump("main", "look")
           /\ ScanEnd("main")
           /\ UNCHANGED <<psVars, slock, chosen, newMsg>> /\ Flags

StartLoop == /\ at["main"] = "start"
             /\ at' = [at EXCEPT !["main"] = "startFlag", !["loop"] = "select"]
             /\ stopping' = stopping + 1
             /\ UNCHANGED <<psVars, stVars, slock, chosen, started, ctxDone, newMsg>>

StartFlag == /\ at["main"] = "startFlag" /\ Jump("main", "serve")
             /\ started' = TRUE
             /\ UNCHANGED <<psVars, stVars, slock, chosen, stopping, ctxDone, newMsg>>

Select == /\ at["loop"] = "select"
          /\ \/ ctxDone /\ Jump("loop", "sync")
             \/ newMsg /\ Jump("loop", "look")
          /\ UNCHANGED <<psVars, stVars, slock, chosen, newMsg>> /\ Flags

LoopSync == /\ at["loop"] = "sync" /\ Jump("loop", "done")
            /\ started' = FALSE
            /\ UNCHANGED <<psVars, stVars, slock, chosen, stopping, ctxDone, newMsg>>

LoopDone == /\ at["loop"] = "done" /\ Jump("loop", "ended")
            /\ stopping' = stopping - 1
            /\ UNCHANGED <<psVars, stVars, slock, chosen, started, ctxDone, newMsg>>

Cancel == /\ at["main"] = "serve" /\ Jump("main", "waitStop")
          /\ ctxDone' = TRUE
          /\ UNCHANGED <<psVars, stVars, slock, chosen, started, stopping, newMsg>>

(* It panics when the loop has been faster.  *)
WaitStop == /\ \/ at["main"] = "waitStop" /\ Jump("main", IF started THEN "waiting" ELSE "panic")
               \/ at["main"] = "waiting" /\ stopping = 0 /\ Jump("main", "stopped")
            /\ UNCHANGED <<psVars, stVars, slock, chosen, newMsg>> /\ Flags

Main == LoadBegin \/ LoadEnd \/ StartLoop \/ StartFlag \/ WaitStop
Loop == Select \/ LoopSync \/ LoopDone

-----------------------------------------------------------------------------
(* Watchers, and the client that adds, once Load is over                                  *)

Open == at["main"] \in {"start", "startFlag", "serve", "waitStop", "waiting", "stopped"}

WatchEnd(t) == /\ at[t] = "wait" /\ Jump(t, "event")
               /\ Write(t, "Done")
               /\ UNCHANGED <<psVars, slock, chosen, newMsg>> /\ Flags

WatchEvent(t) == /\ at[t] = "event" /\ Jump(t, "publish")
                 /\ PublishBegin(t, Evt("Done", t))
                 /\ UNCHANGED <<stVars, slock, chosen, newMsg>> /\ Flags

WatchPing(t) == /\ at[t] = "publish" /\ Jump(t, "ended")
                /\ PublishEnd(t)
                /\ newMsg' = TRUE
                /\ UNCHANGED <<stVars, slock, chosen>> /\ Flags

AddCheck == /\ Open /\ at["add"] = "off"
            /\ Jump("add", IF started THEN "put" ELSE "refused")
            /\ UNCHANGED <<psVars, stVars, slock, chosen, newMsg>> /\ Flags

AddPut == /\ at["add"] = "put" /\ Jump("add", "ping")
          /\ Write(Added, "Waiting")
          /\ UNCHANGED <<psVars, slock, chosen, newMsg>> /\ Flags

AddPing == /\ at["add"] = "ping" /\ Jump("add", "event")
           /\ newMsg' = TRUE
           /\ UNCHANGED <<psVars, stVars, slock, chosen>> /\ Flags

AddEvent == /\ at["add"] = "event" /\ Jump("add", "publish")
            /\ PublishBegin("add", Evt("added", Added))
            /\ UNCHANGED <<stVars, slock, chosen, newMsg>> /\ Flags

AddReturn == /\ at["add"] = "publish" /\ Jump("add", "returned")
             /\ PublishEnd("add")
             /\ UNCHANGED <<stVars, slock, chosen, newMsg>> /\ Flags

Add == AddCheck \/ AddPut \/ AddPing \/ AddEvent \/ AddReturn

(* A goroutine goes on inside Publish; a subscriber does anything it may.  *)
Send(g) == /\ PublishSend(g)
           /\ UNCHANGED <<stVars, at, slock, chosen, newMsg>> /\ Flags

Subscriber(s) == /\ SubStep(s)
                 /\ UNCHANGED <<stVars, at, slock, chosen, newMsg>> /\ Flags

Run(g) == \/ g \in Executor /\ (ExecTask(g) \/ OneLoop(g) \/ Visit(g))
          \/ g \in Task /\ (WatchEnd(g) \/ WatchEvent(g) \/ WatchPing(g))
          \/ g = "main" /\ Main
          \/ g = "loop" /\ Loop
          \/ g = "add" /\ Add
          \/ Send(g)

Goroutines == (\E g \in Goroutine : Run(g))

Next == Cancel \/ Goroutines \/ (\E s \in Sub : Subscriber(s))

(* Goroutines are scheduled, and subscribers read what they get; nothing makes  *)
(* a client subscribe, or a context end. Each step takes some counter of a      *)
(* finite work on, so that fairness to the whole is fairness to each.           *)
Reads(s) == /\ Subscribe(s) \/ CloseWant(s) \/ Close(s) \/ Receive(s)
            /\ UNCHANGED <<stVars, at, slock, chosen, started, stopping, ctxDone, newMsg>>
Spec == /\ Init /\ [][Next]_vars
        /\ WF_vars(Goroutines \/ \E s \in Sub : Reads(s))

-----------------------------------------------------------------------------
TypeOK == /\ PubSubType
          /\ kind \in Kind /\ kv \in [Key -> {Absent, "Waiting", "Running", "Done", "Error"}]
          /\ slock \in Mutex(Goroutine)
          /\ slock.readers = {g \in Executor : at[g] = "ready"}
          /\ slock.writer = {g \in Executor : at[g] \in {"put", "putError", "event", "publish", "unlock"}}
          /\ chosen \in Task /\ stopping \in 0..1
          /\ started \in BOOLEAN /\ ctxDone \in BOOLEAN /\ newMsg \in BOOLEAN

(* Once WaitStop is back, the loop has synchronised the store and executes no   *)
(* task any more, whatever was going on when its context was canceled.          *)
WaitStopMeansStopped ==
  at["main"] = "stopped" => at["loop"] = "ended" /\ ~started /\ slock.writer = {}

(* A subscriber learns that a task runs before it learns that the run ended: the *)
(* end is not published while the announcement still has to enter a channel.      *)
RunIsAnnouncedBeforeItsEnd ==
  \A s \in Sub, t \in Task :
    Evt("Running", t) \in due[s] \ Range(chan[s]) => at[t] \in {"off", "wait", "event"}

(* No goroutine waits for ever for a lock, for the store or for a place in a     *)
(* channel: Load, Add, execTask and the watchers come to their ends, and the     *)
(* loop comes to rest.                                                           *)
Busy(g) == \/ at[g] \in {"visit", "lock", "put", "putError", "event", "publish",
                         "unlock", "look", "ready", "ping", "wait"}
CallsReturn == <>[](\A g \in Goroutine : ~Busy(g))

(* A canceled subscription is taken away, though events go on.                    *)
SubscriptionsClose == \A s \in Sub : life[s] = "canceled" ~> life[s] = "closed"
=============================================================================
