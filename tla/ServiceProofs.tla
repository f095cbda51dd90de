--------------------------- MODULE ServiceProofs ---------------------------
(* The end of the loop, the snapshots of the store, the events of the pubsub   *)
(* and what subscribers learn of a run: for any store, any subscribers and      *)
(* channels of any size, whatever is executed, watched and added meanwhile.     *)
EXTENDS Service, FiniteSetTheorems, SequenceTheorems, TLAPS

-----------------------------------------------------------------------------
(* Where the goroutines may be.  Main and the loop take the same turns: main    *)
(* does so before it is in AfterStart, the loop between two selects.            *)
InExec == {"put", "putError", "event", "publish", "unlock"}
Turn == InExec \cup {"visit", "lock", "look", "ready", "ping"}
AfterStart == {"startFlag", "serve", "waitStop", "waiting", "stopped", "panic"}
Pc == Turn \cup AfterStart \cup {"off", "load", "start", "select", "sync", "done",
                                 "ended", "wait", "refused", "returned"}

-----------------------------------------------------------------------------
(* The inductive invariant.  Who has s.lock is in the middle of execTask.      *)
LockHeld == \A p \in slock.writer : p \in Executor /\ at[p] \in InExec

(* The wait group counts the loop, from before it is there to its last step.   *)
Counted == /\ at["loop"] # "off" <=> at["main"] \in AfterStart
           /\ stopping = IF at["loop"] \in {"off", "ended"} THEN 0 ELSE 1

(* The loop takes started back, and does so after Start has set it: it ends     *)
(* because the context does, which is canceled by who has started it.          *)
Ended == /\ at["loop"] \in {"sync", "done", "ended"} => ctxDone
         /\ ctxDone => at["main"] \in {"waitStop", "waiting", "stopped", "panic"}
         /\ at["loop"] \in {"done", "ended"} => ~started
         /\ at["main"] = "stopped" => at["loop"] = "ended"

Locks == [readers : SUBSET Goroutine, writer : SUBSET Goroutine, queue : SUBSET Goroutine]
LifeType == at \in [Goroutine -> Pc] /\ chosen \in Task /\ slock \in Locks
LifeInv == LifeType /\ LockHeld /\ Counted /\ Ended

LEMMA Names == /\ "main" \in Goroutine /\ "loop" \in Goroutine /\ "add" \in Goroutine
               /\ "main" \notin Task /\ "loop" \notin Task /\ "add" \notin Task
               /\ Executor \subseteq Goroutine /\ Task \subseteq Goroutine
BY ServiceAssumption DEF Goroutine, Executor

LEMMA LifeInit == Init => LifeInv
<1>. SUFFICES ASSUME Init PROVE LifeInv
  OBVIOUS
<1>1. at = [g \in Goroutine |-> IF g = "main" THEN "load" ELSE "off"]
  BY DEF Init
<1>2. at \in [Goroutine -> Pc]
  BY <1>1 DEF Pc
<1>3. at["main"] = "load" /\ at["loop"] = "off"
  BY <1>1, Names
<1>4. /\ slock \in Locks /\ slock.writer = {}
      /\ stopping = 0 /\ ~started /\ ~ctxDone /\ chosen \in Task
  BY DEF Init, Unlocked, Task, Locks
<1>5. QED
  BY <1>2, <1>3, <1>4 DEF LifeInv, LifeType, LockHeld, Counted, Ended, AfterStart

-----------------------------------------------------------------------------
(* What main and the loop do in a turn changes nothing that the end depends on. *)
LEMMA TurnKeeps ==
  ASSUME LifeInv, NEW p \in Executor, at[p] \in Turn,
         NEW pc \in Turn \cup {AfterLoop(p)}, chosen' \in Task, slock' \in Locks, Flags, LockHeld',
         \/ at' = [at EXCEPT ![p] = pc]
         \/ \E t \in Task : at' = [at EXCEPT ![p] = pc, ![t] = "wait"]
  PROVE  LifeInv'
<1>. USE Names DEF LifeInv, LifeType
<1>1. p \in Goroutine /\ p \notin Task /\ (p = "main" \/ p = "loop")
  BY DEF Executor
<1>2. pc \in Pc /\ "wait" \in Pc
  BY DEF Pc, AfterLoop
<1>3. at' \in [Goroutine -> Pc]
  BY <1>1, <1>2
<1>4. /\ at'[p] = pc
      /\ p # "main" => at'["main"] = at["main"]
      /\ p # "loop" => at'["loop"] = at["loop"]
  BY <1>1
<1>5. p = "main" => pc \in Turn \cup {"start"}
  BY DEF AfterLoop
<1>6. p = "loop" => pc \in Turn \cup {"select"}
  BY DEF AfterLoop
<1>7. Counted'
  BY <1>1, <1>4, <1>5, <1>6 DEF Counted, Flags, Turn, InExec, AfterStart
<1>8. Ended'
  BY <1>1, <1>4, <1>5, <1>6 DEF Ended, Flags, Turn, InExec
<1>9. QED
  BY <1>3, <1>7, <1>8

(* Nor does what the others do.                                                  *)
LEMMA OthersKeep ==
  ASSUME LifeInv, NEW g \in Task \cup {"add"}, NEW pc \in Pc,
         at' = [at EXCEPT ![g] = pc], UNCHANGED <<slock, chosen>>, Flags
  PROVE  LifeInv'
<1>. USE Names DEF LifeInv, LifeType
<1>1. at' \in [Goroutine -> Pc]
  OBVIOUS
<1>2. /\ at'["main"] = at["main"] /\ at'["loop"] = at["loop"]
      /\ \A p \in Executor : at'[p] = at[p]
  BY DEF Executor
<1>3. QED
  BY <1>1, <1>2 DEF LockHeld, Counted, Ended, Flags

-----------------------------------------------------------------------------
(* execTask, by who has s.lock or waits for it.                                  *)
LEMMA ExecKeeps ==
  ASSUME LifeInv, NEW p \in Executor, ExecTask(p)
  PROVE  LifeInv'
<1>. USE Names DEF LifeInv, LifeType, Jump
<1>1. p \in Goroutine /\ p \notin Task
  BY DEF Executor
<1>2. CASE ExecLock(p)
  <2>1. PICK pc \in {"put", "putError"} : at' = [at EXCEPT ![p] = pc]
    BY <1>2 DEF ExecLock
  <2>2. slock' \in Locks /\ slock'.writer = {p}
    BY <1>1, <1>2 DEF ExecLock, Lock, Locks
  <2>2a. LockHeld'
    BY <1>1, <2>1, <2>2 DEF LockHeld, InExec
  <2>3. pc \in Turn /\ at[p] \in Turn
    BY <1>2 DEF ExecLock, Turn, InExec
  <2>4. Flags /\ chosen' \in Task
    BY <1>2 DEF ExecLock
  <2>5. QED
    BY <2>1, <2>2, <2>3, <2>2a, <2>4, TurnKeeps
<1>3. CASE ExecPut(p) \/ ExecPutError(p) \/ ExecEvent(p)
  <2>1. PICK pc \in InExec : at' = [at EXCEPT ![p] = pc]
    BY <1>3 DEF ExecPut, ExecPutError, ExecEvent, InExec
  <2>2. at[p] \in Turn /\ Flags /\ chosen' \in Task /\ slock' = slock
    BY <1>3 DEF ExecPut, ExecPutError, ExecEvent, Turn, InExec
  <2>3. LockHeld'
    BY <1>1, <2>1, <2>2 DEF LockHeld
  <2>4. QED
    BY <2>1, <2>2, <2>3, TurnKeeps DEF Turn
<1>4. CASE ExecWatch(p) \/ ExecError(p)
  <2>1. /\ slock' \in Locks /\ slock'.writer = {}
        /\ at[p] \in Turn /\ Flags /\ chosen' \in Task
    BY <1>4 DEF ExecWatch, ExecError, Unlock, Locks, Turn, InExec
  <2>2. LockHeld'
    BY <2>1 DEF LockHeld
  <2>3. AfterExec(p) \in Turn
    BY DEF AfterExec, Turn
  <2>4. \/ at' = [at EXCEPT ![p] = AfterExec(p)]
        \/ at' = [at EXCEPT ![p] = AfterExec(p), ![chosen] = "wait"]
    BY <1>4 DEF ExecWatch, ExecError
  <2>5. QED
    BY <2>1, <2>2, <2>3, <2>4, TurnKeeps
<1>5. QED
  BY <1>2, <1>3, <1>4 DEF ExecTask

(* oneLoop and the callbacks of a ForEach.                                       *)
LEMMA LookKeeps ==
  ASSUME LifeInv, NEW p \in Executor, OneLoop(p) \/ Visit(p)
  PROVE  LifeInv'
<1>. USE Names DEF LifeInv, LifeType
<1>1. p \in Goroutine /\ at[p] \in Turn \ InExec
  BY DEF OneLoop, Visit, LookBegin, LookEnd, LoopPing, Turn, InExec, Executor
<1>2. Flags
  BY DEF OneLoop, Visit, LookBegin, LookEnd, LoopPing
<1>3. slock' \in Locks /\ slock'.writer = slock.writer
  <2>1. slock' \in {slock, RLock(slock, p), RUnlock(slock, p), Want(slock, p), Want(RUnlock(slock, p), p)}
    BY DEF OneLoop, Visit, LookBegin, LookEnd, LoopPing, Exec
  <2>2. \A m \in Locks : RLock(m, p) \in Locks /\ RLock(m, p).writer = m.writer
    BY <1>1 DEF RLock, Locks
  <2>3. \A m \in Locks : RUnlock(m, p) \in Locks /\ RUnlock(m, p).writer = m.writer
    BY <1>1 DEF RUnlock, Locks
  <2>4. \A m \in Locks : Want(m, p) \in Locks /\ Want(m, p).writer = m.writer
    BY <1>1 DEF Want, Locks
  <2>5. QED
    BY <2>1, <2>2, <2>3, <2>4
<1>4. chosen' \in Task
  BY ServiceAssumption DEF OneLoop, Visit, LookBegin, LookEnd, LoopPing, Exec
<1>5. PICK pc \in Turn \cup {AfterLoop(p)} : at' = [at EXCEPT ![p] = pc]
  <2>1. CASE OneLoop(p)
    BY <2>1 DEF OneLoop, LookBegin, LookEnd, LoopPing, Exec, Jump, Turn
  <2>2. CASE Visit(p)
    <3>1. at' = [at EXCEPT ![p] = "lock"] \/ at' = at
      BY <2>2 DEF Visit, Exec, Jump
    <3>2. at = [at EXCEPT ![p] = at[p]]
      BY <1>1
    <3>3. QED
      BY <1>1, <3>1, <3>2 DEF Turn
  <2>3. QED
    BY <2>1, <2>2
<1>6. LockHeld'
  <2>1. \A q \in slock.writer : q \in Goroutine /\ q # p
    BY <1>1, Names DEF LockHeld
  <2>2. \A q \in slock.writer : at'[q] = at[q]
    BY <1>5, <2>1
  <2>3. QED
    BY <1>3, <2>2 DEF LockHeld
<1>7. QED
  BY <1>1, <1>2, <1>3, <1>4, <1>5, <1>6, TurnKeeps

-----------------------------------------------------------------------------
(* The steps of their own of main and of the loop, one by one.                   *)
LEMMA LifeKeeps ==
  ASSUME LifeInv, Main \/ Loop \/ Cancel
  PROVE  LifeInv'
<1>. USE Names DEF LifeInv, LifeType, Jump
<1>1. CASE LoadBegin
  <2>1. at["main"] = "load" /\ at' = [at EXCEPT !["main"] = "visit"]
    BY <1>1 DEF LoadBegin
  <2>2. at' \in [Goroutine -> Pc]
    BY <2>1 DEF Pc, Turn
  <2>3. QED
    BY <1>1, <2>1, <2>2 DEF LoadBegin, Flags, LockHeld, Counted, Ended, Executor, InExec, AfterStart
<1>2. CASE LoadEnd
  BY <1>2, TurnKeeps DEF LoadEnd, Turn, InExec, LockHeld, Executor
<1>3. CASE StartLoop
  <2>1. at' \in [Goroutine -> Pc] /\ slock' = slock /\ chosen' = chosen
    BY <1>3 DEF StartLoop, Pc, AfterStart
  <2>2. LockHeld'
    BY <1>3 DEF StartLoop, LockHeld, Executor, InExec, Counted, AfterStart
  <2>3. Counted' /\ Ended'
    BY <1>3 DEF StartLoop, Counted, Ended, AfterStart
  <2>4. QED
    BY <2>1, <2>2, <2>3
<1>4. CASE StartFlag
  <2>1. at' \in [Goroutine -> Pc] /\ slock' = slock /\ chosen' = chosen
    BY <1>4 DEF StartFlag, Pc, AfterStart
  <2>2. LockHeld'
    BY <1>4 DEF StartFlag, LockHeld, Executor, InExec
  <2>3. Counted' /\ Ended'
    BY <1>4 DEF StartFlag, Counted, Ended, AfterStart
  <2>4. QED
    BY <2>1, <2>2, <2>3
<1>5. CASE WaitStop
  <2>1. at' \in [Goroutine -> Pc] /\ slock' = slock /\ chosen' = chosen
    BY <1>5 DEF WaitStop, Pc, AfterStart
  <2>2. LockHeld'
    BY <1>5 DEF WaitStop, LockHeld, Executor, InExec
  <2>3. Counted' /\ Ended'
    BY <1>5 DEF WaitStop, Flags, Counted, Ended, AfterStart
  <2>4. QED
    BY <2>1, <2>2, <2>3
<1>6. CASE Select
  <2>1. at' \in [Goroutine -> Pc] /\ slock' = slock /\ chosen' = chosen
    BY <1>6 DEF Select, Pc, Turn
  <2>2. LockHeld'
    BY <1>6 DEF Select, LockHeld, Executor, InExec
  <2>3. Counted' /\ Ended'
    BY <1>6 DEF Select, Flags, Counted, Ended, AfterStart
  <2>4. QED
    BY <2>1, <2>2, <2>3
<1>7. CASE LoopSync \/ LoopDone
  <2>1. at' \in [Goroutine -> Pc] /\ slock' = slock /\ chosen' = chosen
    BY <1>7 DEF LoopSync, LoopDone, Pc
  <2>2. LockHeld'
    BY <1>7 DEF LoopSync, LoopDone, LockHeld, Executor, InExec
  <2>3. Counted' /\ Ended'
    BY <1>7 DEF LoopSync, LoopDone, Counted, Ended, AfterStart
  <2>4. QED
    BY <2>1, <2>2, <2>3
<1>8. CASE Cancel
  <2>1. at' \in [Goroutine -> Pc] /\ slock' = slock /\ chosen' = chosen
    BY <1>8 DEF Cancel, Pc, AfterStart
  <2>2. LockHeld'
    BY <1>8 DEF Cancel, LockHeld, Executor, InExec
  <2>3. Counted' /\ Ended'
    BY <1>8 DEF Cancel, Counted, Ended, AfterStart
  <2>4. QED
    BY <2>1, <2>2, <2>3
<1>9. QED
  BY <1>1, <1>2, <1>3, <1>4, <1>5, <1>6, <1>7, <1>8 DEF Main, Loop

(* Watchers and clients.                                                          *)
LEMMA WatchersKeep ==
  ASSUME LifeInv,
         \/ \E t \in Task : WatchEnd(t) \/ WatchEvent(t) \/ WatchPing(t)
         \/ Add
  PROVE  LifeInv'
<1>1. UNCHANGED <<slock, chosen>> /\ Flags
  BY DEF WatchEnd, WatchEvent, WatchPing, Add, AddCheck, AddPut, AddPing, AddEvent, AddReturn
<1>2. CASE \E t \in Task : WatchEnd(t) \/ WatchEvent(t) \/ WatchPing(t)
  <2>1. PICK t \in Task, pc \in {"event", "publish", "ended"} : at' = [at EXCEPT ![t] = pc]
    BY <1>2 DEF WatchEnd, WatchEvent, WatchPing, Jump
  <2>2. QED
    BY <1>1, <2>1, OthersKeep DEF Pc, Turn, InExec
<1>3. CASE Add
  <2>1. PICK pc \in {"put", "refused", "ping", "event", "publish", "returned"} :
          at' = [at EXCEPT !["add"] = pc]
    BY <1>3 DEF Add, AddCheck, AddPut, AddPing, AddEvent, AddReturn, Jump
  <2>2. QED
    BY <1>1, <2>1, OthersKeep DEF Pc, Turn, InExec
<1>4. QED
  BY <1>2, <1>3

LEMMA LifeNext == LifeInv /\ [Next]_vars => LifeInv'
<1>. SUFFICES ASSUME LifeInv, [Next]_vars PROVE LifeInv'
  OBVIOUS
<1>1. CASE UNCHANGED <<at, slock, chosen, started, stopping, ctxDone>>
  BY <1>1 DEF LifeInv, LifeType, LockHeld, Counted, Ended
<1>2. CASE Cancel
  BY <1>2, LifeKeeps
<1>3. CASE Goroutines
  <2>1. PICK g \in Goroutine : Run(g)
    BY <1>3 DEF Goroutines
  <2>2. CASE g \in Executor /\ (ExecTask(g) \/ OneLoop(g) \/ Visit(g))
    BY <2>2, ExecKeeps, LookKeeps
  <2>3. CASE g \in Task /\ (WatchEnd(g) \/ WatchEvent(g) \/ WatchPing(g))
    BY <2>3, WatchersKeep
  <2>4. CASE Main \/ Loop
    BY <2>4, LifeKeeps
  <2>5. CASE Add
    BY <2>5, WatchersKeep
  <2>6. CASE Send(g)
    BY <1>1, <2>6 DEF Send, Flags
  <2>7. QED
    BY <2>1, <2>2, <2>3, <2>4, <2>5, <2>6 DEF Run
<1>4. CASE \E s \in Sub : Subscriber(s)
  BY <1>1, <1>4 DEF Subscriber, Flags
<1>5. CASE UNCHANGED vars
  BY <1>1, <1>5 DEF vars
<1>6. QED
  BY <1>2, <1>3, <1>4, <1>5 DEF Next

-----------------------------------------------------------------------------
(* WaitStop comes back to a server whose loop is over: nothing is executed any   *)
(* more, started is taken back and s.lock is not left behind, whenever the       *)
(* context was canceled.                                                        *)
THEOREM TheLoopIsOver == Spec => []WaitStopMeansStopped
<1>1. LifeInv => WaitStopMeansStopped
  <2>. SUFFICES ASSUME LifeInv, at["main"] = "stopped" PROVE WaitStopMeansStopped
    BY DEF WaitStopMeansStopped
  <2>1. at["loop"] = "ended" /\ ~started
    BY DEF LifeInv, Ended
  <2>2. slock.writer = {}
    BY <2>1 DEF LifeInv, LockHeld, Executor, InExec
  <2>3. QED
    BY <2>1, <2>2 DEF WaitStopMeansStopped
<1>2. QED
  BY <1>1, LifeInit, LifeNext, PTL DEF Spec

-----------------------------------------------------------------------------
(* The store.  A ForEach that is on has got what was stored when it began, and   *)
(* in a map nothing was written since.                                          *)
Values == {Absent, "Waiting", "Running", "Done", "Error"}
Scan == [on : BOOLEAN, view : [Key -> Values] \cup {<<>>}, rest : SUBSET Key,
         got : SUBSET (Key \X Values)]
Seen(p) == {<<k, scan[p].view[k]>> : k \in Present(scan[p].view) \ scan[p].rest}
Snapshot(p) == /\ scan[p].view \in [Key -> Values]
               /\ scan[p].rest \subseteq Present(scan[p].view)
               /\ kind.bolt \/ scan[p].view = kv
               /\ scan[p].got = Seen(p)

StoreType == kind \in Kind /\ kv \in [Key -> Values] /\ scan \in [Scanner -> Scan]
StoreInv == /\ StoreType
            /\ \A p \in Scanner : IF scan[p].on THEN Snapshot(p) ELSE scan[p].rest = {}

LEMMA StoreInit == Init => StoreInv
<1>. SUFFICES ASSUME Init PROVE StoreInv
  OBVIOUS
<1>1. kv \in [Key -> Values] /\ kind \in Kind
  BY DEF Init, SInit, Values
<1>2. NoScan \in Scan /\ ~NoScan.on /\ NoScan.rest = {}
  BY DEF NoScan, Scan
<1>3. scan = [p \in Scanner |-> NoScan]
  BY DEF Init, SInit
<1>4. QED
  BY <1>1, <1>2, <1>3 DEF StoreInv, StoreType

LEMMA WriteKeeps ==
  ASSUME StoreInv, NEW k \in Key, NEW v \in Values, Write(k, v)
  PROVE  StoreInv'
<1>1. kv' \in [Key -> Values] /\ UNCHANGED <<kind, scan>>
  BY DEF StoreInv, StoreType, Write
<1>2. ASSUME NEW p \in Scanner, scan[p].on PROVE Snapshot(p)'
  <2>1. Snapshot(p) /\ kind.bolt
    BY <1>2 DEF StoreInv, Write, Writable
  <2>2. QED
    BY <1>1, <2>1 DEF Snapshot, Seen
<1>3. QED
  BY <1>1, <1>2 DEF StoreInv, StoreType

LEMMA ScanBeginKeeps ==
  ASSUME StoreInv, NEW p \in Scanner, ScanBegin(p)
  PROVE  StoreInv'
<1>. DEFINE new == [on |-> TRUE, view |-> kv, rest |-> Present(kv), got |-> {}]
<1>1. scan' = [scan EXCEPT ![p] = new] /\ UNCHANGED <<kind, kv>>
  BY DEF ScanBegin
<1>2. Present(kv) \subseteq Key
  BY DEF StoreInv, StoreType, Present
<1>3. new \in Scan
  BY <1>2 DEF StoreInv, StoreType, Scan
<1>4. Snapshot(p)'
  <2>1. scan'[p] = new
    BY <1>1 DEF StoreInv, StoreType
  <2>2. Seen(p)' = {}
    BY <2>1 DEF Seen
  <2>3. QED
    BY <1>1, <2>1, <2>2 DEF Snapshot, StoreInv, StoreType
<1>. HIDE DEF new
<1>5. scan' \in [Scanner -> Scan] /\ \A q \in Scanner \ {p} : scan'[q] = scan[q]
  BY <1>1, <1>3 DEF StoreInv, StoreType
<1>6. \A q \in Scanner \ {p} : IF scan'[q].on THEN Snapshot(q)' ELSE scan'[q].rest = {}
  BY <1>1, <1>5 DEF StoreInv, Snapshot, Seen
<1>7. scan'[p].on
  BY <1>1, <1>5 DEF new, StoreInv, StoreType
<1>8. QED
  BY <1>1, <1>4, <1>5, <1>6, <1>7 DEF StoreInv, StoreType

LEMMA ScanNextKeeps ==
  ASSUME StoreInv, NEW p \in Scanner, NEW k \in Key, ScanNext(p, k)
  PROVE  /\ StoreInv'
         /\ scan[p].on /\ Value(p, k) = scan[p].view[k] /\ Value(p, k) # Absent
         /\ scan'[p].on /\ scan'[p].view = scan[p].view /\ scan'[p].rest = scan[p].rest \ {k}
         /\ \A q \in Scanner \ {p} : scan'[q] = scan[q]
<1>. DEFINE pair == <<k, Value(p, k)>>
            got == scan[p].got \cup {pair}
            half == [scan[p] EXCEPT !.rest = @ \ {k}]
            new == [half EXCEPT !.got = got]
<1>1. k \in scan[p].rest /\ UNCHANGED <<kind, kv>>
  BY DEF ScanNext
<1>2. scan[p].on /\ Snapshot(p) /\ scan[p] \in Scan
  BY <1>1 DEF StoreInv, StoreType
<1>3. Value(p, k) = scan[p].view[k] /\ scan[p].view[k] \in Values /\ scan[p].view[k] # Absent
  BY <1>1, <1>2 DEF Snapshot, Value, Present
<1>3a. pair = <<k, scan[p].view[k]>> /\ pair \in Key \X Values
  BY <1>3
<1>4. scan' = [scan EXCEPT ![p] = new]
  BY <1>2 DEF ScanNext, Scan, StoreInv, StoreType
<1>. HIDE DEF pair
<1>4a. got \in SUBSET (Key \X Values)
  BY <1>2, <1>3a DEF Scan
<1>. HIDE DEF got
<1>4b. half \in Scan /\ half.on /\ half.view = scan[p].view /\ half.rest = scan[p].rest \ {k}
  BY <1>2 DEF Scan
<1>. HIDE DEF half
<1>4c. /\ new \in Scan /\ new.on = half.on /\ new.view = half.view /\ new.rest = half.rest
       /\ new.got = got
  BY <1>4a, <1>4b DEF Scan
<1>5. /\ new \in Scan /\ new.on /\ new.view = scan[p].view /\ new.rest = scan[p].rest \ {k}
      /\ new.got = scan[p].got \cup {<<k, scan[p].view[k]>>}
  BY <1>3a, <1>4b, <1>4c DEF got
<1>. HIDE DEF new
<1>6. /\ scan' \in [Scanner -> Scan] /\ scan'[p] = new
      /\ \A q \in Scanner \ {p} : scan'[q] = scan[q]
  BY <1>4, <1>5 DEF StoreInv, StoreType
<1>7. Snapshot(p)'
  <2>1. Seen(p)' = Seen(p) \cup {<<k, scan[p].view[k]>>}
    BY <1>1, <1>2, <1>5, <1>6 DEF Seen, Snapshot
  <2>2. QED
    BY <1>1, <1>2, <1>5, <1>6, <2>1 DEF Snapshot
<1>8. \A q \in Scanner \ {p} : IF scan'[q].on THEN Snapshot(q)' ELSE scan'[q].rest = {}
  BY <1>1, <1>6 DEF StoreInv, Snapshot, Seen
<1>9. StoreInv'
  BY <1>1, <1>5, <1>6, <1>7, <1>8 DEF StoreInv, StoreType
<1>10. QED
  BY <1>2, <1>3, <1>5, <1>6, <1>9

LEMMA ScanEndKeeps ==
  ASSUME StoreInv, NEW p \in Scanner, ScanEnd(p)
  PROVE  StoreInv' /\ ~scan'[p].on /\ \A q \in Scanner \ {p} : scan'[q] = scan[q]
<1>1. scan' = [scan EXCEPT ![p] = NoScan] /\ UNCHANGED <<kind, kv>>
  BY DEF ScanEnd
<1>2. NoScan \in Scan /\ ~NoScan.on /\ NoScan.rest = {}
  BY DEF NoScan, Scan
<1>3. /\ scan' \in [Scanner -> Scan] /\ scan'[p] = NoScan
      /\ \A q \in Scanner \ {p} : scan'[q] = scan[q]
  BY <1>1, <1>2 DEF StoreInv, StoreType
<1>4. \A q \in Scanner \ {p} : IF scan'[q].on THEN Snapshot(q)' ELSE scan'[q].rest = {}
  BY <1>1, <1>3 DEF StoreInv, Snapshot, Seen
<1>5. QED
  BY <1>1, <1>2, <1>3, <1>4 DEF StoreInv, StoreType

(* What a step of the service does to the store.                                 *)
StoreMoves == \/ UNCHANGED stVars
              \/ \E k \in Key, v \in Values \ {Absent} : Write(k, v)
              \/ \E p \in Scanner : ScanBegin(p) \/ ScanEnd(p) \/ \E k \in Key : ScanNext(p, k)

LEMMA StoreSteps ==
  ASSUME LifeInv, [Next]_vars
  PROVE  StoreMoves
<1>. USE Names DEF StoreMoves
<1>0. /\ Scanner = Executor /\ Key = Task /\ Added \in Key /\ chosen \in Key
      /\ {"Waiting", "Running", "Done", "Error"} = Values \ {Absent}
  BY ServiceAssumption DEF Executor, Task, LifeInv, LifeType, Values
<1>1. ASSUME NEW p \in Executor, ExecTask(p) PROVE StoreMoves
  BY <1>0, <1>1 DEF ExecTask, ExecLock, ExecPut, ExecPutError, ExecEvent, ExecWatch, ExecError
<1>2. ASSUME NEW p \in Executor, OneLoop(p) PROVE StoreMoves
  BY <1>0, <1>2 DEF OneLoop, LookBegin, LookEnd, LoopPing
<1>3. ASSUME NEW p \in Executor, Visit(p) PROVE StoreMoves
  BY <1>0, <1>3 DEF Visit
<1>4. ASSUME NEW t \in Task, WatchEnd(t) \/ WatchEvent(t) \/ WatchPing(t) PROVE StoreMoves
  BY <1>0, <1>4 DEF WatchEnd, WatchEvent, WatchPing
<1>5. CASE Main \/ Loop \/ Cancel
  BY <1>0, <1>5 DEF Main, Loop, Cancel, LoadBegin, LoadEnd, StartLoop, StartFlag, WaitStop,
     Select, LoopSync, LoopDone, Executor
<1>6. CASE Add
  BY <1>0, <1>6 DEF Add, AddCheck, AddPut, AddPing, AddEvent, AddReturn
<1>7. CASE (\E g \in Goroutine : Send(g)) \/ (\E s \in Sub : Subscriber(s)) \/ UNCHANGED vars
  BY <1>7 DEF Send, Subscriber, vars
<1>8. QED
  BY <1>1, <1>2, <1>3, <1>4, <1>5, <1>6, <1>7 DEF Next, Goroutines, Run

LEMMA StoreNext ==
  ASSUME StoreInv, StoreMoves
  PROVE  StoreInv'
<1>1. CASE UNCHANGED stVars
  BY <1>1 DEF StoreInv, StoreType, Snapshot, Seen, stVars
<1>2. QED
  BY <1>1, WriteKeeps, ScanBeginKeeps, ScanEndKeeps, ScanNextKeeps DEF StoreMoves

(* What the callbacks of a ForEach have got was stored at one moment, whatever   *)
(* is written meanwhile.                                                        *)
THEOREM ForEachIsASnapshot == Spec => []ScanIsASnapshot
<1>1. StoreInv => ScanIsASnapshot
  BY DEF StoreInv, Snapshot, Seen, ScanIsASnapshot
<1>2. LifeInv /\ StoreInv /\ [Next]_vars => StoreInv'
  BY StoreSteps, StoreNext
<1>3. QED
  BY <1>1, <1>2, StoreInit, LifeInit, LifeNext, PTL DEF Spec

-----------------------------------------------------------------------------
(* Sequences: a channel gives and takes one event, Publish goes through the map  *)
(* in some order.                                                               *)
LEMMA AppendFacts ==
  ASSUME NEW S, NEW q \in Seq(S), NEW e \in S
  PROVE  /\ Append(q, e) \in Seq(S) /\ Len(Append(q, e)) = Len(q) + 1
         /\ Range(Append(q, e)) = Range(q) \cup {e}
         /\ IsInjective(q) /\ e \notin Range(q) => IsInjective(Append(q, e))
<1>. DEFINE a == Append(q, e)
<1>1. /\ a \in Seq(S) /\ Len(a) = Len(q) + 1 /\ Len(q) \in Nat
      /\ a[Len(q) + 1] = e /\ \A i \in 1..Len(q) : a[i] = q[i]
      /\ DOMAIN a = 1..(Len(q) + 1) /\ DOMAIN q = 1..Len(q)
  BY AppendProperties, LenProperties
<1>. HIDE DEF a
<1>2. Range(a) = Range(q) \cup {e}
  <2>1. \A i \in DOMAIN a : i = Len(q) + 1 \/ i \in DOMAIN q
    BY <1>1
  <2>2. DOMAIN q \subseteq DOMAIN a /\ Len(q) + 1 \in DOMAIN a
    BY <1>1
  <2>3. QED
    BY <1>1, <2>1, <2>2 DEF Range
<1>3. ASSUME IsInjective(q), e \notin Range(q) PROVE IsInjective(a)
  <2>1. \A i \in DOMAIN a : i = Len(q) + 1 \/ i \in DOMAIN q
    BY <1>1
  <2>2. \A i \in DOMAIN q : a[i] # e
    BY <1>1, <1>3 DEF Range
  <2>3. QED
    BY <1>1, <1>3, <2>1, <2>2 DEF IsInjective
<1>4. QED
  BY <1>1, <1>2, <1>3 DEF a

LEMMA TailFacts ==
  ASSUME NEW S, NEW q \in Seq(S), q # <<>>
  PROVE  /\ Head(q) \in S /\ Tail(q) \in Seq(S) /\ Len(Tail(q)) = Len(q) - 1
         /\ Range(q) = Range(Tail(q)) \cup {Head(q)}
         /\ IsInjective(q) => IsInjective(Tail(q)) /\ Head(q) \notin Range(Tail(q))
<1>. DEFINE r == Tail(q)
<1>1. /\ r \in Seq(S) /\ Len(r) = Len(q) - 1 /\ Head(q) \in S /\ Head(q) = q[1]
      /\ \A i \in 1..Len(r) : r[i] = q[i + 1]
      /\ DOMAIN r = 1..Len(r) /\ DOMAIN q = 1..Len(q)
      /\ Len(q) \in Nat \ {0} /\ Len(r) \in Nat
  BY HeadTailProperties, LenProperties, EmptySeq
<1>. HIDE DEF r
<1>2. /\ \A i \in DOMAIN r : i + 1 \in DOMAIN q /\ i + 1 # 1
      /\ \A i \in DOMAIN q : i = 1 \/ (i - 1 \in DOMAIN r /\ (i - 1) + 1 = i)
      /\ \A i, j \in DOMAIN r : i + 1 = j + 1 => i = j
      /\ 1 \in DOMAIN q
  BY <1>1
<1>3. Range(q) = Range(r) \cup {Head(q)}
  <2>1. ASSUME NEW x \in Range(q) PROVE x \in Range(r) \cup {Head(q)}
    <3>1. PICK i \in DOMAIN q : x = q[i]
      BY DEF Range
    <3>2. CASE i = 1
      BY <1>1, <3>1, <3>2
    <3>3. CASE i # 1
      <4>1. i - 1 \in DOMAIN r /\ (i - 1) + 1 = i
        BY <1>2, <3>3
      <4>2. r[i - 1] = q[i]
        BY <1>1, <4>1
      <4>3. QED
        BY <3>1, <4>1, <4>2 DEF Range
    <3>4. QED
      BY <3>2, <3>3
  <2>2. Range(r) \subseteq Range(q) /\ Head(q) \in Range(q)
    BY <1>1, <1>2 DEF Range
  <2>3. QED
    BY <2>1, <2>2
<1>4. ASSUME IsInjective(q) PROVE IsInjective(r) /\ Head(q) \notin Range(r)
  <2>1. \A i \in DOMAIN r : r[i] = q[i + 1]
    BY <1>1
  <2>2. IsInjective(r)
    BY <1>2, <1>4, <2>1 DEF IsInjective
  <2>3. ASSUME NEW i \in DOMAIN r PROVE r[i] # Head(q)
    BY <1>1, <1>2, <1>4, <2>1 DEF IsInjective
  <2>4. QED
    BY <2>2, <2>3 DEF Range
<1>5. QED
  BY <1>1, <1>3, <1>4 DEF r

LEMMA OrderFacts ==
  ASSUME NEW S, IsFiniteSet(S), NEW order \in SetToSeqs(S)
  PROVE  order \in Seq(S) /\ Range(order) = S /\ IsInjective(order)
<1>. DEFINE D == 1..Cardinality(S)
<1>1. Cardinality(S) \in Nat
  BY FS_CardinalityType
<1>2. order \in [D -> S] /\ \A i, j \in D : i # j => order[i] # order[j]
  BY DEF SetToSeqs
<1>3. IsInjective(order) /\ order \in Injection(D, S)
  BY <1>2 DEF IsInjective, Injection
<1>4. IsFiniteSet(D) /\ Cardinality(D) = Cardinality(S)
  BY <1>1, FS_Interval
<1>5. order \in Surjection(D, S)
  BY <1>3, <1>4, FS_Injection
<1>6. Range(order) = S
  BY <1>2, <1>5 DEF Surjection, Range
<1>7. order \in Seq(S)
  BY <1>1, <1>2, SeqDef
<1>8. QED
  BY <1>3, <1>6, <1>7

-----------------------------------------------------------------------------
(* The pubsub.  Who publishes holds p.lock as a reader, so that no subscription  *)
(* ends before its channel has got the event; wg counts the subscriptions.      *)
Event == [action : {"Running", "Done", "added"}, task : {{t} : t \in Task}]
Speech == [event : Event \cup {NoEvent}, rest : Seq(Sub)]
Life == {"new", "opening", "open", "canceled", "closing", "closed"}
PubLocks == [readers : SUBSET Publisher, writer : {{}}, queue : SUBSET Sub]
PubSubShape == /\ plock \in PubLocks
               /\ subs \subseteq Sub /\ IsFiniteSet(subs) /\ wg = Cardinality(subs)
               /\ chan \in [Sub -> Seq(Event)] /\ \A s \in Sub : Len(chan[s]) <= Cap
               /\ life \in [Sub -> Life]
               /\ due \in [Sub -> SUBSET Event]
               /\ pub \in [Publisher -> Speech]
Member == \A s \in Sub : s \in subs <=> life[s] \in {"open", "canceled", "closing"}
Talks(p) == /\ p \in plock.readers <=> pub[p] # Silent
            /\ Range(pub[p].rest) \subseteq subs /\ IsInjective(pub[p].rest)
            /\ \A s \in Range(pub[p].rest) : pub[p].event \in due[s] \ Range(chan[s])
Hears(s) == Range(chan[s]) \subseteq due[s]
PubInv == /\ PubSubShape /\ Member /\ EventsReachTheOpen
          /\ \A p \in Publisher : Talks(p)
          /\ \A s \in Sub : Hears(s)

LEMMA Silence ==
  /\ Silent \in Speech /\ Silent.rest = <<>> /\ Range(Silent.rest) = {} /\ IsInjective(Silent.rest)
  /\ \A e \in Event, r \in Seq(Sub) : [event |-> e, rest |-> r] \in Speech \ {Silent}
<1>1. <<>> \in Seq(Sub) /\ Range(<<>>) = {} /\ IsInjective(<<>>)
  BY EmptySeq DEF Range, IsInjective
<1>2. NoEvent \notin Event
  BY DEF NoEvent, Event
<1>3. QED
  BY <1>1, <1>2 DEF Silent, Speech

LEMMA PubSubInit == Init => PubInv
<1>. SUFFICES ASSUME Init PROVE PubInv
  OBVIOUS
<1>1. /\ plock = Unlocked /\ subs = {} /\ wg = 0
      /\ chan = [s \in Sub |-> <<>>] /\ life = [s \in Sub |-> "new"]
      /\ due = [s \in Sub |-> {}] /\ pub = [p \in Publisher |-> Silent]
  BY DEF Init, PInit
<1>2. <<>> \in Seq(Event) /\ Len(<<>>) = 0 /\ Range(<<>>) = {} /\ IsInjective(<<>>)
  BY EmptySeq DEF Range, IsInjective
<1>3. PubSubShape
  BY <1>1, <1>2, Silence, FS_EmptySet, CapAssumption DEF PubSubShape, PubLocks, Unlocked, Life
<1>4. Member /\ EventsReachTheOpen /\ \A s \in Sub : Hears(s)
  BY <1>1, <1>2 DEF Member, EventsReachTheOpen, Hears
<1>5. \A p \in Publisher : Talks(p)
  BY <1>1, Silence DEF Talks, Unlocked
<1>6. QED
  BY <1>3, <1>4, <1>5 DEF PubInv

-----------------------------------------------------------------------------
(* While a publisher is at work, the map of subscribers stays.                   *)
LEMMA WritersWait ==
  ASSUME PubInv, NEW s \in Sub, MayWrite(plock, s)
  PROVE  \A p \in Publisher : pub[p] = Silent
BY DEF PubInv, Talks, MayWrite

LEMMA SubscribersKeep ==
  ASSUME PubInv, NEW s \in Sub, SubscribeWant(s) \/ CancelCtx(s) \/ CloseWant(s) \/ Subscribe(s) \/ Close(s)
  PROVE  PubInv' /\ UNCHANGED <<chan, due, pub>>
<1>1. UNCHANGED <<chan, due, pub>>
  BY DEF SubscribeWant, CancelCtx, CloseWant, Subscribe, Close
<1>2. EventsReachTheOpen' /\ \A r \in Sub : Hears(r)'
  BY <1>1 DEF PubInv, EventsReachTheOpen, Hears
<1>3. CASE SubscribeWant(s) \/ CancelCtx(s) \/ CloseWant(s)
  <2>1. UNCHANGED <<subs, wg>> /\ \E l \in {"opening", "canceled", "closing"} : life' = [life EXCEPT ![s] = l]
    BY <1>3 DEF SubscribeWant, CancelCtx, CloseWant, Become
  <2>2. plock' \in {plock, Want(plock, s)}
    BY <1>3 DEF SubscribeWant, CancelCtx, CloseWant
  <2>3. /\ plock' \in PubLocks
        /\ plock'.readers = plock.readers
    <3>1. \A m \in PubLocks : Want(m, s) \in PubLocks /\ Want(m, s).readers = m.readers
      BY DEF Want, PubLocks
    <3>2. QED
      BY <2>2, <3>1 DEF PubInv, PubSubShape
  <2>4. PubSubShape'
    BY <1>1, <2>1, <2>3 DEF PubInv, PubSubShape, Life
  <2>5. Member'
    BY <1>3, <2>1 DEF PubInv, PubSubShape, Member, SubscribeWant, CancelCtx, CloseWant, Become
  <2>6. \A p \in Publisher : Talks(p)'
    BY <1>1, <2>1, <2>3 DEF PubInv, Talks
  <2>7. QED
    BY <1>1, <1>2, <2>4, <2>5, <2>6 DEF PubInv
<1>4. CASE Subscribe(s) \/ Close(s)
  <2>1. MayWrite(plock, s) /\ plock' = [plock EXCEPT !.queue = @ \ {s}]
    BY <1>4 DEF Subscribe, Close
  <2>2. /\ plock' \in PubLocks
        /\ plock'.readers = plock.readers
    BY <2>1 DEF PubInv, PubSubShape, PubLocks
  <2>3. \A p \in Publisher : pub[p] = Silent /\ pub'[p] = Silent
    BY <1>1, <2>1, WritersWait
  <2>4. \A p \in Publisher : Talks(p)'
    BY <1>1, <2>2, <2>3, Silence DEF PubInv, Talks
  <2>5. Cardinality(subs) \in Nat
    BY FS_CardinalityType DEF PubInv, PubSubShape
  <2>6. /\ subs' \subseteq Sub /\ IsFiniteSet(subs') /\ wg' = Cardinality(subs')
        /\ life' \in [Sub -> Life] /\ Member'
    <3>1. CASE Subscribe(s)
      <4>1. s \notin subs
        BY <3>1 DEF PubInv, Member, Subscribe
      <4>2. subs' = subs \cup {s} /\ wg' = wg + 1 /\ life' = [life EXCEPT ![s] = "open"]
        BY <3>1 DEF Subscribe, Become
      <4>3. IsFiniteSet(subs') /\ Cardinality(subs') = Cardinality(subs) + 1
        BY <4>1, <4>2, FS_AddElement DEF PubInv, PubSubShape
      <4>4. QED
        BY <4>1, <4>2, <4>3 DEF PubInv, PubSubShape, Member, Life
    <3>2. CASE Close(s)
      <4>1. s \in subs
        BY <3>2 DEF PubInv, Member, Close
      <4>2. subs' = subs \ {s} /\ wg' = wg - 1 /\ life' = [life EXCEPT ![s] = "closed"]
        BY <3>2 DEF Close, Become
      <4>3. IsFiniteSet(subs') /\ Cardinality(subs') = Cardinality(subs) - 1
        BY <4>1, <4>2, FS_RemoveElement DEF PubInv, PubSubShape
      <4>4. QED
        BY <4>1, <4>2, <4>3 DEF PubInv, PubSubShape, Member, Life
    <3>3. QED
      BY <1>4, <3>1, <3>2
  <2>7. PubSubShape'
    BY <1>1, <2>2, <2>6 DEF PubInv, PubSubShape
  <2>8. QED
    BY <1>1, <1>2, <2>4, <2>6, <2>7 DEF PubInv
<1>5. QED
  BY <1>3, <1>4

(* Nothing comes back: what was received, or is in a channel, is so for good.    *)
Less == \A s \in Sub : /\ due'[s] \subseteq due[s]
                       /\ due'[s] \ Range(chan'[s]) \subseteq due[s] \ Range(chan[s])

LEMMA ReceiveKeeps ==
  ASSUME PubInv, NEW s \in Sub, Receive(s)
  PROVE  PubInv' /\ Less
<1>. DEFINE h == Head(chan[s])
<1>1. chan[s] \in Seq(Event) /\ chan[s] # <<>> /\ IsInjective(chan[s])
  BY DEF PubInv, PubSubShape, Receive, EventsReachTheOpen
<1>2. /\ h \in Event /\ Tail(chan[s]) \in Seq(Event) /\ Len(Tail(chan[s])) = Len(chan[s]) - 1
      /\ Range(chan[s]) = Range(Tail(chan[s])) \cup {h}
      /\ IsInjective(Tail(chan[s])) /\ h \notin Range(Tail(chan[s]))
  BY <1>1, TailFacts
<1>3. /\ due' = [due EXCEPT ![s] = @ \ {h}] /\ chan' = [chan EXCEPT ![s] = Tail(@)]
      /\ UNCHANGED <<plock, subs, wg, life, pub>>
  BY DEF Receive
<1>. HIDE DEF h
<1>4. /\ due' \in [Sub -> SUBSET Event] /\ chan' \in [Sub -> Seq(Event)]
      /\ due'[s] = due[s] \ {h} /\ chan'[s] = Tail(chan[s])
      /\ \A r \in Sub \ {s} : due'[r] = due[r] /\ chan'[r] = chan[r]
  BY <1>2, <1>3 DEF PubInv, PubSubShape
<1>5. Len(chan[s]) \in Nat
  BY <1>1, LenProperties
<1>6. PubSubShape' /\ Member'
  BY <1>2, <1>3, <1>4, <1>5, CapAssumption DEF PubInv, PubSubShape, Member
<1>7. ASSUME NEW r \in Sub PROVE due'[r] \ Range(chan'[r]) = due[r] \ Range(chan[r])
  <2>1. CASE r = s
    BY <1>2, <1>4, <2>1
  <2>2. CASE r # s
    BY <1>4, <2>2
  <2>3. QED
    BY <2>1, <2>2
<1>8. ASSUME NEW r \in Sub PROVE Hears(r)' /\ IsInjective(chan'[r])
  <2>1. Range(chan[r]) \subseteq due[r] /\ IsInjective(chan[r])
    BY DEF PubInv, Hears, EventsReachTheOpen
  <2>2. CASE r = s
    BY <1>2, <1>4, <2>1, <2>2 DEF Hears
  <2>3. CASE r # s
    BY <1>4, <2>1, <2>3 DEF Hears
  <2>4. QED
    BY <2>2, <2>3
<1>9. EventsReachTheOpen'
  BY <1>3, <1>7, <1>8 DEF PubInv, EventsReachTheOpen
<1>10. \A p \in Publisher : Talks(p)'
  BY <1>3, <1>7 DEF PubInv, Talks, PubSubShape
<1>11. Less
  BY <1>4, <1>7 DEF Less
<1>12. QED
  BY <1>6, <1>8, <1>9, <1>10, <1>11 DEF PubInv

-----------------------------------------------------------------------------
(* Publish: it reads the map once, gives the event to one channel after another, *)
(* and lets the lock go when there is none left.                                *)
LEMMA BeginKeeps ==
  ASSUME PubInv, NEW p \in Publisher, NEW e \in Event, \A s \in subs : e \notin due[s],
         PublishBegin(p, e)
  PROVE  /\ PubInv' /\ chan' = chan
         /\ pub[p] = Silent /\ pub'[p] # Silent /\ pub'[p].event = e
         /\ \A q \in Publisher \ {p} : pub'[q] = pub[q]
         /\ \A s \in Sub : due[s] \subseteq due'[s] /\ due'[s] \subseteq due[s] \cup {e}
<1>1. PICK order \in SetToSeqs(subs) : pub' = [pub EXCEPT ![p] = [event |-> e, rest |-> order]]
  BY DEF PublishBegin, Speak
<1>2. order \in Seq(subs) /\ Range(order) = subs /\ IsInjective(order)
  BY OrderFacts DEF PubInv, PubSubShape
<1>3. order \in Seq(Sub)
  BY <1>2, SeqMonotonic DEF PubInv, PubSubShape
<1>. DEFINE new == [event |-> e, rest |-> order]
<1>4. new \in Speech \ {Silent} /\ new.event = e /\ new.rest = order
  BY <1>3, Silence
<1>5. pub' = [pub EXCEPT ![p] = new]
  BY <1>1
<1>. HIDE DEF new
<1>6. /\ pub' \in [Publisher -> Speech] /\ pub'[p] = new
      /\ \A q \in Publisher \ {p} : pub'[q] = pub[q]
  BY <1>4, <1>5 DEF PubInv, PubSubShape
<1>7. pub[p] = Silent /\ plock' = RLock(plock, p) /\ UNCHANGED <<subs, chan, wg, life>>
  BY DEF PublishBegin
<1>8. /\ due' \in [Sub -> SUBSET Event]
      /\ \A s \in subs : due'[s] = due[s] \cup {e}
      /\ \A s \in Sub \ subs : due'[s] = due[s]
  <2>1. due' = [s \in Sub |-> due[s] \cup IF s \in subs THEN {e} ELSE {}]
    BY DEF PublishBegin
  <2>2. QED
    BY <2>1 DEF PubInv, PubSubShape
<1>8a. \A s \in Sub : due[s] \subseteq due'[s] /\ due'[s] \subseteq due[s] \cup {e}
  BY <1>8 DEF PubInv, PubSubShape
<1>9. plock' \in PubLocks /\ plock'.readers = plock.readers \cup {p}
  BY <1>7 DEF RLock, PubInv, PubSubShape, PubLocks
<1>10. PubSubShape' /\ Member'
  BY <1>6, <1>7, <1>8, <1>9 DEF PubInv, PubSubShape, Member
<1>11. \A s \in Sub : Hears(s)'
  BY <1>7, <1>8a DEF PubInv, Hears
<1>12. ASSUME NEW q \in Publisher PROVE Talks(q)'
  <2>1. CASE q = p
    <3>1. \A s \in subs : e \in due'[s] \ Range(chan'[s])
      BY <1>7, <1>8 DEF PubInv, PubSubShape, Hears
    <3>2. QED
      BY <1>2, <1>4, <1>6, <1>7, <1>9, <2>1, <3>1 DEF Talks
  <2>2. CASE q # p
    <3>1. pub'[q] = pub[q] /\ Talks(q)
      BY <1>6, <2>2 DEF PubInv
    <3>2. Range(pub[q].rest) \subseteq Sub
      BY <3>1 DEF Talks, PubInv, PubSubShape
    <3>3. \A s \in Range(pub[q].rest) : pub'[q].event \in due'[s] \ Range(chan'[s])
      BY <1>7, <1>8a, <3>1, <3>2 DEF Talks
    <3>4. QED
      BY <1>7, <1>9, <2>2, <3>1, <3>3 DEF Talks
  <2>3. QED
    BY <2>1, <2>2
<1>13. EventsReachTheOpen'
  <2>1. ASSUME NEW s \in Sub, NEW x \in due'[s] \ Range(chan'[s])
        PROVE  \E q \in Publisher : pub'[q].event = x /\ s \in Range(pub'[q].rest)
    <3>1. CASE x \in due[s]
      <4>1. PICK q \in Publisher : pub[q].event = x /\ s \in Range(pub[q].rest)
        BY <1>7, <2>1, <3>1 DEF PubInv, EventsReachTheOpen
      <4>2. q # p
        BY <1>7, <4>1, Silence
      <4>3. QED
        BY <1>6, <4>1, <4>2
    <3>2. CASE x \notin due[s]
      BY <1>2, <1>4, <1>6, <1>8, <2>1, <3>2
    <3>3. QED
      BY <3>1, <3>2
  <2>2. \A s \in Sub : IsInjective(chan'[s])
    BY <1>7 DEF PubInv, EventsReachTheOpen
  <2>3. QED
    BY <2>1, <2>2 DEF EventsReachTheOpen
<1>14. QED
  BY <1>4, <1>6, <1>7, <1>8a, <1>10, <1>11, <1>12, <1>13 DEF PubInv

LEMMA SendKeeps ==
  ASSUME PubInv, NEW p \in Publisher, PublishSend(p),
         \A q \in Publisher \ {p} : pub[q] # Silent => pub[q].event # pub[p].event
  PROVE  /\ PubInv' /\ Less
         /\ \A q \in Publisher : pub'[q] = Silent <=> pub[q] = Silent
         /\ \A q \in Publisher : pub'[q].event = pub[q].event
<1>. DEFINE e == pub[p].event
            r == pub[p].rest
            h == Head(r)
            new == [event |-> e, rest |-> Tail(r)]
            c == Append(chan[h], e)
<1>1. /\ r # <<>> /\ Len(chan[h]) < Cap
      /\ chan' = [chan EXCEPT ![h] = c] /\ pub' = [pub EXCEPT ![p] = new]
      /\ UNCHANGED <<plock, subs, wg, life, due>>
  BY DEF PublishSend, Speak
<1>2. pub[p] # Silent /\ r \in Seq(Sub) /\ Talks(p) /\ e \in Event \cup {NoEvent}
  BY <1>1, Silence DEF PubInv, PubSubShape, Speech
<1>3. /\ h \in Sub /\ Tail(r) \in Seq(Sub) /\ Range(r) = Range(Tail(r)) \cup {h}
      /\ IsInjective(Tail(r)) /\ h \notin Range(Tail(r))
  BY <1>1, <1>2, TailFacts DEF Talks
<1>4. e \in due[h] \ Range(chan[h]) /\ e \in Event
  BY <1>2, <1>3 DEF Talks, PubInv, PubSubShape
<1>5. new \in Speech \ {Silent} /\ new.event = e /\ new.rest = Tail(r)
  BY <1>3, <1>4, Silence
<1>6. /\ c \in Seq(Event) /\ Len(c) = Len(chan[h]) + 1
      /\ Range(c) = Range(chan[h]) \cup {e} /\ IsInjective(c)
  BY <1>3, <1>4, AppendFacts DEF PubInv, PubSubShape, EventsReachTheOpen
<1>. HIDE DEF c, new, h, r, e
<1>7. /\ pub' \in [Publisher -> Speech] /\ pub'[p] = new
      /\ \A q \in Publisher \ {p} : pub'[q] = pub[q]
  BY <1>1, <1>5 DEF PubInv, PubSubShape
<1>8. /\ chan' \in [Sub -> Seq(Event)] /\ chan'[h] = c
      /\ \A s \in Sub \ {h} : chan'[s] = chan[s]
  BY <1>1, <1>3, <1>6 DEF PubInv, PubSubShape
<1>9. Len(chan[h]) \in Nat
  BY <1>3, LenProperties DEF PubInv, PubSubShape
<1>10. PubSubShape' /\ Member'
  BY <1>1, <1>6, <1>7, <1>8, <1>9, CapAssumption DEF PubInv, PubSubShape, Member
<1>11. \A s \in Sub : IsInjective(chan'[s]) /\ Hears(s)'
  BY <1>1, <1>4, <1>6, <1>8 DEF PubInv, Hears, EventsReachTheOpen
<1>12. ASSUME NEW q \in Publisher PROVE Talks(q)'
  <2>1. CASE q = p
    <3>1. ASSUME NEW s \in Range(Tail(r)) PROVE e \in due'[s] \ Range(chan'[s])
      <4>1. s # h /\ s \in Range(r)
        BY <1>3
      <4>2. s \in Sub /\ e \in due[s] \ Range(chan[s])
        BY <1>2, <4>1 DEF Talks, PubInv, PubSubShape, e, r
      <4>3. QED
        BY <1>1, <1>8, <4>1, <4>2
    <3>2. Range(Tail(r)) \subseteq subs'
      BY <1>1, <1>2, <1>3 DEF Talks, r
    <3>3. p \in plock'.readers
      BY <1>1, <1>2 DEF Talks
    <3>4. QED
      BY <1>3, <1>5, <1>7, <2>1, <3>1, <3>2, <3>3 DEF Talks
  <2>2. CASE q # p
    <3>1. pub'[q] = pub[q] /\ Talks(q)
      BY <1>7, <2>2 DEF PubInv
    <3>2. ASSUME NEW s \in Range(pub[q].rest) PROVE pub[q].event \in due'[s] \ Range(chan'[s])
      <4>1. s \in Sub /\ pub[q].event \in due[s] \ Range(chan[s]) /\ pub[q] # Silent
        BY <3>1, Silence DEF Talks, PubInv, PubSubShape
      <4>2. pub[q].event # e
        BY <2>2, <4>1 DEF e
      <4>3. QED
        BY <1>1, <1>6, <1>8, <4>1, <4>2
    <3>3. QED
      BY <1>1, <3>1, <3>2 DEF Talks
  <2>3. QED
    BY <2>1, <2>2
<1>13. \A s \in Sub : due'[s] = due[s] /\ Range(chan[s]) \subseteq Range(chan'[s])
  BY <1>1, <1>6, <1>8
<1>14. EventsReachTheOpen'
  <2>1. ASSUME NEW s \in Sub, NEW x \in due'[s] \ Range(chan'[s])
        PROVE  \E q \in Publisher : pub'[q].event = x /\ s \in Range(pub'[q].rest)
    <3>1. x \in due[s] \ Range(chan[s])
      BY <1>13, <2>1
    <3>2. PICK q \in Publisher : pub[q].event = x /\ s \in Range(pub[q].rest)
      BY <3>1 DEF PubInv, EventsReachTheOpen
    <3>3. CASE q = p
      <4>1. s # h
        BY <1>6, <1>8, <2>1, <3>2, <3>3 DEF e
      <4>2. s \in Range(Tail(r))
        BY <1>3, <3>2, <3>3, <4>1 DEF r
      <4>3. QED
        BY <1>5, <1>7, <3>2, <3>3, <4>2 DEF e
    <3>4. CASE q # p
      BY <1>7, <3>2, <3>4
    <3>5. QED
      BY <3>3, <3>4
  <2>2. QED
    BY <1>11, <2>1 DEF EventsReachTheOpen
<1>15. Less
  BY <1>13 DEF Less
<1>16. QED
  BY <1>2, <1>5, <1>7, <1>10, <1>11, <1>12, <1>14, <1>15 DEF PubInv, e

LEMMA EndKeeps ==
  ASSUME PubInv, NEW p \in Publisher, PublishEnd(p)
  PROVE  /\ PubInv' /\ UNCHANGED <<chan, due>>
         /\ pub[p].rest = <<>> /\ pub'[p] = Silent
         /\ \A q \in Publisher \ {p} : pub'[q] = pub[q]
<1>1. /\ pub[p].rest = <<>> /\ plock' = RUnlock(plock, p)
      /\ pub' = [pub EXCEPT ![p] = Silent] /\ UNCHANGED <<subs, chan, wg, life, due>>
  BY DEF PublishEnd
<1>2. /\ pub' \in [Publisher -> Speech] /\ pub'[p] = Silent
      /\ \A q \in Publisher \ {p} : pub'[q] = pub[q]
  BY <1>1, Silence DEF PubInv, PubSubShape
<1>3. plock' \in PubLocks /\ plock'.readers = plock.readers \ {p}
  BY <1>1 DEF RUnlock, PubInv, PubSubShape, PubLocks
<1>4. PubSubShape' /\ Member' /\ \A s \in Sub : Hears(s)'
  BY <1>1, <1>2, <1>3 DEF PubInv, PubSubShape, Member, Hears
<1>5. \A q \in Publisher : Talks(q)'
  BY <1>1, <1>2, <1>3, Silence DEF PubInv, Talks
<1>6. Range(pub[p].rest) = {}
  BY <1>1, Silence
<1>7. EventsReachTheOpen'
  BY <1>1, <1>2, <1>6 DEF PubInv, EventsReachTheOpen
<1>8. QED
  BY <1>1, <1>2, <1>4, <1>5, <1>7 DEF PubInv

-----------------------------------------------------------------------------
(* What the goroutines are about.  execTask is called for a task that nobody     *)
(* watches yet, and so does it no second time: a task that waits, or is not      *)
(* there, is not watched; what a ForEach still has to visit, or what it saw      *)
(* waiting, is not either.                                                      *)
Executing == InExec \cup {"lock"}
Scans(p) == /\ at[p] \in Executing \cup {"visit", "ready"}
            /\ \A t \in Task : scan[p].view[t] # Absent => kv[t] # Absent
            /\ at[p] = "ready" => \A t \in Task : scan[p].view[t] = "Waiting" => at[t] = "off"
            /\ at[p] # "ready" => \A t \in scan[p].rest : at[t] = "off"
            /\ at[p] \in Executing => chosen \notin scan[p].rest
OnceBy(p) == /\ at[p] \in Executing => at[chosen] = "off" /\ kv[chosen] # Absent
             /\ at[p] \in {"event", "publish"} => kv[chosen] = "Running"
             /\ scan[p].on => Scans(p)
Once == /\ \A t \in Task : kv[t] \in {Absent, "Waiting"} => at[t] = "off"
        /\ at["main"] = "load" => \A t \in Task : at[t] = "off"
        /\ at["add"] \in {"off", "put", "refused"} => kv[Added] = Absent
        /\ \A p \in Executor : OnceBy(p)

(* Each goroutine publishes one event.                                          *)
Says(g) == IF g \in Executor THEN Evt("Running", chosen)
           ELSE IF g = "add" THEN Evt("added", Added) ELSE Evt("Done", g)
Spoken == \A g \in Goroutine : /\ pub[g] = Silent <=> at[g] # "publish"
                               /\ at[g] = "publish" => pub[g].event = Says(g)

(* Nobody has got an event before it is published, and a task that is watched    *)
(* has been announced to all.                                                   *)
Announced(t) == at[t] # "off" \/ \E p \in Executor : at[p] = "publish" /\ chosen = t
Unsaid(s) ==
  /\ \A t \in Task : at[t] \in {"off", "wait", "event"} => Evt("Done", t) \notin due[s]
  /\ at["add"] \notin {"publish", "returned"} => Evt("added", Added) \notin due[s]
  /\ \A t \in Task : ~Announced(t) => Evt("Running", t) \notin due[s]
  /\ \A t \in Task : at[t] # "off" => Evt("Running", t) \notin due[s] \ Range(chan[s])

SaidInv == Spoken /\ \A s \in Sub : Unsaid(s)
FlowInv == LifeInv /\ StoreInv /\ PubInv /\ Once /\ SaidInv

LEMMA Events ==
  /\ \A a \in {"Running", "Done", "added"}, t \in Task : Evt(a, t) \in Event
  /\ \A a, b, t, u : Evt(a, t) = Evt(b, u) => a = b /\ t = u
BY DEF Evt, Event

LEMMA Rests ==
  ASSUME StoreInv, NEW p \in Executor
  PROVE  p \in Scanner /\ scan[p].rest \subseteq Task
BY ServiceAssumption DEF StoreInv, StoreType, Scan, Executor

LEMMA OneExecutor ==
  ASSUME LifeInv, NEW p \in Executor, at[p] \in Turn \cup {"load"},
         NEW q \in Executor, at[q] \in Turn \cup {"load"}
  PROVE  p = q
BY DEF LifeInv, Counted, Executor, Turn, InExec, AfterStart

LEMMA OtherRests ==
  ASSUME LifeInv, Once, NEW p \in Executor, at[p] \in Turn \cup {"load"}, NEW q \in Executor \ {p}
  PROVE  at[q] \notin Turn \cup {"load"} /\ ~scan[q].on
<1>1. at[q] \notin Turn \cup {"load"}
  BY OneExecutor
<1>2. scan[q].on => at[q] \in Turn
  BY DEF Once, OnceBy, Scans, Turn, Executing
<1>3. QED
  BY <1>1, <1>2

LEMMA FlowInit == Init => FlowInv
<1>. SUFFICES ASSUME Init PROVE FlowInv
  OBVIOUS
<1>1. /\ \A g \in Goroutine : at[g] = IF g = "main" THEN "load" ELSE "off"
      /\ \A p \in Publisher : pub[p] = Silent
      /\ \A s \in Sub : due[s] = {}
      /\ \A p \in Scanner : ~scan[p].on
      /\ kv[Added] = Absent
  BY ServiceAssumption DEF Init, PInit, SInit, NoScan, Task
<1>2. \A t \in Task : at[t] = "off"
  BY <1>1, Names
<1>3. Once
  BY <1>1, <1>2, Names, ServiceAssumption DEF Once, OnceBy, Executor, Executing, InExec
<1>4. SaidInv
  BY <1>1, ServiceAssumption DEF SaidInv, Spoken, Unsaid
<1>5. QED
  BY <1>3, <1>4, LifeInit, StoreInit, PubSubInit DEF FlowInv

-----------------------------------------------------------------------------
(* Most steps leave what Once is about alone.                                    *)
Same(p) == \/ at'[p] = at[p]
           \/ at[p] = "lock" /\ at'[p] \in {"put", "putError"}
           \/ at[p] = "event" /\ at'[p] = "publish"
           \/ {at[p], at'[p]} \cap (Executing \cup {"visit", "ready", "load"}) = {}

LEMMA QuietKeepsOnce ==
  ASSUME Once, StoreInv, UNCHANGED <<kv, scan, chosen>>, chosen \in Task,
         \A t \in Task : at'[t] = at[t] \/ (at[t] # "off" /\ at'[t] # "off"),
         at'["add"] \in {"off", "put", "refused"} => at["add"] \in {"off", "put", "refused"},
         \A p \in Executor : Same(p)
  PROVE  Once'
<1>1. \A t \in Task : at'[t] = "off" <=> at[t] = "off"
  OBVIOUS
<1>2. ASSUME NEW p \in Executor PROVE OnceBy(p)'
  <2>1. /\ at'[p] \in Executing => at[p] \in Executing
        /\ at'[p] \in {"event", "publish"} => at[p] \in {"event", "publish"}
        /\ at'[p] = "ready" <=> at[p] = "ready"
        /\ at[p] \in Executing \cup {"visit", "ready"} => at'[p] \in Executing \cup {"visit", "ready"}
    BY DEF Same, Executing, InExec
  <2>2. at'[p] \in Executing => at'[chosen'] = "off" /\ kv'[chosen'] # Absent
    BY <1>1, <2>1 DEF Once, OnceBy
  <2>3. ASSUME scan'[p].on PROVE Scans(p)'
    <3>1. Scans(p)
      BY <2>3 DEF Once, OnceBy
    <3>2. scan'[p] = scan[p] /\ scan[p].rest \subseteq Task
      BY Rests
    <3>3. (at'[p] \in Executing => chosen' \notin scan'[p].rest)
      BY <2>1, <3>1, <3>2 DEF Scans
    <3>4. at'[p] # "ready" => \A t \in scan'[p].rest : at'[t] = "off"
      BY <1>1, <2>1, <3>1, <3>2 DEF Scans
    <3>5. QED
      BY <1>1, <2>1, <3>1, <3>2, <3>3, <3>4 DEF Scans
  <2>4. QED
    BY <2>1, <2>2, <2>3 DEF Once, OnceBy
<1>3. at'["main"] = "load" => at["main"] = "load"
  BY DEF Same, Executor
<1>4. QED
  BY <1>1, <1>2, <1>3 DEF Once

(* An executor at work is alone: what it changes is seen by itself only.         *)
LEMMA AloneKeepsOnce ==
  ASSUME FlowInv, NEW p \in Executor, at[p] \in Turn \cup {"load"},
         \A q \in Executor \ {p} : at'[q] = at[q] /\ scan'[q] = scan[q],
         OnceBy(p)',
         \A t \in Task : kv'[t] \in {Absent, "Waiting"} => at'[t] = "off",
         at'["main"] # "load", at'["add"] = at["add"], Added # chosen \/ kv[chosen] # Absent,
         \A t \in Task : kv'[t] = kv[t] \/ (t = chosen /\ kv[chosen] # Absent)
  PROVE  Once'
<1>1. ASSUME NEW q \in Executor \ {p} PROVE OnceBy(q)'
  <2>1. at'[q] \notin Turn /\ ~scan'[q].on
    BY OtherRests DEF FlowInv
  <2>2. QED
    BY <2>1 DEF OnceBy, Turn, Executing, InExec
<1>2. at["add"] \in {"off", "put", "refused"} => kv'[Added] = Absent
  BY DEF FlowInv, Once, Task
<1>3. QED
  BY <1>1, <1>2 DEF Once

LEMMA ExecKeepsOnce ==
  ASSUME FlowInv, NEW p \in Executor, ExecTask(p)
  PROVE  Once'
<1>. USE Names
<1>1. /\ p \in Goroutine /\ p # "add" /\ p \notin Task /\ at \in [Goroutine -> Pc] /\ chosen \in Task
      /\ at[p] \in Executing /\ at[p] \in Turn
      /\ kv \in [Key -> Values] /\ Key = Task
  BY ServiceAssumption DEF FlowInv, LifeInv, LifeType, StoreInv, StoreType, Executor, ExecTask, Turn,
     ExecLock, ExecPut, ExecPutError, ExecEvent, ExecWatch, ExecError, Executing, InExec, Goroutine
<1>2. OnceBy(p) /\ at[chosen] = "off" /\ kv[chosen] # Absent
  BY <1>1 DEF FlowInv, Once, OnceBy
<1>3. \A q \in Executor \ {p} : q \in Goroutine /\ q \notin Task
  BY DEF Executor
<1>4. CASE ExecLock(p) \/ ExecEvent(p)
  <2>1. /\ \A g \in Goroutine \ {p} : at'[g] = at[g]
        /\ \/ at[p] = "lock" /\ at'[p] \in {"put", "putError"}
           \/ at[p] = "event" /\ at'[p] = "publish"
    <3>1. CASE ExecLock(p)
      <4>1. PICK pc \in {"put", "putError"} : at' = [at EXCEPT ![p] = pc]
        BY <3>1 DEF ExecLock, Jump
      <4>2. QED
        BY <1>1, <3>1, <4>1 DEF ExecLock
    <3>2. CASE ExecEvent(p)
      BY <1>1, <3>2 DEF ExecEvent, Jump
    <3>3. QED
      BY <1>4, <3>1, <3>2
  <2>2. UNCHANGED <<kv, scan, chosen>>
    BY <1>4 DEF ExecLock, ExecEvent, stVars
  <2>3. \A t \in Task : at'[t] = at[t]
    BY <1>1, <2>1
  <2>4. at'["add"] = at["add"]
    BY <1>1, <2>1
  <2>5. \A q \in Executor : Same(q)
    BY <1>1, <2>1 DEF Same
  <2>6. QED
    BY <1>1, <2>2, <2>3, <2>4, <2>5, QuietKeepsOnce DEF FlowInv
<1>5. CASE ExecPut(p) \/ ExecPutError(p)
  <2>1. PICK v \in {"Running", "Error"}, pc \in {"event", "unlock"} :
           /\ at' = [at EXCEPT ![p] = pc] /\ kv' = [kv EXCEPT ![chosen] = v]
           /\ pc = "event" => v = "Running"
           /\ scan' = scan /\ chosen' = chosen /\ at[p] # "ready"
    BY <1>5 DEF ExecPut, ExecPutError, Write, Jump
  <2>2. /\ at'[p] = pc /\ \A g \in Goroutine \ {p} : at'[g] = at[g]
        /\ kv'[chosen] = v /\ \A t \in Task \ {chosen} : kv'[t] = kv[t]
        /\ v \notin {Absent, "Waiting"}
    BY <1>1, <2>1, ServiceAssumption
  <2>3. \A t \in Task : at'[t] = at[t]
    BY <1>1, <2>2
  <2>4. \A t \in Task : kv'[t] \in {Absent, "Waiting"} => at'[t] = "off"
    BY <2>2, <2>3 DEF FlowInv, Once
  <2>5. scan'[p].on => Scans(p)'
    <3>1. scan[p].on => Scans(p) /\ scan[p].rest \subseteq Task
      BY <1>2, Rests DEF OnceBy, FlowInv
    <3>2. QED
      BY <1>1, <2>1, <2>2, <2>3, <3>1 DEF Scans, Executing, InExec
  <2>6. OnceBy(p)'
    BY <1>1, <1>2, <2>1, <2>2, <2>3, <2>5 DEF OnceBy
  <2>7. at'["main"] # "load" /\ at'["add"] = at["add"]
    BY <1>1, <2>2, OtherRests DEF FlowInv, Executor
  <2>8. \A q \in Executor \ {p} : at'[q] = at[q] /\ scan'[q] = scan[q]
    BY <1>3, <2>1, <2>2
  <2>9. QED
    BY <1>1, <1>2, <2>2, <2>4, <2>6, <2>7, <2>8, AloneKeepsOnce
<1>6. CASE ExecWatch(p) \/ ExecError(p)
  <2>1. /\ at'[p] = AfterExec(p) /\ \A g \in Goroutine \ {p, chosen} : at'[g] = at[g]
        /\ UNCHANGED <<kv, scan, chosen>>
        /\ ExecError(p) => at'[chosen] = at[chosen]
    BY <1>1, <1>6 DEF ExecWatch, ExecError, Jump, stVars
  <2>2. ExecWatch(p) => kv[chosen] = "Running"
    BY <1>2 DEF OnceBy, ExecWatch
  <2>3. \A t \in Task : t # chosen => at'[t] = at[t]
    BY <1>1, <2>1
  <2>4. \A t \in Task : kv'[t] \in {Absent, "Waiting"} => at'[t] = "off"
    BY <1>6, <2>1, <2>2, <2>3, <1>2, ServiceAssumption DEF FlowInv, Once
  <2>5. OnceBy(p)'
    <3>1. at'[p] \in {"visit", "ping"} /\ (scan[p].on => at'[p] = "visit")
      BY <2>1 DEF AfterExec
    <3>2. scan[p].on => Scans(p) /\ scan[p].rest \subseteq Task
      BY <1>2, Rests DEF OnceBy, FlowInv
    <3>3. scan[p].on => \A t \in scan[p].rest : at'[t] = "off"
      BY <1>1, <2>3, <3>2 DEF Scans, Executing, InExec
    <3>4. QED
      BY <2>1, <3>1, <3>2, <3>3 DEF OnceBy, Scans, Executing, InExec
  <2>6. \A q \in Executor \ {p} : at'[q] = at[q] /\ scan'[q] = scan[q]
    BY <1>1, <1>3, <2>1
  <2>7. at'["main"] # "load" /\ at'["add"] = at["add"]
    <3>1. "add" # chosen /\ "main" # chosen
      BY <1>1
    <3>2. AfterExec(p) # "load"
      BY DEF AfterExec
    <3>3. QED
      BY <1>1, <2>1, <3>1, <3>2, OtherRests DEF FlowInv, Executor
  <2>8. QED
    BY <1>1, <1>2, <2>1, <2>4, <2>5, <2>6, <2>7, AloneKeepsOnce
<1>7. QED
  BY <1>4, <1>5, <1>6 DEF ExecTask

LEMMA LookKeepsOnce ==
  ASSUME FlowInv, NEW p \in Executor, OneLoop(p) \/ Visit(p)
  PROVE  Once'
<1>. USE Names
<1>1. /\ p \in Goroutine /\ p # "add" /\ p \notin Task /\ at \in [Goroutine -> Pc]
      /\ at[p] \in {"look", "ready", "ping", "visit"} /\ at[p] \in Turn
      /\ kv' = kv /\ Key = Task /\ Scanner = Executor /\ p \in Scanner
  BY ServiceAssumption DEF FlowInv, LifeInv, LifeType, Executor, Goroutine, Turn,
     OneLoop, LookBegin, LookEnd, LoopPing, Visit, ScanBegin, ScanEnd, ScanNext, stVars
<1>2. OnceBy(p) /\ StoreInv
  BY DEF FlowInv, Once
<1>3. \A q \in Executor \ {p} : q \in Goroutine /\ q \notin Task
  BY DEF Executor
<1>4. ASSUME \A g \in Goroutine \ {p} : at'[g] = at[g], at'[p] # "load", OnceBy(p)',
             \A q \in Executor \ {p} : scan'[q] = scan[q]
      PROVE  Once'
  <2>1. \A t \in Task : at'[t] = at[t]
    BY <1>1, <1>4
  <2>2. at'["add"] = at["add"] /\ at'["main"] # "load"
    BY <1>1, <1>4, OtherRests DEF FlowInv, Executor
  <2>3. ASSUME NEW q \in Executor PROVE OnceBy(q)'
    <3>1. CASE q # p
      <4>1. at'[q] \notin Turn /\ ~scan'[q].on
        BY <1>1, <1>3, <1>4, <3>1, OtherRests DEF FlowInv
      <4>2. QED
        BY <4>1 DEF OnceBy, Turn, Executing, InExec
    <3>2. QED
      BY <1>4, <3>1
  <2>4. QED
    BY <1>1, <2>1, <2>2, <2>3 DEF FlowInv, Once
<1>5. CASE LookBegin(p)
  <2>1. at' = [at EXCEPT ![p] = "ready"] /\ chosen' = chosen
    BY <1>5 DEF LookBegin, Jump
  <2>2. scan' = [scan EXCEPT ![p] = [on |-> TRUE, view |-> kv, rest |-> Present(kv), got |-> {}]]
    BY <1>5 DEF LookBegin, ScanBegin
  <2>3. scan'[p].view = kv /\ \A q \in Executor \ {p} : scan'[q] = scan[q]
    BY <1>1, <1>2, <2>2 DEF StoreInv, StoreType
  <2>4. /\ at'[p] = "ready" /\ \A g \in Goroutine \ {p} : at'[g] = at[g]
        /\ \A t \in Task : at'[t] = at[t]
    BY <1>1, <2>1
  <2>5. \A t \in Task : kv[t] = "Waiting" => at[t] = "off"
    BY DEF FlowInv, Once
  <2>6. OnceBy(p)'
    BY <1>1, <2>3, <2>4, <2>5 DEF OnceBy, Scans, Executing, InExec
  <2>7. QED
    BY <1>4, <2>3, <2>4, <2>6
<1>6. CASE LookEnd(p)
  <2>1. ~scan'[p].on /\ \A q \in Executor \ {p} : scan'[q] = scan[q]
    BY <1>1, <1>2, <1>6, ScanEndKeeps DEF LookEnd
  <2>2. scan[p].on /\ at[p] = "ready" /\ Snapshot(p) /\ Scans(p)
    BY <1>1, <1>2, <1>6 DEF LookEnd, ScanEnd, StoreInv, OnceBy
  <2>3. CASE \E t \in Task : <<t, "Waiting">> \in scan[p].got /\ Exec(p, t, RUnlock(slock, p))
    <3>1. PICK t \in Task : <<t, "Waiting">> \in scan[p].got /\ Exec(p, t, RUnlock(slock, p))
      BY <2>3
    <3>2. scan[p].view[t] = "Waiting"
      BY <2>2, <3>1 DEF Snapshot, Seen
    <3>3. chosen' = t /\ at' = [at EXCEPT ![p] = "lock"]
      BY <3>1 DEF Exec, Jump
    <3>4. at'[p] = "lock" /\ \A g \in Goroutine \ {p} : at'[g] = at[g]
      BY <1>1, <3>3
    <3>5. at'[t] = "off" /\ kv'[t] # Absent
      BY <1>1, <2>2, <3>2, <3>4, ServiceAssumption DEF Scans
    <3>6. OnceBy(p)'
      BY <2>1, <3>3, <3>4, <3>5 DEF OnceBy
    <3>7. QED
      BY <1>4, <2>1, <3>4, <3>6
  <2>4. CASE chosen' = chosen /\ Jump(p, AfterLoop(p))
    <3>1. at'[p] = AfterLoop(p) /\ \A g \in Goroutine \ {p} : at'[g] = at[g]
      BY <1>1, <2>4 DEF Jump
    <3>2. OnceBy(p)' /\ at'[p] # "load"
      BY <2>1, <3>1 DEF OnceBy, AfterLoop, Executing, InExec
    <3>3. QED
      BY <1>4, <2>1, <3>1, <3>2
  <2>5. QED
    BY <1>6, <2>3, <2>4 DEF LookEnd
<1>7. CASE LoopPing(p)
  <2>1. /\ at'[p] = AfterLoop(p) /\ \A g \in Goroutine \ {p} : at'[g] = at[g]
        /\ scan' = scan /\ at[p] = "ping"
    BY <1>1, <1>7 DEF LoopPing, Jump, stVars
  <2>2. ~scan'[p].on
    BY <1>2, <2>1 DEF OnceBy, Scans, Executing, InExec
  <2>3. OnceBy(p)' /\ at'[p] # "load"
    BY <2>1, <2>2 DEF OnceBy, AfterLoop, Executing, InExec
  <2>4. QED
    BY <1>4, <2>1, <2>3
<1>8. CASE Visit(p)
  <2>1. PICK k \in Key : /\ ScanNext(p, k)
                         /\ IF at[p] = "visit" /\ Value(p, k) = "Running"
                            THEN Exec(p, k, slock)
                            ELSE UNCHANGED <<chosen, at, slock>>
    BY <1>8 DEF Visit
  <2>2. /\ scan[p].on /\ Value(p, k) = scan[p].view[k] /\ k \in scan[p].rest
        /\ scan'[p].on /\ scan'[p].view = scan[p].view /\ scan'[p].rest = scan[p].rest \ {k}
        /\ \A q \in Executor \ {p} : scan'[q] = scan[q]
    <3>1. ScanNext(p, k) /\ k \in scan[p].rest
      BY <2>1 DEF ScanNext
    <3>2. QED
      BY <1>1, <1>2, <3>1, ScanNextKeeps
  <2>3. Scans(p) /\ at[p] \in {"visit", "ready"} /\ scan[p].rest \subseteq Task
    BY <1>2, <1>8, <2>2, Rests DEF OnceBy, Visit
  <2>4. CASE at[p] = "visit" /\ Value(p, k) = "Running"
    <3>1. chosen' = k /\ at' = [at EXCEPT ![p] = "lock"]
      BY <2>1, <2>4 DEF Exec, Jump
    <3>2. at'[p] = "lock" /\ \A g \in Goroutine \ {p} : at'[g] = at[g]
      BY <1>1, <3>1
    <3>3. \A t \in Task : at'[t] = at[t]
      BY <1>1, <3>2
    <3>4. k \in Task /\ at'[k] = "off" /\ kv'[k] # Absent
      BY <1>1, <2>2, <2>3, <2>4, <3>3, ServiceAssumption DEF Scans
    <3>5. Scans(p)'
      BY <1>1, <2>2, <2>3, <2>4, <3>1, <3>2, <3>3 DEF Scans, Executing
    <3>6. OnceBy(p)'
      BY <3>1, <3>2, <3>4, <3>5 DEF OnceBy
    <3>7. QED
      BY <1>4, <2>2, <3>2, <3>6
  <2>5. CASE ~(at[p] = "visit" /\ Value(p, k) = "Running")
    <3>1. at' = at /\ chosen' = chosen
      BY <2>1, <2>5
    <3>2. OnceBy(p)'
      BY <1>1, <2>2, <2>3, <3>1 DEF OnceBy, Scans, Executing, InExec
    <3>3. QED
      BY <1>1, <1>4, <2>2, <3>1, <3>2
  <2>6. QED
    BY <2>4, <2>5
<1>9. QED
  BY <1>5, <1>6, <1>7, <1>8 DEF OneLoop

LEMMA LifeKeepsOnce ==
  ASSUME FlowInv, Main \/ Loop \/ Cancel
  PROVE  Once'
<1>. USE Names
<1>1. /\ at \in [Goroutine -> Pc] /\ chosen \in Task /\ Key = Task /\ Scanner = Executor
      /\ Executor = {"main", "loop"} /\ StoreInv /\ Once
      /\ "main" # "add" /\ "loop" # "add"
  BY ServiceAssumption DEF FlowInv, LifeInv, LifeType, Executor
<1>2. CASE LoadBegin
  <2>1. /\ at' = [at EXCEPT !["main"] = "visit"] /\ at["main"] = "load"
        /\ kv' = kv /\ chosen' = chosen
        /\ scan' = [scan EXCEPT !["main"] = [on |-> TRUE, view |-> kv, rest |-> Present(kv), got |-> {}]]
    BY <1>2 DEF LoadBegin, ScanBegin, Jump
  <2>2. scan'["main"].view = kv /\ scan'["main"].rest = Present(kv) /\ scan'["loop"] = scan["loop"]
    BY <1>1, <2>1 DEF StoreInv, StoreType
  <2>3. at'["main"] = "visit" /\ \A g \in Goroutine \ {"main"} : at'[g] = at[g]
    BY <1>1, <2>1
  <2>4. \A t \in Task : at'[t] = "off" /\ at[t] = "off"
    BY <1>1, <2>1, <2>3 DEF Once
  <2>5. Present(kv) \subseteq Task
    BY <1>1 DEF Present, StoreInv, StoreType
  <2>6. OnceBy("main")'
    BY <2>1, <2>2, <2>3, <2>4, <2>5 DEF OnceBy, Scans, Executing, InExec
  <2>7. OnceBy("loop")'
    <3>1. at["loop"] \notin Turn /\ ~scan["loop"].on
      BY <1>1, <2>1, OtherRests DEF FlowInv
    <3>2. at'["loop"] \notin Turn /\ ~scan'["loop"].on
      BY <2>2, <2>3, <3>1
    <3>3. QED
      BY <3>2 DEF OnceBy, Turn, Executing, InExec
  <2>8. QED
    BY <1>1, <2>1, <2>3, <2>4, <2>6, <2>7 DEF Once
<1>3. CASE LoadEnd
  <2>1. /\ at' = [at EXCEPT !["main"] = "look"] /\ kv' = kv /\ chosen' = chosen
        /\ ScanEnd("main")
    BY <1>3 DEF LoadEnd, ScanEnd, Jump
  <2>2. ~scan'["main"].on /\ scan'["loop"] = scan["loop"]
    BY <1>1, <2>1, ScanEndKeeps
  <2>3. at'["main"] = "look" /\ \A g \in Goroutine \ {"main"} : at'[g] = at[g]
    BY <1>1, <2>1
  <2>4. \A t \in Task : at'[t] = at[t]
    BY <2>3
  <2>5. OnceBy("main")'
    BY <2>2, <2>3 DEF OnceBy, Executing, InExec
  <2>6. OnceBy("loop")'
    <3>1. at["loop"] \notin Turn /\ ~scan["loop"].on
      BY <1>1, <1>3, OtherRests DEF FlowInv, LoadEnd, Turn
    <3>2. at'["loop"] \notin Turn /\ ~scan'["loop"].on
      BY <2>2, <2>3, <3>1
    <3>3. QED
      BY <3>2 DEF OnceBy, Turn, Executing, InExec
  <2>7. QED
    BY <1>1, <2>1, <2>3, <2>4, <2>5, <2>6 DEF Once
<1>4. CASE StartLoop \/ StartFlag \/ WaitStop \/ Loop \/ Cancel
  <2>1. UNCHANGED <<kv, scan, chosen>>
    BY <1>4 DEF StartLoop, StartFlag, WaitStop, Loop, Select, LoopSync, LoopDone, Cancel, stVars
  <2>2. \A g \in Goroutine \ {"main", "loop"} : at'[g] = at[g]
    BY <1>1, <1>4 DEF StartLoop, StartFlag, WaitStop, Loop, Select, LoopSync, LoopDone, Cancel, Jump
  <2>3. \A q \in Executor : Same(q)
    <3>. DEFINE none == Executing \cup {"visit", "ready", "load"}
    <3>1. CASE StartLoop
      <4>1. at["loop"] = "off"
        BY <3>1 DEF StartLoop, FlowInv, LifeInv, Counted, AfterStart
      <4>2. at["main"] = "start" /\ at'["main"] = "startFlag" /\ at'["loop"] = "select"
        BY <1>1, <3>1 DEF StartLoop
      <4>3. QED
        BY <1>1, <4>1, <4>2 DEF Same, Executing, InExec
    <3>2. CASE StartFlag \/ WaitStop \/ Cancel
      <4>1. /\ at'["loop"] = at["loop"]
            /\ at["main"] \in {"startFlag", "waitStop", "waiting", "serve"}
            /\ at'["main"] \in {"serve", "waiting", "panic", "stopped", "waitStop"}
        BY <1>1, <3>2 DEF StartFlag, WaitStop, Cancel, Jump
      <4>2. QED
        BY <1>1, <4>1 DEF Same, Executing, InExec
    <3>3. CASE Loop
      <4>1. /\ at'["main"] = at["main"]
            /\ at["loop"] \in {"select", "sync", "done"}
            /\ at'["loop"] \in {"sync", "look", "done", "ended"}
        BY <1>1, <3>3 DEF Loop, Select, LoopSync, LoopDone, Jump
      <4>2. QED
        BY <1>1, <4>1 DEF Same, Executing, InExec
    <3>4. QED
      BY <1>4, <3>1, <3>2, <3>3
  <2>4. \A t \in Task : at'[t] = at[t]
    BY <2>2
  <2>5. at'["add"] = at["add"]
    BY <1>1, <2>2
  <2>6. QED
    BY <1>1, <2>1, <2>3, <2>4, <2>5, QuietKeepsOnce
<1>5. QED
  BY <1>2, <1>3, <1>4 DEF Main

LEMMA OthersKeepOnce ==
  ASSUME FlowInv,
         \/ \E t \in Task : WatchEnd(t) \/ WatchEvent(t) \/ WatchPing(t)
         \/ Add
  PROVE  Once'
<1>. USE Names
<1>1. /\ at \in [Goroutine -> Pc] /\ chosen \in Task /\ Key = Task /\ Added \in Task
      /\ kv \in [Key -> Values] /\ StoreInv /\ Once
      /\ \A q \in Executor : q \in Goroutine /\ q \notin Task /\ q # "add"
  BY ServiceAssumption DEF FlowInv, LifeInv, LifeType, Executor, Task, StoreInv, StoreType
<1>2. \A t \in Task : t # "add" /\ t \in Goroutine
  OBVIOUS
<1>3. ASSUME NEW g \in Task \cup {"add"}, NEW pc, at' = [at EXCEPT ![g] = pc],
             UNCHANGED <<kv, scan, chosen>>,
             g \in Task => at[g] # "off" /\ pc # "off",
             g = "add" => pc \notin {"off", "put", "refused"} \/ at["add"] \in {"off", "put", "refused"}
      PROVE  Once'
  <2>1. at'[g] = pc /\ \A h \in Goroutine \ {g} : at'[h] = at[h]
    BY <1>1, <1>3
  <2>2. \A t \in Task : at'[t] = at[t] \/ (at[t] # "off" /\ at'[t] # "off")
    BY <1>2, <1>3, <2>1
  <2>3. at'["add"] \in {"off", "put", "refused"} => at["add"] \in {"off", "put", "refused"}
    BY <1>1, <1>3, <2>1
  <2>4. \A q \in Executor : Same(q)
    BY <1>1, <1>3, <2>1 DEF Same
  <2>5. QED
    BY <1>1, <1>3, <2>2, <2>3, <2>4, QuietKeepsOnce
<1>4. ASSUME NEW t \in Task, WatchEvent(t) \/ WatchPing(t) PROVE Once'
  <2>1. PICK pc \in {"publish", "ended"} : at' = [at EXCEPT ![t] = pc]
    BY <1>4 DEF WatchEvent, WatchPing, Jump
  <2>2. UNCHANGED <<kv, scan, chosen>> /\ at[t] # "off"
    BY <1>4 DEF WatchEvent, WatchPing, stVars
  <2>3. QED
    BY <1>2, <1>3, <2>1, <2>2
<1>5. CASE AddCheck \/ AddPing \/ AddEvent \/ AddReturn
  <2>1. PICK pc \in {"put", "refused", "event", "publish", "returned"} : at' = [at EXCEPT !["add"] = pc]
    BY <1>5 DEF AddCheck, AddPing, AddEvent, AddReturn, Jump
  <2>2. UNCHANGED <<kv, scan, chosen>> /\ (pc \in {"put", "refused"} => at["add"] = "off")
    BY <1>1, <1>5, <2>1 DEF AddCheck, AddPing, AddEvent, AddReturn, stVars, Jump
  <2>3. QED
    BY <1>2, <1>3, <2>1, <2>2
<1>6. ASSUME NEW g \in Task \cup {"add"}, NEW k \in Task, NEW v \in {"Waiting", "Done"},
             kv' = [kv EXCEPT ![k] = v], UNCHANGED <<scan, chosen>>,
             \A h \in Goroutine \ {g} : at'[h] = at[h],
             at'[g] # "off", g \in Task => at[g] # "off",
             v = "Waiting" => at[k] = "off" /\ kv[k] = Absent,
             v = "Done" => at[k] # "off",
             at'["add"] \in {"off", "put", "refused"} => at["add"] = at'["add"] /\ k # Added
      PROVE  Once'
  <2>1. \A t \in Task : at'[t] = "off" <=> at[t] = "off"
    BY <1>2, <1>6
  <2>2. /\ kv'[k] = v /\ \A t \in Task \ {k} : kv'[t] = kv[t]
        /\ v # Absent
    BY <1>1, <1>6, ServiceAssumption
  <2>3. \A t \in Task : kv'[t] \in {Absent, "Waiting"} => at'[t] = "off"
    BY <1>1, <1>6, <2>1, <2>2 DEF Once
  <2>4. \A q \in Executor : at'[q] = at[q] /\ scan'[q] = scan[q]
    BY <1>1, <1>6
  <2>5. at'["main"] = "load" => \A t \in Task : at'[t] = "off"
    BY <1>1, <2>1, <2>4 DEF Once, Executor
  <2>6. at'["add"] \in {"off", "put", "refused"} => kv'[Added] = Absent
    BY <1>1, <1>2, <1>6, <2>2 DEF Once
  <2>7. ASSUME NEW q \in Executor PROVE OnceBy(q)'
    <3>1. OnceBy(q)
      BY <1>1 DEF Once
    <3>2. at[q] \in Executing => k # chosen
      BY <1>6, <3>1 DEF OnceBy
    <3>3. scan[q].on => Scans(q) /\ scan[q].rest \subseteq Task
      BY <1>1, <3>1, Rests DEF OnceBy
    <3>4. scan'[q].on => Scans(q)'
      BY <1>6, <2>1, <2>2, <2>4, <3>3 DEF Scans
    <3>5. QED
      BY <1>1, <1>6, <2>1, <2>2, <2>4, <3>1, <3>2, <3>4 DEF OnceBy, Executing, InExec
  <2>8. QED
    BY <2>3, <2>5, <2>6, <2>7 DEF Once
<1>7. ASSUME NEW t \in Task, WatchEnd(t) PROVE Once'
  <2>1. /\ at[t] = "wait" /\ at' = [at EXCEPT ![t] = "event"]
        /\ kv' = [kv EXCEPT ![t] = "Done"] /\ UNCHANGED <<scan, chosen>>
    BY <1>7 DEF WatchEnd, Jump, Write
  <2>2. at'[t] = "event" /\ \A h \in Goroutine \ {t} : at'[h] = at[h]
    BY <1>1, <2>1
  <2>3. at'["add"] \in {"off", "put", "refused"} => at["add"] = at'["add"] /\ t # Added
    <3>1. kv[t] # Absent
      BY <1>1, <2>1 DEF Once
    <3>2. QED
      BY <1>1, <1>2, <2>2, <3>1 DEF Once
  <2>4. QED
    BY <1>6, <2>1, <2>2, <2>3
<1>8. CASE AddPut
  <2>1. /\ at["add"] = "put" /\ at' = [at EXCEPT !["add"] = "ping"]
        /\ kv' = [kv EXCEPT ![Added] = "Waiting"] /\ UNCHANGED <<scan, chosen>>
    BY <1>8 DEF AddPut, Jump, Write
  <2>2. at'["add"] = "ping" /\ \A h \in Goroutine \ {"add"} : at'[h] = at[h]
    BY <1>1, <2>1
  <2>3. kv[Added] = Absent /\ at[Added] = "off"
    BY <1>1, <2>1 DEF Once
  <2>4. QED
    BY <1>1, <1>2, <1>6, <2>1, <2>2, <2>3
<1>9. QED
  BY <1>4, <1>5, <1>7, <1>8 DEF Add

LEMMA OnceNext ==
  ASSUME FlowInv, [Next]_vars
  PROVE  Once'
<1>1. CASE UNCHANGED <<at, kv, scan, chosen>>
  BY <1>1 DEF FlowInv, Once, OnceBy, Scans
<1>2. CASE Goroutines
  <2>1. PICK g \in Goroutine : Run(g)
    BY <1>2 DEF Goroutines
  <2>2. CASE Send(g)
    BY <1>1, <2>2 DEF Send, stVars
  <2>3. QED
    BY <2>1, <2>2, ExecKeepsOnce, LookKeepsOnce, OthersKeepOnce, LifeKeepsOnce DEF Run
<1>3. CASE (\E s \in Sub : Subscriber(s)) \/ UNCHANGED vars
  BY <1>1, <1>3 DEF Subscriber, vars, stVars
<1>4. CASE Cancel
  BY <1>4, LifeKeepsOnce
<1>5. QED
  BY <1>2, <1>3, <1>4 DEF Next

-----------------------------------------------------------------------------
(* What is said, by who says it.                                                *)
LEMMA SpeakersDiffer ==
  ASSUME FlowInv, NEW g \in Goroutine, at[g] = "publish",
         NEW h \in Goroutine, at[h] = "publish", g # h
  PROVE  pub[g].event # pub[h].event
<1>1. pub[g].event = Says(g) /\ pub[h].event = Says(h)
  BY DEF FlowInv, SaidInv, Spoken
<1>2. ~(g \in Executor /\ h \in Executor)
  BY OneExecutor DEF FlowInv, Turn, InExec
<1>3. Says(g) # Says(h)
  BY <1>2, Names, Events DEF Says, Goroutine, Executor
<1>4. QED
  BY <1>1, <1>3

LEMMA SaidStays ==
  ASSUME FlowInv,
         \A g \in Goroutine : /\ at'[g] = "publish" <=> at[g] = "publish"
                              /\ pub'[g] = Silent <=> pub[g] = Silent
                              /\ pub'[g].event = pub[g].event,
         chosen' = chosen \/ \A p \in Executor : at[p] # "publish",
         Less,
         \A t \in Task : /\ at'[t] = "off" <=> at[t] = "off"
                         /\ at'[t] \in {"off", "wait", "event"} => at[t] \in {"off", "wait", "event"},
         at["add"] \in {"publish", "returned"} => at'["add"] \in {"publish", "returned"}
  PROVE  SaidInv'
<1>. USE Names
<1>1. ASSUME NEW g \in Goroutine PROVE (pub'[g] = Silent <=> at'[g] # "publish")
                                        /\ (at'[g] = "publish" => pub'[g].event = Says(g)')
  <2>1. at'[g] = "publish" => Says(g)' = Says(g)
    BY DEF Says
  <2>2. QED
    BY <2>1 DEF FlowInv, SaidInv, Spoken
<1>2. \A t \in Task : Announced(t) => Announced(t)'
  BY DEF Announced, Executor
<1>3. ASSUME NEW s \in Sub PROVE Unsaid(s)'
  <2>1. Unsaid(s) /\ due'[s] \subseteq due[s] /\ due'[s] \ Range(chan'[s]) \subseteq due[s] \ Range(chan[s])
    BY DEF FlowInv, SaidInv, Less
  <2>2. QED
    BY <1>2, <2>1 DEF Unsaid
<1>4. QED
  BY <1>1, <1>3 DEF SaidInv, Spoken

(* A goroutine begins to publish what nobody has got yet.                        *)
LEMMA SaidBegins ==
  ASSUME FlowInv, NEW g \in Goroutine, at[g] # "publish", at' = [at EXCEPT ![g] = "publish"],
         chosen' = chosen, PublishBegin(g, Says(g)), Says(g) \in Event,
         g \in Executor => ~Announced(chosen) /\ \A p \in Executor : p # g => at[p] # "publish",
         g \in Task => at[g] = "event",
         g = "add" => at[g] \notin {"publish", "returned"},
         \A s \in Sub : Says(g) \notin due[s]
  PROVE  PubInv' /\ SaidInv'
<1>. USE Names
<1>1. /\ PubInv' /\ chan' = chan
      /\ pub'[g] # Silent /\ pub'[g].event = Says(g)
      /\ \A h \in Goroutine \ {g} : pub'[h] = pub[h]
      /\ \A s \in Sub : due'[s] \subseteq due[s] \cup {Says(g)}
  <2>1. g \in Publisher /\ Publisher = Goroutine
    BY ServiceAssumption
  <2>2. \A s \in subs : Says(g) \notin due[s]
    BY DEF FlowInv, PubInv, PubSubShape
  <2>3. QED
    BY <2>1, <2>2, BeginKeeps DEF FlowInv
<1>2. at'[g] = "publish" /\ \A h \in Goroutine \ {g} : at'[h] = at[h]
  BY DEF FlowInv, LifeInv, LifeType
<1>3. \A h \in Goroutine : Says(h)' = Says(h)
  BY DEF Says
<1>4. Spoken'
  BY <1>1, <1>2, <1>3 DEF FlowInv, SaidInv, Spoken
<1>5. ASSUME NEW s \in Sub PROVE Unsaid(s)'
  <2>1. Unsaid(s) /\ due'[s] \subseteq due[s] \cup {Says(g)} /\ chan'[s] = chan[s]
    BY <1>1 DEF FlowInv, SaidInv
  <2>2. CASE g \in Executor
    <3>1. /\ Says(g) = Evt("Running", chosen) /\ at'["add"] = at["add"]
          /\ \A t \in Task : at'[t] = at[t]
      BY <1>2, <2>2 DEF Says, Executor
    <3>2. Announced(chosen)' /\ \A t \in Task : Announced(t) => Announced(t)'
      BY <1>2, <2>2 DEF Announced, Executor
    <3>3. at[chosen] = "off"
      BY <2>2 DEF Announced
    <3>4. QED
      BY <2>1, <3>1, <3>2, <3>3, Events DEF Unsaid
  <2>3. CASE g \in Task
    <3>1. /\ Says(g) = Evt("Done", g) /\ at'["add"] = at["add"]
          /\ \A p \in Executor : at'[p] = at[p]
          /\ at[g] = "event"
      BY <1>2, <2>3 DEF Says, Executor
    <3>2. \A t \in Task : (at'[t] = "off" <=> at[t] = "off") /\ (Announced(t) => Announced(t)')
      BY <1>2, <2>3, <3>1 DEF Announced
    <3>3. \A t \in Task \ {g} : at'[t] = at[t]
      BY <1>2
    <3>4. QED
      BY <1>2, <2>1, <2>3, <3>1, <3>2, <3>3, Events DEF Unsaid
  <2>4. CASE g = "add"
    <3>1. /\ Says(g) = Evt("added", Added)
          /\ \A t \in Task : at'[t] = at[t]
          /\ \A p \in Executor : at'[p] = at[p]
      BY <1>2, <2>4 DEF Says, Executor
    <3>2. \A t \in Task : Announced(t) => Announced(t)'
      BY <3>1 DEF Announced
    <3>3. QED
      BY <1>2, <2>1, <2>4, <3>1, <3>2, Events DEF Unsaid
  <2>5. QED
    BY <2>2, <2>3, <2>4 DEF Goroutine, Executor
<1>6. QED
  BY <1>1, <1>4, <1>5 DEF SaidInv

(* Its Publish is over: all who were there have got the event.                   *)
LEMMA SaidEnds ==
  ASSUME FlowInv, NEW g \in Goroutine, at[g] = "publish", PublishEnd(g), chosen' = chosen,
         at'[g] # "publish", g = "add" => at'[g] = "returned",
         g \in Task => at'[g] = "ended",
         \A h \in Goroutine \ {g, chosen} : at'[h] = at[h],
         IF g \in Executor THEN at'[chosen] = "wait" /\ at[chosen] = "off"
                           ELSE g # chosen => at'[chosen] = at[chosen]
  PROVE  PubInv' /\ SaidInv'
<1>. USE Names
<1>1. /\ PubInv' /\ chan' = chan /\ due' = due /\ pub[g].rest = <<>> /\ pub'[g] = Silent
      /\ \A h \in Goroutine \ {g} : pub'[h] = pub[h]
  BY EndKeeps, ServiceAssumption DEF FlowInv
<1>2. \A h \in Goroutine : Says(h)' = Says(h)
  BY DEF Says
<1>3. chosen \in Task
  BY DEF FlowInv, LifeInv, LifeType
<1>4. \A h \in Goroutine \ {g} : at'[h] = at[h] \/ (h = chosen /\ at[h] = "off" /\ at'[h] = "wait")
  BY <1>3
<1>5. Spoken'
  BY <1>1, <1>2, <1>4 DEF FlowInv, SaidInv, Spoken
<1>6. ASSUME NEW s \in Sub PROVE Unsaid(s)'
  <2>1. Unsaid(s) /\ due'[s] = due[s] /\ chan'[s] = chan[s]
    BY <1>1 DEF FlowInv, SaidInv
  <2>2. CASE g \in Executor
    <3>1. /\ at'["add"] = at["add"] /\ \A t \in Task \ {chosen} : at'[t] = at[t]
          /\ at'[chosen] = "wait" /\ at[chosen] = "off"
      BY <1>4, <2>2, <1>3 DEF Executor
    <3>2. Evt("Running", chosen) \notin due[s] \ Range(chan[s])
      <4>1. SUFFICES ASSUME Evt("Running", chosen) \in due[s] \ Range(chan[s]) PROVE FALSE
        OBVIOUS
      <4>2. PICK q \in Publisher : pub[q].event = Evt("Running", chosen) /\ s \in Range(pub[q].rest)
        BY <4>1 DEF FlowInv, PubInv, EventsReachTheOpen
      <4>3. q \in Goroutine /\ pub[q] # Silent
        BY <4>2, Silence, ServiceAssumption
      <4>4. at[q] = "publish"
        BY <4>3 DEF FlowInv, SaidInv, Spoken
      <4>5. pub[g].event = Evt("Running", chosen)
        BY <2>2 DEF FlowInv, SaidInv, Spoken, Says
      <4>6. q = g
        BY <4>2, <4>3, <4>4, <4>5, SpeakersDiffer
      <4>7. QED
        BY <1>1, <4>2, <4>6, Silence
    <3>3. \A t \in Task \ {chosen} : Announced(t) => Announced(t)'
      <4>1. \A p \in Executor : at[p] = "publish" => p = g
        BY <2>2, OneExecutor DEF FlowInv, Turn, InExec
      <4>2. QED
        BY <3>1, <4>1 DEF Announced, FlowInv, SaidInv, Spoken, Says, Executor
    <3>4. Announced(chosen)'
      BY <3>1 DEF Announced
    <3>5. QED
      BY <1>3, <2>1, <3>1, <3>2, <3>3, <3>4 DEF Unsaid
  <2>3. CASE g \notin Executor
    <3>1. \A h \in Goroutine \ {g} : at'[h] = at[h]
      BY <1>3, <2>3
    <3>2. /\ \A t \in Task : (at'[t] = "off" <=> at[t] = "off")
          /\ \A t \in Task : at'[t] \in {"off", "wait", "event"} => at[t] \in {"off", "wait", "event"}
          /\ at["add"] \in {"publish", "returned"} => at'["add"] \in {"publish", "returned"}
      BY <2>3, <3>1 DEF Goroutine, Executor
    <3>3. \A p \in Executor : at'[p] = at[p]
      BY <2>3, <3>1
    <3>4. \A t \in Task : Announced(t) => Announced(t)'
      BY <3>2, <3>3 DEF Announced
    <3>5. QED
      BY <2>1, <3>2, <3>4 DEF Unsaid
  <2>4. QED
    BY <2>2, <2>3
<1>7. QED
  BY <1>1, <1>5, <1>6 DEF SaidInv

-----------------------------------------------------------------------------
(* Who is silent and stays so.                                                  *)
Mute(g) == \/ at'[g] = at[g]
           \/ at[g] \notin {"publish", "off"} /\ at'[g] \notin {"publish", "off"}
LEMMA SilentSteps ==
  ASSUME FlowInv, UNCHANGED psVars,
         chosen' = chosen \/ \A p \in Executor : at[p] # "publish",
         \A g \in Executor : Mute(g) \/ (at[g] = "off" /\ at'[g] # "publish"),
         \A t \in Task : at'[t] = at[t] \/ (at[t] = "wait" /\ at'[t] = "event"),
         at'["add"] = at["add"] \/ {at["add"], at'["add"]} \cap {"publish", "returned"} = {}
  PROVE  PubInv' /\ SaidInv'
<1>. USE Names
<1>1. UNCHANGED <<plock, subs, chan, wg, life, due, pub>>
  BY DEF psVars
<1>2. PubInv'
  BY <1>1 DEF FlowInv, PubInv, PubSubShape, Member, EventsReachTheOpen, Talks, Hears
<1>3. ASSUME NEW g \in Goroutine PROVE at'[g] = "publish" <=> at[g] = "publish"
  BY DEF Mute, Goroutine, Executor
<1>4. Less
  BY <1>1 DEF Less
<1>5. SaidInv'
  BY <1>1, <1>3, <1>4, SaidStays
<1>6. QED
  BY <1>2, <1>5

LEMMA ExecSays ==
  ASSUME FlowInv, NEW p \in Executor, ExecTask(p)
  PROVE  PubInv' /\ SaidInv'
<1>. USE Names
<1>1. /\ p \in Goroutine /\ p # "add" /\ p \notin Task /\ at \in [Goroutine -> Pc] /\ chosen \in Task
      /\ at[p] \in Executing /\ at[p] \in Turn /\ at[chosen] = "off"
  BY DEF FlowInv, LifeInv, LifeType, Executor, ExecTask, Turn, Once, OnceBy,
     ExecLock, ExecPut, ExecPutError, ExecEvent, ExecWatch, ExecError, Executing, InExec, Goroutine
<1>2. \A q \in Executor \ {p} : at[q] # "publish"
  BY <1>1, OneExecutor DEF FlowInv, Turn, InExec
<1>3. CASE ExecLock(p) \/ ExecPut(p) \/ ExecPutError(p) \/ ExecError(p)
  <2>1. \E pc \in {"put", "putError", "event", "unlock", "visit", "ping"} : at' = [at EXCEPT ![p] = pc]
    BY <1>3 DEF ExecLock, ExecPut, ExecPutError, ExecError, Jump, AfterExec
  <2>2. UNCHANGED psVars /\ chosen' = chosen /\ at[p] \notin {"publish", "off"}
    BY <1>3 DEF ExecLock, ExecPut, ExecPutError, ExecError
  <2>3. at'[p] \notin {"publish", "off"} /\ \A g \in Goroutine \ {p} : at'[g] = at[g]
    BY <1>1, <2>1
  <2>4. /\ \A t \in Task : at'[t] = at[t]
        /\ at'["add"] = at["add"]
        /\ \A q \in Executor : Mute(q)
    BY <1>1, <2>2, <2>3 DEF Mute, Executor
  <2>5. QED
    BY <2>2, <2>4, SilentSteps
<1>4. CASE ExecEvent(p)
  <2>1. /\ at[p] = "event" /\ at' = [at EXCEPT ![p] = "publish"] /\ chosen' = chosen
        /\ PublishBegin(p, Evt("Running", chosen))
    BY <1>4 DEF ExecEvent, Jump
  <2>2. Says(p) = Evt("Running", chosen) /\ Says(p) \in Event
    BY <1>1, Events DEF Says
  <2>3. ~Announced(chosen)
    BY <1>1, <1>2, <2>1 DEF Announced
  <2>4. \A s \in Sub : Says(p) \notin due[s]
    BY <1>1, <2>2, <2>3 DEF FlowInv, SaidInv, Unsaid
  <2>5. QED
    BY <1>1, <1>2, <2>1, <2>2, <2>3, <2>4, SaidBegins
<1>5. CASE ExecWatch(p)
  <2>1. /\ at[p] = "publish" /\ PublishEnd(p) /\ chosen' = chosen
        /\ at' = [at EXCEPT ![p] = AfterExec(p), ![chosen] = "wait"]
    BY <1>5 DEF ExecWatch
  <2>2. AfterExec(p) # "publish"
    BY DEF AfterExec
  <2>3. /\ at'[p] # "publish" /\ at'[chosen] = "wait"
        /\ \A h \in Goroutine \ {p, chosen} : at'[h] = at[h]
    BY <1>1, <2>1, <2>2
  <2>4. QED
    BY <1>1, <2>1, <2>3, SaidEnds
<1>6. QED
  BY <1>3, <1>4, <1>5 DEF ExecTask

LEMMA LookSays ==
  ASSUME FlowInv, NEW p \in Executor, OneLoop(p) \/ Visit(p)
  PROVE  PubInv' /\ SaidInv'
<1>. USE Names
<1>1. /\ p \in Goroutine /\ p # "add" /\ p \notin Task /\ at \in [Goroutine -> Pc]
      /\ at[p] \in {"look", "ready", "ping", "visit"} /\ at[p] \in Turn /\ UNCHANGED psVars
  BY DEF FlowInv, LifeInv, LifeType, Executor, Goroutine, Turn,
     OneLoop, LookBegin, LookEnd, LoopPing, Visit
<1>2. \A q \in Executor : at[q] # "publish"
  BY <1>1, OneExecutor DEF FlowInv, Turn, InExec
<1>3. at' = at \/ \E pc \in {"ready", "lock", "start", "select"} : at' = [at EXCEPT ![p] = pc]
  BY DEF OneLoop, LookBegin, LookEnd, LoopPing, Visit, Exec, Jump, AfterLoop
<1>4. \A g \in Goroutine \ {p} : at'[g] = at[g]
  BY <1>1, <1>3
<1>5. at'[p] \notin {"publish", "off"}
  BY <1>1, <1>3
<1>6. /\ \A t \in Task : at'[t] = at[t]
      /\ at'["add"] = at["add"]
      /\ \A q \in Executor : Mute(q)
  BY <1>1, <1>4, <1>5 DEF Mute, Executor
<1>7. QED
  BY <1>1, <1>2, <1>6, SilentSteps

LEMMA LifeSays ==
  ASSUME FlowInv, Main \/ Loop \/ Cancel
  PROVE  PubInv' /\ SaidInv'
<1>. USE Names
<1>1. at \in [Goroutine -> Pc] /\ Executor = {"main", "loop"} /\ "main" # "add" /\ "loop" # "add"
  BY DEF FlowInv, LifeInv, LifeType, Executor
<1>2. UNCHANGED psVars /\ chosen' = chosen
  BY DEF Main, LoadBegin, LoadEnd, StartLoop, StartFlag, WaitStop, Loop, Select, LoopSync, LoopDone, Cancel
<1>3. \A g \in Goroutine \ {"main", "loop"} : at'[g] = at[g]
  BY <1>1 DEF Main, LoadBegin, LoadEnd, StartLoop, StartFlag, WaitStop, Loop, Select, LoopSync,
     LoopDone, Cancel, Jump
<1>4. ASSUME Main \/ Cancel, ~StartLoop PROVE Mute("main") /\ at'["loop"] = at["loop"]
  BY <1>1, <1>4 DEF Main, LoadBegin, LoadEnd, StartFlag, WaitStop, Cancel, Jump, Mute
<1>5. CASE StartLoop
  <2>1. at["loop"] = "off"
    BY <1>5 DEF StartLoop, FlowInv, LifeInv, Counted, AfterStart
  <2>2. /\ at["main"] = "start" /\ at'["main"] = "startFlag" /\ at'["loop"] = "select"
    BY <1>1, <1>5 DEF StartLoop
  <2>3. Mute("main") /\ at["loop"] = "off" /\ at'["loop"] # "publish"
    BY <2>1, <2>2 DEF Mute
  <2>4. QED
    BY <1>1, <1>2, <1>3, <2>3, SilentSteps
<1>6. CASE Loop
  <2>1. /\ at'["main"] = at["main"] /\ at["loop"] \in {"select", "sync", "done"}
        /\ at'["loop"] \in {"sync", "look", "done", "ended"}
    BY <1>1, <1>6 DEF Loop, Select, LoopSync, LoopDone, Jump
  <2>2. Mute("main") /\ Mute("loop")
    BY <2>1 DEF Mute
  <2>3. QED
    BY <1>1, <1>2, <1>3, <2>2, SilentSteps
<1>7. CASE (Main \/ Cancel) /\ ~StartLoop
  <2>1. Mute("main") /\ Mute("loop")
    BY <1>4, <1>7 DEF Mute
  <2>2. QED
    BY <1>1, <1>2, <1>3, <2>1, SilentSteps
<1>8. QED
  BY <1>5, <1>6, <1>7

LEMMA OthersSay ==
  ASSUME FlowInv,
         \/ \E t \in Task : WatchEnd(t) \/ WatchEvent(t) \/ WatchPing(t)
         \/ Add
  PROVE  PubInv' /\ SaidInv'
<1>. USE Names
<1>1. /\ at \in [Goroutine -> Pc] /\ Added \in Task
      /\ \A q \in Executor : q \in Goroutine /\ q \notin Task /\ q # "add"
      /\ \A t \in Task : t # "add" /\ t \in Goroutine
  BY DEF FlowInv, LifeInv, LifeType, Executor, Task
<1>2. ASSUME NEW t \in Task, WatchEnd(t) PROVE PubInv' /\ SaidInv'
  <2>1. at[t] = "wait" /\ at' = [at EXCEPT ![t] = "event"] /\ UNCHANGED psVars /\ chosen' = chosen
    BY <1>2 DEF WatchEnd, Jump
  <2>2. at'[t] = "event" /\ \A h \in Goroutine \ {t} : at'[h] = at[h]
    BY <1>1, <2>1
  <2>3. \A q \in Executor : Mute(q)
    BY <1>1, <2>2 DEF Mute
  <2>4. \A u \in Task : at'[u] = at[u] \/ (at[u] = "wait" /\ at'[u] = "event")
    BY <1>1, <2>1, <2>2
  <2>5. at'["add"] = at["add"]
    BY <1>1, <2>2
  <2>6. QED
    BY <2>1, <2>3, <2>4, <2>5, SilentSteps
<1>3. ASSUME NEW t \in Task, WatchEvent(t) PROVE PubInv' /\ SaidInv'
  <2>1. /\ at[t] = "event" /\ at' = [at EXCEPT ![t] = "publish"] /\ chosen' = chosen
        /\ PublishBegin(t, Evt("Done", t))
    BY <1>3 DEF WatchEvent, Jump
  <2>2. Says(t) = Evt("Done", t) /\ Says(t) \in Event
    BY <1>1, Events DEF Says
  <2>3. \A s \in Sub : Says(t) \notin due[s]
    BY <2>1, <2>2 DEF FlowInv, SaidInv, Unsaid
  <2>4. QED
    BY <1>1, <2>1, <2>2, <2>3, SaidBegins
<1>4. ASSUME NEW t \in Task, WatchPing(t) PROVE PubInv' /\ SaidInv'
  <2>1. at[t] = "publish" /\ at' = [at EXCEPT ![t] = "ended"] /\ chosen' = chosen /\ PublishEnd(t)
    BY <1>4 DEF WatchPing, Jump
  <2>2. at'[t] = "ended" /\ \A h \in Goroutine \ {t} : at'[h] = at[h]
    BY <1>1, <2>1
  <2>3. t \notin Executor /\ chosen \in Task
    BY <1>1 DEF FlowInv, LifeInv, LifeType
  <2>4. QED
    BY <1>1, <2>1, <2>2, <2>3, SaidEnds
<1>5. CASE AddCheck \/ AddPut \/ AddPing
  <2>1. \E pc \in {"put", "refused", "ping", "event"} : at' = [at EXCEPT !["add"] = pc]
    BY <1>5 DEF AddCheck, AddPut, AddPing, Jump
  <2>2. UNCHANGED psVars /\ chosen' = chosen /\ at["add"] \notin {"publish", "returned"}
    BY <1>5 DEF AddCheck, AddPut, AddPing
  <2>3. at'["add"] \notin {"publish", "returned"} /\ \A h \in Goroutine \ {"add"} : at'[h] = at[h]
    BY <1>1, <2>1
  <2>4. \A q \in Executor : Mute(q)
    BY <1>1, <2>3 DEF Mute
  <2>5. \A t \in Task : at'[t] = at[t]
    BY <1>1, <2>3
  <2>6. QED
    BY <2>2, <2>3, <2>4, <2>5, SilentSteps
<1>6. CASE AddEvent
  <2>1. /\ at["add"] = "event" /\ at' = [at EXCEPT !["add"] = "publish"] /\ chosen' = chosen
        /\ PublishBegin("add", Evt("added", Added))
    BY <1>6 DEF AddEvent, Jump
  <2>2. "add" \notin Executor /\ Says("add") = Evt("added", Added) /\ Says("add") \in Event
    BY <1>1, Events DEF Says
  <2>3. \A s \in Sub : Says("add") \notin due[s]
    BY <2>1, <2>2 DEF FlowInv, SaidInv, Unsaid
  <2>4. QED
    BY <2>1, <2>2, <2>3, SaidBegins
<1>7. CASE AddReturn
  <2>1. at["add"] = "publish" /\ at' = [at EXCEPT !["add"] = "returned"] /\ chosen' = chosen /\ PublishEnd("add")
    BY <1>7 DEF AddReturn, Jump
  <2>2. at'["add"] = "returned" /\ \A h \in Goroutine \ {"add"} : at'[h] = at[h]
    BY <1>1, <2>1
  <2>3. "add" \notin Executor /\ chosen \in Task
    BY <1>1 DEF FlowInv, LifeInv, LifeType
  <2>4. QED
    BY <1>1, <2>1, <2>2, <2>3, SaidEnds
<1>8. QED
  BY <1>2, <1>3, <1>4, <1>5, <1>6, <1>7 DEF Add

(* Inside Publish, and what subscribers do.                                      *)
LEMMA HearersKeep ==
  ASSUME FlowInv,
         \/ \E g \in Goroutine : Send(g)
         \/ \E s \in Sub : Subscriber(s)
         \/ UNCHANGED vars
  PROVE  PubInv' /\ SaidInv'
<1>1. UNCHANGED <<at, chosen>>
  BY DEF Send, Subscriber, vars
<1>2. ASSUME Less, PubInv', \A g \in Goroutine : /\ pub'[g] = Silent <=> pub[g] = Silent
                                                 /\ pub'[g].event = pub[g].event
      PROVE  PubInv' /\ SaidInv'
  BY <1>1, <1>2, SaidStays
<1>3. ASSUME NEW g \in Goroutine, Send(g) PROVE PubInv' /\ SaidInv'
  <2>1. PublishSend(g) /\ g \in Publisher /\ Publisher = Goroutine
    BY <1>3, ServiceAssumption DEF Send
  <2>2. pub[g] # Silent
    BY <2>1, Silence DEF PublishSend
  <2>3. \A h \in Publisher \ {g} : pub[h] # Silent => pub[h].event # pub[g].event
    BY <2>1, <2>2, SpeakersDiffer DEF FlowInv, SaidInv, Spoken
  <2>4. /\ PubInv' /\ Less
        /\ \A q \in Publisher : (pub'[q] = Silent <=> pub[q] = Silent) /\ pub'[q].event = pub[q].event
    BY <2>1, <2>3, SendKeeps DEF FlowInv
  <2>5. QED
    BY <1>2, <2>1, <2>4
<1>4. ASSUME NEW s \in Sub, Subscriber(s) PROVE PubInv' /\ SaidInv'
  <2>1. CASE Receive(s)
    <3>1. PubInv' /\ Less /\ pub' = pub
      BY <2>1, ReceiveKeeps DEF FlowInv, Receive
    <3>2. QED
      BY <1>2, <3>1
  <2>2. CASE ~Receive(s)
    <3>1. PubInv' /\ UNCHANGED <<chan, due, pub>>
      BY <1>4, <2>2, SubscribersKeep DEF FlowInv, Subscriber, SubStep
    <3>2. Less
      BY <3>1 DEF Less
    <3>3. QED
      BY <1>2, <3>1, <3>2
  <2>3. QED
    BY <2>1, <2>2
<1>5. CASE UNCHANGED vars
  <2>1. UNCHANGED <<plock, subs, chan, wg, life, due, pub>>
    BY <1>5 DEF vars, psVars
  <2>2. PubInv' /\ Less
    BY <2>1 DEF FlowInv, PubInv, PubSubShape, Member, EventsReachTheOpen, Talks, Hears, Less
  <2>3. QED
    BY <1>2, <2>1, <2>2
<1>6. QED
  BY <1>3, <1>4, <1>5

LEMMA FlowNext == FlowInv /\ [Next]_vars => FlowInv'
<1>. SUFFICES ASSUME FlowInv, [Next]_vars PROVE FlowInv'
  OBVIOUS
<1>1. LifeInv' /\ StoreInv' /\ Once'
  BY LifeNext, StoreSteps, StoreNext, OnceNext DEF FlowInv
<1>2. PubInv' /\ SaidInv'
  <2>1. CASE Goroutines
    BY <2>1, ExecSays, LookSays, LifeSays, OthersSay, HearersKeep DEF Goroutines, Run
  <2>2. CASE (\E s \in Sub : Subscriber(s)) \/ UNCHANGED vars
    BY <2>2, HearersKeep
  <2>3. CASE Cancel
    BY <2>3, LifeSays
  <2>4. QED
    BY <2>1, <2>2, <2>3 DEF Next
<1>3. QED
  BY <1>1, <1>2 DEF FlowInv

(* An event whose Publish is over has reached each subscriber that was there,    *)
(* once: whatever goroutines publish meanwhile, and however full the channels.  *)
THEOREM EventsReachAll == Spec => []EventsReachTheOpen
<1>1. FlowInv => EventsReachTheOpen
  BY DEF FlowInv, PubInv
<1>2. QED
  BY <1>1, FlowInit, FlowNext, PTL DEF Spec

(* When the wait group of the pubsub is at zero nobody is subscribed, and no     *)
(* Publish still has to reach anybody.                                          *)
THEOREM WaitingIsOver == Spec => []WaitMeansClosed
<1>1. FlowInv => WaitMeansClosed
  <2>. SUFFICES ASSUME FlowInv, wg = 0 PROVE WaitMeansClosed
    BY DEF WaitMeansClosed
  <2>1. subs = {}
    BY FS_EmptySet DEF FlowInv, PubInv, PubSubShape
  <2>2. ASSUME NEW p \in Publisher PROVE pub[p].rest = <<>>
    <3>1. pub[p].rest \in Seq(Sub) /\ Range(pub[p].rest) = {}
      BY <2>1 DEF FlowInv, PubInv, PubSubShape, Speech, Talks
    <3>2. pub[p].rest # <<>> => Head(pub[p].rest) \in Range(pub[p].rest)
      BY <3>1, TailFacts
    <3>3. QED
      BY <3>1, <3>2
  <2>3. QED
    BY <2>1, <2>2 DEF WaitMeansClosed
<1>2. QED
  BY <1>1, FlowInit, FlowNext, PTL DEF Spec

(* No subscriber learns that a run ended before it has learned that the task ran. *)
THEOREM RunsAreAnnounced == Spec => []RunIsAnnouncedBeforeItsEnd
<1>1. FlowInv => RunIsAnnouncedBeforeItsEnd
  BY DEF FlowInv, SaidInv, Unsaid, RunIsAnnouncedBeforeItsEnd
<1>2. QED
  BY <1>1, FlowInit, FlowNext, PTL DEF Spec

-----------------------------------------------------------------------------
(* s.lock is held by who is where it should be, and by nobody else.              *)
LockInv == /\ slock.readers = {g \in Executor : at[g] = "ready"}
           /\ slock.writer = {g \in Executor : at[g] \in InExec}
Booleans == started \in BOOLEAN /\ ctxDone \in BOOLEAN /\ newMsg \in BOOLEAN

LEMMA BooleansStay ==
  ASSUME Booleans, [Next]_vars
  PROVE  Booleans'
<1>. USE DEF Booleans, Flags
<1>1. ASSUME NEW p \in Executor, ExecTask(p) \/ OneLoop(p) \/ Visit(p) PROVE Booleans'
  BY <1>1 DEF ExecTask, ExecLock, ExecPut, ExecPutError, ExecEvent, ExecWatch, ExecError,
     OneLoop, LookBegin, LookEnd, LoopPing, Visit
<1>2. ASSUME NEW t \in Task, WatchEnd(t) \/ WatchEvent(t) \/ WatchPing(t) PROVE Booleans'
  BY <1>2 DEF WatchEnd, WatchEvent, WatchPing
<1>3. CASE Main \/ Loop \/ Cancel
  BY <1>3 DEF Main, LoadBegin, LoadEnd, StartLoop, StartFlag, WaitStop, Loop, Select, LoopSync,
     LoopDone, Cancel
<1>4. CASE Add
  BY <1>4 DEF Add, AddCheck, AddPut, AddPing, AddEvent, AddReturn
<1>5. CASE (\E g \in Goroutine : Send(g)) \/ (\E s \in Sub : Subscriber(s)) \/ UNCHANGED vars
  BY <1>5 DEF Send, Subscriber, vars
<1>6. QED
  BY <1>1, <1>2, <1>3, <1>4, <1>5 DEF Next, Goroutines, Run

LEMMA LockStays ==
  ASSUME LockInv, slock'.readers = slock.readers, slock'.writer = slock.writer,
         \A g \in Executor : /\ at'[g] = "ready" <=> at[g] = "ready"
                             /\ at'[g] \in InExec <=> at[g] \in InExec
  PROVE  LockInv'
BY DEF LockInv

LEMMA ExecLocks ==
  ASSUME LifeInv, LockInv, NEW p \in Executor, ExecTask(p)
  PROVE  LockInv'
<1>. USE Names
<1>1. /\ p \in Goroutine /\ p \notin Task /\ at \in [Goroutine -> Pc] /\ chosen \in Task /\ slock \in Locks
      /\ at[p] \in Turn /\ at[p] # "ready"
  BY DEF LifeInv, LifeType, Executor, ExecTask, Turn,
     ExecLock, ExecPut, ExecPutError, ExecEvent, ExecWatch, ExecError, InExec
<1>2. \A g \in Executor \ {p} : g \in Goroutine /\ g \notin Task /\ at[g] \notin Turn
  BY <1>1, OneExecutor DEF Executor
<1>3. CASE ExecLock(p)
  <2>1. at'[p] \in InExec /\ at'[p] # "ready" /\ \A g \in Executor \ {p} : at'[g] = at[g]
    <3>1. PICK pc \in {"put", "putError"} : at' = [at EXCEPT ![p] = pc]
      BY <1>3 DEF ExecLock, Jump
    <3>2. QED
      BY <1>1, <1>2, <3>1 DEF InExec
  <2>2. slock'.readers = slock.readers /\ slock'.writer = {p} /\ slock.writer = {}
    BY <1>1, <1>3 DEF ExecLock, MayWrite, Lock, Locks
  <2>3. QED
    BY <1>1, <2>1, <2>2 DEF LockInv
<1>4. CASE ExecPut(p) \/ ExecPutError(p) \/ ExecEvent(p)
  <2>1. PICK pc \in InExec : at' = [at EXCEPT ![p] = pc]
    BY <1>4 DEF ExecPut, ExecPutError, ExecEvent, Jump, InExec
  <2>2. at'[p] = pc /\ \A g \in Executor \ {p} : at'[g] = at[g]
    BY <1>1, <1>2, <2>1
  <2>3. at[p] \in InExec /\ slock' = slock
    BY <1>4 DEF ExecPut, ExecPutError, ExecEvent, InExec
  <2>4. QED
    BY <1>1, <2>1, <2>2, <2>3, LockStays DEF InExec
<1>5. CASE ExecWatch(p) \/ ExecError(p)
  <2>1. slock'.readers = slock.readers /\ slock'.writer = {}
    BY <1>1, <1>5 DEF ExecWatch, ExecError, Unlock, Locks
  <2>2. at'[p] = AfterExec(p) /\ \A g \in Executor \ {p} : at'[g] = at[g]
    BY <1>1, <1>2, <1>5 DEF ExecWatch, ExecError, Jump
  <2>3. AfterExec(p) \notin InExec \cup {"ready"}
    BY DEF AfterExec, InExec
  <2>4. \A g \in Executor : at'[g] \notin InExec /\ (at'[g] = "ready" <=> at[g] = "ready")
    BY <1>1, <1>2, <2>2, <2>3 DEF Turn
  <2>5. QED
    BY <2>1, <2>4 DEF LockInv
<1>6. QED
  BY <1>3, <1>4, <1>5 DEF ExecTask

LEMMA LookLocks ==
  ASSUME LifeInv, LockInv, NEW p \in Executor, OneLoop(p) \/ Visit(p)
  PROVE  LockInv'
<1>. USE Names
<1>1. /\ p \in Goroutine /\ p \notin Task /\ at \in [Goroutine -> Pc] /\ slock \in Locks
      /\ at[p] \in {"look", "ready", "ping", "visit"}
  BY DEF LifeInv, LifeType, Executor, OneLoop, LookBegin, LookEnd, LoopPing, Visit
<1>2. \A g \in Executor \ {p} : g \in Goroutine
  BY DEF Executor
<1>3. /\ \A m \in Locks : Want(m, p) \in Locks /\ Want(m, p).writer = m.writer /\ Want(m, p).readers = m.readers
      /\ \A m \in Locks : /\ RUnlock(m, p) \in Locks /\ RUnlock(m, p).writer = m.writer
                          /\ RUnlock(m, p).readers = m.readers \ {p}
      /\ \A m \in Locks : RLock(m, p).writer = m.writer /\ RLock(m, p).readers = m.readers \cup {p}
  BY <1>1 DEF Want, RUnlock, RLock, Locks
<1>4. CASE LookBegin(p)
  <2>1. at' = [at EXCEPT ![p] = "ready"] /\ slock' = RLock(slock, p) /\ at[p] = "look"
    BY <1>4 DEF LookBegin, Jump
  <2>2. at'[p] = "ready" /\ \A g \in Executor \ {p} : at'[g] = at[g]
    BY <1>1, <1>2, <2>1
  <2>3. slock'.readers = slock.readers \cup {p} /\ slock'.writer = slock.writer
    BY <1>1, <1>3, <2>1
  <2>4. QED
    BY <2>1, <2>2, <2>3 DEF LockInv, InExec
<1>5. CASE LookEnd(p)
  <2>1. at[p] = "ready" /\ \E pc \in {"lock", "start", "select"} : at' = [at EXCEPT ![p] = pc]
    BY <1>5 DEF LookEnd, Exec, Jump, AfterLoop
  <2>2. at'[p] \in {"lock", "start", "select"} /\ \A g \in Executor \ {p} : at'[g] = at[g]
    BY <1>1, <1>2, <2>1
  <2>3. slock' = RUnlock(slock, p) \/ slock' = Want(RUnlock(slock, p), p)
    BY <1>5 DEF LookEnd, Exec
  <2>4. slock'.readers = slock.readers \ {p} /\ slock'.writer = slock.writer
    BY <1>1, <1>3, <2>3
  <2>5. QED
    BY <2>1, <2>2, <2>4 DEF LockInv, InExec
<1>6. CASE LoopPing(p)
  <2>1. /\ slock' = slock /\ at[p] = "ping" /\ at'[p] \in {"start", "select"}
        /\ \A g \in Executor \ {p} : at'[g] = at[g]
    BY <1>1, <1>2, <1>6 DEF LoopPing, Jump, AfterLoop
  <2>2. QED
    BY <2>1, LockStays DEF InExec
<1>7. CASE Visit(p)
  <2>1. \/ at' = at /\ slock' = slock
        \/ at[p] = "visit" /\ at' = [at EXCEPT ![p] = "lock"] /\ slock' = Want(slock, p)
    BY <1>7 DEF Visit, Exec, Jump
  <2>2. slock'.readers = slock.readers /\ slock'.writer = slock.writer
    BY <1>1, <1>3, <2>1
  <2>3. \A g \in Executor : at'[g] = at[g] \/ (g = p /\ at[p] = "visit" /\ at'[p] = "lock")
    BY <1>1, <1>2, <2>1
  <2>4. QED
    BY <2>2, <2>3, LockStays DEF InExec
<1>8. QED
  BY <1>4, <1>5, <1>6, <1>7 DEF OneLoop

LEMMA LockNext ==
  ASSUME LifeInv, LockInv, [Next]_vars
  PROVE  LockInv'
<1>. USE Names
<1>1. at \in [Goroutine -> Pc] /\ Executor = {"main", "loop"} /\ "main" \notin Task /\ "loop" \notin Task
  BY DEF LifeInv, LifeType, Executor
<1>2. CASE Main \/ Loop \/ Cancel
  <2>1. slock' = slock
    BY <1>2 DEF Main, LoadBegin, LoadEnd, StartLoop, StartFlag, WaitStop, Loop, Select, LoopSync,
       LoopDone, Cancel
  <2>2. at["loop"] \in {"off", "ended"} \/ at["loop"] \in Pc
    BY <1>1
  <2>3. CASE StartLoop
    <3>1. at["loop"] = "off" /\ at["main"] = "start"
      BY <2>3 DEF StartLoop, LifeInv, Counted, AfterStart
    <3>2. at'["main"] = "startFlag" /\ at'["loop"] = "select"
      BY <1>1, <2>3 DEF StartLoop
    <3>3. QED
      BY <1>1, <2>1, <3>1, <3>2, LockStays DEF InExec
  <2>4. CASE (Main /\ ~StartLoop) \/ Cancel
    <3>1. at'["loop"] = at["loop"]
      BY <1>1, <2>4 DEF Main, LoadBegin, LoadEnd, StartFlag, WaitStop, Cancel, Jump
    <3>2. /\ at["main"] \notin InExec \cup {"ready"}
          /\ at'["main"] \notin InExec \cup {"ready"}
      BY <1>1, <2>4 DEF Main, LoadBegin, LoadEnd, StartFlag, WaitStop, Cancel, Jump, InExec
    <3>3. QED
      BY <1>1, <2>1, <3>1, <3>2, LockStays
  <2>5. CASE Loop
    <3>1. at'["main"] = at["main"]
      BY <1>1, <2>5 DEF Loop, Select, LoopSync, LoopDone, Jump
    <3>2. /\ at["loop"] \notin InExec \cup {"ready"}
          /\ at'["loop"] \notin InExec \cup {"ready"}
      BY <1>1, <2>5 DEF Loop, Select, LoopSync, LoopDone, Jump, InExec
    <3>3. QED
      BY <1>1, <2>1, <3>1, <3>2, LockStays
  <2>6. QED
    BY <1>2, <2>3, <2>4, <2>5
<1>3. ASSUME slock' = slock, \A g \in Executor : at'[g] = at[g] PROVE LockInv'
  BY <1>3, LockStays
<1>4. ASSUME NEW t \in Task, WatchEnd(t) \/ WatchEvent(t) \/ WatchPing(t) PROVE LockInv'
  BY <1>1, <1>3, <1>4 DEF WatchEnd, WatchEvent, WatchPing, Jump
<1>5. CASE Add
  BY <1>1, <1>3, <1>5 DEF Add, AddCheck, AddPut, AddPing, AddEvent, AddReturn, Jump
<1>6. CASE (\E g \in Goroutine : Send(g)) \/ (\E s \in Sub : Subscriber(s)) \/ UNCHANGED vars
  BY <1>3, <1>6 DEF Send, Subscriber, vars
<1>7. QED
  BY <1>2, <1>4, <1>5, <1>6, ExecLocks, LookLocks DEF Next, Goroutines, Run

(* Every variable is what it should be; the lock of the scheduler is held by     *)
(* execTask and readyToGo where they say so, by one executor at most; wg counts  *)
(* no more than there are subscribers.                                          *)
THEOREM ServiceTyping ==
  ASSUME IsFiniteSet(Sub)
  PROVE  Spec => []TypeOK
<1>1. Init => LockInv /\ Booleans
  <2>. SUFFICES ASSUME Init PROVE LockInv /\ Booleans
    OBVIOUS
  <2>1. \A g \in Executor : at[g] \in {"load", "off"}
    BY DEF Init, Executor, Goroutine
  <2>2. QED
    BY <2>1 DEF Init, LockInv, Booleans, Unlocked, InExec
<1>2. FlowInv /\ LockInv /\ Booleans /\ [Next]_vars => LockInv' /\ Booleans'
  BY LockNext, BooleansStay DEF FlowInv
<1>3. FlowInv /\ LockInv /\ Booleans => TypeOK
  <2>. SUFFICES ASSUME FlowInv, LockInv, Booleans PROVE TypeOK
    OBVIOUS
  <2>1. PubSubType
    <3>1. plock \in Mutex(Publisher \cup Sub)
      <4>1. Cardinality({}) <= 1
        BY FS_EmptySet
      <4>2. {} \in {W \in SUBSET (Publisher \cup Sub) : Cardinality(W) <= 1}
        BY <4>1
      <4>3. plock \in PubLocks
        BY DEF FlowInv, PubInv, PubSubShape
      <4>4. QED
        BY <4>2, <4>3 DEF PubLocks, Mutex
    <3>2. wg \in 0..Cardinality(Sub)
      <4>1. Cardinality(subs) \in Nat /\ Cardinality(Sub) \in Nat /\ Cardinality(subs) <= Cardinality(Sub)
        BY FS_CardinalityType, FS_Subset DEF FlowInv, PubInv, PubSubShape
      <4>2. QED
        BY <4>1 DEF FlowInv, PubInv, PubSubShape
    <3>3. \A p \in Publisher : Range(pub[p].rest) \subseteq Sub
      BY DEF FlowInv, PubInv, PubSubShape, Talks
    <3>4. QED
      BY <3>1, <3>2, <3>3 DEF FlowInv, PubInv, PubSubShape, Life, PubSubType
  <2>2. slock \in Mutex(Goroutine)
    <3>1. \A g, h \in slock.writer : g = h
      BY OneExecutor DEF FlowInv, LockInv, Turn
    <3>2. slock.writer = {} \/ \E g : slock.writer = {g}
      BY <3>1
    <3>3. Cardinality(slock.writer) <= 1
      <4>1. CASE slock.writer = {}
        <5>1. Cardinality({}) = 0
          BY FS_EmptySet
        <5>2. QED
          BY <4>1, <5>1
      <4>2. ASSUME NEW g, slock.writer = {g} PROVE Cardinality(slock.writer) <= 1
        <5>1. Cardinality({g}) = 1
          BY FS_Singleton
        <5>2. QED
          BY <4>2, <5>1
      <4>3. QED
        BY <3>2, <4>1, <4>2
    <3>4. QED
      BY <3>3 DEF FlowInv, LifeInv, LifeType, Locks, Mutex
  <2>3. stopping \in 0..1
    BY DEF FlowInv, LifeInv, Counted
  <2>4. QED
    BY <2>1, <2>2, <2>3 DEF TypeOK, FlowInv, LifeInv, LifeType, StoreInv, StoreType, Values,
       LockInv, Booleans, InExec
<1>4. QED
  BY <1>1, <1>2, <1>3, FlowInit, FlowNext, PTL DEF Spec
=============================================================================
