----------------------------- MODULE TodoProofs -----------------------------
(* The todo list never blocks in Ping and never loses one, for any set of     *)
(* callers, and it implements the coalescing signal.                          *)
EXTENDS Todo, TLAPS

(* newMsg, the channel and the position of the loop are tied together: an      *)
(* element of the channel is announced, and an announcement means a look to    *)
(* come.  With the mutex this is inductive.                                    *)
IInv == TypeOK /\ MutexInv /\ ChannelAnnounced /\ FlagMeansALook

(* The values of the variables of Todo.  *)
THEOREM Typing == Spec => []TypeOK
  <1> USE DEF TypeOK, Proc, ChanCap, PingLoc, DoneLoc
  <1>1. ASSUME Init PROVE TypeOK
    <2>1. PICK first \in {"select", "doneLock"} :
             pc = [p \in Proc |-> IF p = Worker THEN first ELSE "idle"]
      BY <1>1 DEF Init
    <2>2. pc \in [Proc -> {"idle", "select", "work"} \cup PingLoc \cup DoneLoc]
      BY <2>1
    <2>3. newMsg \in BOOLEAN /\ dirty \in BOOLEAN
      BY <1>1, Zenon DEF Init
    <2>4. lock \in Proc \cup {NoProc} /\ wait \in 0..ChanCap
      BY <1>1 DEF Init
    <2>5. QED
      BY <2>2, <2>3, <2>4
  <1>2. TypeOK /\ [Next]_vars => TypeOK'
    <2> SUFFICES ASSUME TypeOK, [Next]_vars PROVE TypeOK'
      OBVIOUS
    <2>1. ASSUME NEW p \in Pinger, Publish(p) PROVE TypeOK'
      BY <2>1 DEF Publish
    <2>2. ASSUME NEW p \in Proc, PingLock(p) PROVE TypeOK'
      BY <2>2 DEF PingLock, Lock
    <2>3. ASSUME NEW p \in Proc, PingSkip(p) \/ PingSet(p) PROVE TypeOK'
      BY <2>3 DEF PingSkip, PingSet, AfterPing
    <2>3b. ASSUME NEW p \in Proc, PingSend(p) PROVE TypeOK'
      BY <2>3b DEF PingSend
    <2>4. CASE DoneLock
      BY <2>4 DEF DoneLock, Lock
    <2>5. CASE WorkerNext
      <3>1. CASE Receive
        BY <3>1 DEF Receive
      <3>2. CASE DoneSkip \/ DoneReset
        BY <3>2 DEF DoneSkip, DoneReset
      <3>3. CASE DoneDrain
        BY <3>3 DEF DoneDrain
      <3>4. CASE LookAll \/ LookOne
        BY <3>4 DEF LookAll, LookOne
      <3>5. QED
        BY <2>5, <3>1, <3>2, <3>3, <3>4 DEF WorkerNext
    <2>6. CASE UNCHANGED vars
      BY <2>6 DEF vars
    <2>7. QED
      BY <2>1, <2>2, <2>3, <2>3b, <2>4, <2>5, <2>6 DEF Next, PingNext
  <1>3. QED
    BY <1>1, <1>2, PTL DEF Spec

(* The inductive invariant of Todo: who holds the mutex, what is in the channel. *)
LEMMA Inductive == Spec => []IInv
  <1> USE ProcAssumption DEF Proc, ChanCap
  <1>1. ASSUME Init, TypeOK PROVE IInv
    <2>1. PICK first \in {"select", "doneLock"} :
             pc = [p \in Proc |-> IF p = Worker THEN first ELSE "idle"]
      BY <1>1 DEF Init
    <2>2. \A p \in Proc : pc[p] \notin Critical
      BY <2>1 DEF Critical
    <2>3. ~newMsg /\ wait = 0 /\ lock = NoProc
      BY <1>1 DEF Init
    <2>4. QED
      BY <1>1, <2>2, <2>3
      DEF IInv, MutexInv, ChannelAnnounced, FlagMeansALook, SomeoneSetting, Critical
  <1>2. IInv /\ TypeOK' /\ [Next]_vars => IInv'
    <2> SUFFICES ASSUME IInv, TypeOK', [Next]_vars PROVE IInv'
      OBVIOUS
    <2> USE DEF IInv, TypeOK, MutexInv, ChannelAnnounced, FlagMeansALook,
                SomeoneSetting, Critical, PingLoc, DoneLoc
    <2>1. ASSUME NEW p \in Pinger, Publish(p) PROVE IInv'
      BY <2>1 DEF Publish
    <2>2. ASSUME NEW p \in Proc, PingLock(p) PROVE IInv'
      BY <2>2 DEF PingLock, Lock
    <2>3. ASSUME NEW p \in Proc, PingSkip(p) PROVE IInv'
      BY <2>3 DEF PingSkip, AfterPing
    <2>4. ASSUME NEW p \in Proc, PingSend(p) PROVE IInv'
      BY <2>4 DEF PingSend
    <2>5. ASSUME NEW p \in Proc, PingSet(p) PROVE IInv'
      BY <2>5 DEF PingSet, AfterPing
    <2>6. CASE DoneLock
      BY <2>6 DEF DoneLock, Lock
    <2>7. CASE Receive
      BY <2>7 DEF Receive
    <2>8. CASE DoneSkip \/ DoneReset
      BY <2>8 DEF DoneSkip, DoneReset
    <2>9. CASE DoneDrain
      <3>1. wait' = 0
        BY <2>9 DEF DoneDrain
      <3>2. ~newMsg' /\ ~SomeoneSetting'
        BY <2>9 DEF DoneDrain
      <3>3. QED
        BY <2>9, <3>1, <3>2 DEF DoneDrain
    <2>10. CASE LookAll \/ LookOne
      BY <2>10 DEF LookAll, LookOne
    <2>11. CASE UNCHANGED vars
      BY <2>11 DEF vars
    <2>12. QED
      BY <2>1, <2>2, <2>3, <2>4, <2>5, <2>6, <2>7, <2>8, <2>9, <2>10, <2>11
      DEF Next, PingNext, WorkerNext
  <1>3. QED
    BY <1>1, <1>2, Typing, PTL DEF Spec

(* Ping never blocks on the channel while it holds the mutex, whatever the     *)
(* number of goroutines that call it (todo.go Ping, Done).                     *)
THEOREM PingIsNonBlocking == Spec => []PingNeverBlocks
  <1>1. IInv => PingNeverBlocks
    BY ProcAssumption
    DEF IInv, PingNeverBlocks, TypeOK, MutexInv, ChannelAnnounced, SomeoneSetting,
        Critical, Proc, ChanCap
  <1>2. QED
    BY <1>1, Inductive, PTL

(* No interleaving of Ping, the receive of the loop and Done loses a wake-up.  *)
THEOREM NoPingIsLost == Spec => []NoLostPing
  <1> USE ProcAssumption DEF Proc, NoLostPing, PingLoc, DoneLoc
  <1>1. Init => NoLostPing
    BY DEF Init
  <1>2. IInv /\ NoLostPing /\ [Next]_vars => NoLostPing'
    <2> SUFFICES ASSUME IInv, NoLostPing, [Next]_vars PROVE NoLostPing'
      OBVIOUS
    <2> USE DEF IInv, TypeOK, ChanCap
    <2>1. ASSUME NEW p \in Pinger, Publish(p) PROVE NoLostPing'
      BY <2>1 DEF Publish
    <2>2. ASSUME NEW p \in Proc, PingLock(p) PROVE NoLostPing'
      BY <2>2 DEF PingLock, Lock
    <2>3. ASSUME NEW p \in Proc, PingSkip(p) PROVE NoLostPing'
      BY <2>3 DEF PingSkip, AfterPing, FlagMeansALook
    <2>4. ASSUME NEW p \in Proc, PingSend(p) PROVE NoLostPing'
      BY <2>4 DEF PingSend
    <2>5. ASSUME NEW p \in Proc, PingSet(p) PROVE NoLostPing'
      BY <2>5 DEF PingSet, AfterPing, FlagMeansALook, SomeoneSetting
    <2>6. CASE DoneLock
      BY <2>6 DEF DoneLock, Lock
    <2>7. CASE Receive
      BY <2>7 DEF Receive
    <2>8. CASE DoneSkip \/ DoneReset \/ DoneDrain
      BY <2>8 DEF DoneSkip, DoneReset, DoneDrain
    <2>9. CASE LookAll \/ LookOne
      BY <2>9 DEF LookAll, LookOne
    <2>10. CASE UNCHANGED vars
      BY <2>10 DEF vars
    <2>11. QED
      BY <2>1, <2>2, <2>3, <2>4, <2>5, <2>6, <2>7, <2>8, <2>9, <2>10
      DEF Next, PingNext, WorkerNext
  <1>3. QED
    BY <1>1, <1>2, Inductive, PTL DEF Spec

(* Every step of the mutex, the flag and the channel is a step of the           *)
(* coalescing signal or a stutter: the loop wakes for a notification only, and   *)
(* absorbs notifications only when it is about to look.                          *)
THEOREM TodoImplementsSignal == Spec => Abstract!Spec
  <1> USE ProcAssumption DEF Proc, DoneLoc
  <1>1. Init => Abstract!Init
    <2> SUFFICES ASSUME Init PROVE Abstract!Init
      OBVIOUS
    <2>1. PICK first \in {"select", "doneLock"} :
             pc = [p \in Proc |-> IF p = Worker THEN first ELSE "idle"]
      BY DEF Init
    <2>2. newMsg = FALSE /\ dirty = FALSE
      BY DEF Init
    <2>3. ~SomeoneSetting
      BY <2>1 DEF SomeoneSetting
    <2>4. (newMsg \/ SomeoneSetting) = FALSE
      BY <2>2, <2>3
    <2>5. (pc[Worker] \in DoneLoc \cup {"work"}) \in BOOLEAN
      OBVIOUS
    <2>6. QED
      BY <2>2, <2>4, <2>5, Zenon DEF Abstract!Init
  <1>2. IInv /\ [Next]_vars => [Abstract!Next]_(Abstract!vars)
    <2> SUFFICES ASSUME IInv, [Next]_vars PROVE [Abstract!Next]_(Abstract!vars)
      OBVIOUS
    <2> USE DEF IInv, TypeOK, ChanCap, SomeoneSetting, Abstract!Next, Abstract!vars
    <2>1. ASSUME NEW p \in Pinger, Publish(p) PROVE Abstract!Publish
      BY <2>1 DEF Publish, Abstract!Publish
    <2>2. ASSUME NEW p \in Proc, PingLock(p) PROVE UNCHANGED Abstract!vars
      BY <2>2 DEF PingLock, Lock
    <2>3. ASSUME NEW p \in Proc, PingSkip(p) PROVE UNCHANGED Abstract!vars
      BY <2>3 DEF PingSkip, AfterPing
    <2>4. ASSUME NEW p \in Proc, PingSend(p) PROVE Abstract!Notify
      BY <2>4 DEF PingSend, Abstract!Notify
    <2>5. ASSUME NEW p \in Proc, PingSet(p) PROVE Abstract!Notify
      BY <2>5 DEF PingSet, AfterPing, Abstract!Notify
    <2>6. CASE DoneLock
      BY <2>6 DEF DoneLock, Lock
    <2>7. CASE Receive
      <3>1. newMsg \/ SomeoneSetting
        BY <2>7 DEF Receive, ChannelAnnounced
      <3>2. Abstract!Wake
        BY <2>7, <3>1 DEF Receive, Abstract!Wake
      <3>3. QED
        BY <3>2
    <2>8. CASE DoneSkip
      BY <2>8 DEF DoneSkip
    <2>9. CASE DoneReset
      <3>1. ~SomeoneSetting'
        BY <2>9 DEF DoneReset, MutexInv, Critical
      <3>2. Abstract!Absorb
        BY <2>9, <3>1 DEF DoneReset, Abstract!Absorb
      <3>3. QED
        BY <3>2
    <2>10. CASE DoneDrain
      BY <2>10 DEF DoneDrain
    <2>11. CASE LookAll \/ LookOne
      <3>1. dirty' \in BOOLEAN
        BY <2>11, Zenon DEF LookAll, LookOne
      <3>2. /\ pc[Worker] \in DoneLoc \cup {"work"}
            /\ pc'[Worker] \notin DoneLoc \cup {"work"}
            /\ newMsg' = newMsg
            /\ SomeoneSetting' <=> SomeoneSetting
        BY <2>11 DEF LookAll, LookOne
      <3>3. Abstract!Look
        BY <3>1, <3>2 DEF Abstract!Look
      <3>4. QED
        BY <3>3
    <2>12. CASE UNCHANGED vars
      BY <2>12 DEF vars
    <2>13. QED
      BY <2>1, <2>2, <2>3, <2>4, <2>5, <2>6, <2>7, <2>8, <2>9, <2>10, <2>11,
         <2>12
      DEF Next, PingNext, WorkerNext
  <1>3. QED
    BY <1>1, <1>2, Inductive, PTL DEF Spec, Abstract!Spec
=============================================================================
