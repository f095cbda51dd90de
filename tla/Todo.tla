-------------------------------- MODULE Todo --------------------------------
(* todo/todo.go: the mutex, the flag and the one-place channel by which every  *)
(* goroutine of the scheduler wakes the main loop.  The two methods are cut    *)
(* where another goroutine can act: Ping between the channel send and the      *)
(* assignment of newMsg (the receiver does not take the mutex), and the loop   *)
(* between its receive and Done.                                               *)
EXTENDS Naturals

CONSTANTS Pinger,   \* goroutines that call Ping: API handlers, watchers, timers
          Worker,   \* the goroutine of the main loop, which also calls Ping
          NoProc

ASSUME ProcAssumption == /\ Worker \notin Pinger
                         /\ NoProc \notin Pinger \cup {Worker}

VARIABLES lock,     \* holder of Todo.lock, or NoProc
          newMsg,   \* Todo.newMsg
          wait,     \* number of elements in the channel Todo.wait
          pc,       \* where each goroutine is
          dirty     \* work was published that the main loop has not looked at

vars == <<lock, newMsg, wait, pc, dirty>>

Proc == Pinger \cup {Worker}

ChanCap == 1

PingLoc == {"pingLock", "pingTest", "pingSet"}
DoneLoc == {"doneLock", "doneTest", "drain"}
Critical == {"pingTest", "pingSet", "doneTest", "drain"}

(* Load runs one turn of the loop before Start selects on the channel.  *)
Init == /\ lock = NoProc
        /\ newMsg = FALSE
        /\ wait = 0
        /\ dirty = FALSE
        /\ \E first \in {"select", "doneLock"} :
              pc = [p \in Proc |-> IF p = Worker THEN first ELSE "idle"]

AfterPing(p) == IF p = Worker THEN "select" ELSE "idle"

-----------------------------------------------------------------------------
(* Mistakes: what an action below would be with one line of the code wrong.   *)
(* Each breaks a property, which the action of the code satisfies.            *)

PingSendAnyway(p) == /\ pc[p] = "pingTest"
                     /\ wait' = wait + 1
                     /\ pc' = [pc EXCEPT ![p] = "pingSet"]
                     /\ UNCHANGED <<lock, newMsg, dirty>>

ReceiveForgetsDone == /\ pc[Worker] = "select"
                      /\ wait > 0
                      /\ wait' = wait - 1
                      /\ pc' = [pc EXCEPT ![Worker] = "work"]
                      /\ UNCHANGED <<lock, newMsg, dirty>>

DoneForgetsReset == /\ pc[Worker] = "doneTest"
                    /\ newMsg
                    /\ pc' = [pc EXCEPT ![Worker] = "drain"]
                    /\ UNCHANGED <<lock, newMsg, wait, dirty>>

DoneForgetsDrain == /\ pc[Worker] = "drain"
                    /\ lock' = NoProc
                    /\ pc' = [pc EXCEPT ![Worker] = "work"]
                    /\ UNCHANGED <<newMsg, wait, dirty>>

LookOneForgetsPing == /\ pc[Worker] = "work"
                      /\ dirty' = TRUE
                      /\ pc' = [pc EXCEPT ![Worker] = "select"]
                      /\ UNCHANGED <<lock, newMsg, wait>>

-----------------------------------------------------------------------------
(* Ping                                                                      *)

(* The caller of Ping has just changed something: a Put, a release, a deadline. *)
Publish(p) == /\ pc[p] = "idle"
              /\ dirty' = TRUE
              /\ pc' = [pc EXCEPT ![p] = "pingLock"]
              /\ UNCHANGED <<lock, newMsg, wait>>

Lock(p, from, to) == /\ pc[p] = from
                     /\ lock = NoProc
                     /\ lock' = p
                     /\ pc' = [pc EXCEPT ![p] = to]
                     /\ UNCHANGED <<newMsg, wait, dirty>>

PingLock(p) == Lock(p, "pingLock", "pingTest")

PingSkip(p) == /\ pc[p] = "pingTest"
               /\ newMsg
               /\ lock' = NoProc
               /\ pc' = [pc EXCEPT ![p] = AfterPing(p)]
               /\ UNCHANGED <<newMsg, wait, dirty>>

(* t.wait <- new(interface{}): a send on a full channel would block with the mutex held. *)
PingSend(p) == /\ pc[p] = "pingTest"
               /\ ~newMsg
               /\ wait < ChanCap
               /\ wait' = wait + 1
               /\ pc' = [pc EXCEPT ![p] = "pingSet"]
               /\ UNCHANGED <<lock, newMsg, dirty>>

PingSet(p) == /\ pc[p] = "pingSet"
              /\ newMsg' = TRUE
              /\ lock' = NoProc
              /\ pc' = [pc EXCEPT ![p] = AfterPing(p)]
              /\ UNCHANGED <<wait, dirty>>

-----------------------------------------------------------------------------
(* The main loop: receive, Done, look, perhaps Ping                          *)

Receive == /\ pc[Worker] = "select"
           /\ wait > 0
           /\ wait' = wait - 1
           /\ pc' = [pc EXCEPT ![Worker] = "doneLock"]
           /\ UNCHANGED <<lock, newMsg, dirty>>

DoneLock == Lock(Worker, "doneLock", "doneTest")

DoneSkip == /\ pc[Worker] = "doneTest"
            /\ ~newMsg
            /\ lock' = NoProc
            /\ pc' = [pc EXCEPT ![Worker] = "work"]
            /\ UNCHANGED <<newMsg, wait, dirty>>

DoneReset == /\ pc[Worker] = "doneTest"
             /\ newMsg
             /\ newMsg' = FALSE
             /\ pc' = [pc EXCEPT ![Worker] = "drain"]
             /\ UNCHANGED <<lock, wait, dirty>>

DoneDrain == /\ pc[Worker] = "drain"
             /\ wait' = IF wait > 0 THEN wait - 1 ELSE wait
             /\ lock' = NoProc
             /\ pc' = [pc EXCEPT ![Worker] = "work"]
             /\ UNCHANGED <<newMsg, dirty>>

(* oneLoop found nothing ready: all that was published has been seen.  *)
LookAll == /\ pc[Worker] = "work"
           /\ dirty' = FALSE
           /\ pc' = [pc EXCEPT ![Worker] = "select"]
           /\ UNCHANGED <<lock, newMsg, wait>>

(* oneLoop executed one task; others may be ready, so it pings itself.  *)
LookOne == /\ pc[Worker] = "work"
           /\ dirty' = TRUE
           /\ pc' = [pc EXCEPT ![Worker] = "pingLock"]
           /\ UNCHANGED <<lock, newMsg, wait>>

-----------------------------------------------------------------------------
PingNext(p) == PingSkip(p) \/ PingSend(p) \/ PingSet(p)
WorkerNext == Receive \/ DoneSkip \/ DoneReset \/ DoneDrain \/ LookAll \/ LookOne

Next == \/ \E p \in Pinger : Publish(p)
        \/ \E p \in Proc : PingLock(p) \/ PingNext(p)
        \/ DoneLock
        \/ WorkerNext

Spec == Init /\ [][Next]_vars

(* Goroutines are scheduled; sync.Mutex hands itself to a waiter that has   *)
(* starved for a millisecond, hence strong fairness on the lock steps.      *)
Fairness == /\ \A p \in Proc : SF_vars(PingLock(p)) /\ WF_vars(PingNext(p))
            /\ SF_vars(DoneLock)
            /\ WF_vars(WorkerNext)

FairSpec == Spec /\ Fairness

-----------------------------------------------------------------------------
(* Properties                                                                *)

(* The values the variables take.  *)
TypeOK == /\ lock \in Proc \cup {NoProc}
          /\ newMsg \in BOOLEAN
          /\ wait \in 0..ChanCap
          /\ dirty \in BOOLEAN
          /\ pc \in [Proc -> {"idle", "select", "work"} \cup PingLoc \cup DoneLoc]

(* The mutex is held by exactly the goroutine that is between Lock and Unlock. *)
MutexInv == \A p \in Proc : pc[p] \in Critical <=> lock = p

SomeoneSetting == \E p \in Proc : pc[p] = "pingSet"

(* An element in the channel is announced by newMsg, or about to be, or is  *)
(* about to be flushed.                                                     *)
ChannelAnnounced == wait > 0 => \/ newMsg
                                \/ SomeoneSetting
                                \/ pc[Worker] = "drain"

(* newMsg, on which Ping gives up, means that a look is still to come, and  *)
(* the channel is only flushed once newMsg is reset.                        *)
FlagMeansALook == newMsg \/ SomeoneSetting =>
                    /\ pc[Worker] # "drain"
                    /\ wait > 0 \/ pc[Worker] \in {"doneLock", "doneTest"}

(* Ping sends on the channel with the mutex held: the send always finds room, *)
(* or every later Ping and Done would block behind it.                        *)
PingNeverBlocks == \A p \in Proc : pc[p] = "pingTest" /\ ~newMsg => wait < ChanCap

(* Work published before a Ping is never forgotten: a Ping is under way, or   *)
(* the channel wakes the loop, or the loop is awake and has yet to look.      *)
NoLostPing == dirty => \/ \E p \in Proc : pc[p] \in PingLoc
                       \/ wait > 0
                       \/ pc[Worker] \in DoneLoc \cup {"work"}

(* Published work is looked at, however the Pings and the Dones interleave.  *)
WorkIsLookedAt == dirty ~> pc[Worker] = "work"

(* The mutex, the flag and the channel together implement the coalescing signal. *)
Abstract == INSTANCE Signal WITH owed <- newMsg \/ SomeoneSetting,
                                 awake <- pc[Worker] \in DoneLoc \cup {"work"}

ImplementsSignal == Abstract!FairSpec
=============================================================================
