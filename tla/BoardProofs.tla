---------------------------- MODULE BoardProofs ----------------------------
(* The scheduler keeps its account of the machine, and what it does with the   *)
(* tasks nobody cancels or deletes is what the task board allows.              *)
EXTENDS RunProofs, FunctionTheorems, FiniteSetTheorems

USE TaskAssumption, BoundAssumption

-----------------------------------------------------------------------------
(* Counting units.                                                             *)
LEMMA UnitsOfNone ==
  ASSUME NEW n
  PROVE  IsFiniteSet(UnitsOf({}, n)) /\ Total({}, n) = 0
<1>1. UnitsOf({}, n) = {}
  BY DEF UnitsOf
<1>2. QED
  BY <1>1, FS_EmptySet DEF Total

(* The units of two sets with none in common add up.                            *)
LEMMA DisjointUnion ==
  ASSUME NEW A, NEW B, IsFiniteSet(A), IsFiniteSet(B), A \cap B = {}
  PROVE  IsFiniteSet(A \cup B) /\ Cardinality(A \cup B) = Cardinality(A) + Cardinality(B)
<1>1. /\ IsFiniteSet(A \cup B)
      /\ Cardinality(A \cup B) = Cardinality(A) + Cardinality(B) - Cardinality(A \cap B)
  BY FS_Union
<1>2. Cardinality(A \cap B) = 0
  BY FS_EmptySet
<1>3. Cardinality(A) \in Nat /\ Cardinality(B) \in Nat
  BY FS_CardinalityType
<1>4. QED
  BY <1>1, <1>2, <1>3

(* One more holder adds what it takes; the others may be counted by any function *)
(* that agrees on them.                                                        *)
LEMMA UnitsOfOneMore ==
  ASSUME NEW S, NEW x, x \notin S, NEW n, NEW m, m[x] \in Nat,
         \A y \in S : m[y] = n[y], IsFiniteSet(UnitsOf(S, n))
  PROVE  /\ IsFiniteSet(UnitsOf(S \cup {x}, m))
         /\ Total(S \cup {x}, m) = Total(S, n) + m[x]
<1>1. UnitsOf(S \cup {x}, m) = UnitsOf(S, n) \cup ({x} \X (1..m[x]))
  BY DEF UnitsOf
<1>2. UnitsOf(S, n) \cap ({x} \X (1..m[x])) = {}
  BY DEF UnitsOf
<1>3. IsFiniteSet({x} \X (1..m[x])) /\ Cardinality({x} \X (1..m[x])) = m[x]
  <2>1. IsFiniteSet({x}) /\ Cardinality({x}) = 1
    BY FS_Singleton
  <2>2. IsFiniteSet(1..m[x]) /\ Cardinality(1..m[x]) = m[x]
    BY FS_Interval
  <2>3. /\ IsFiniteSet({x} \X (1..m[x]))
        /\ Cardinality({x} \X (1..m[x])) = Cardinality({x}) * Cardinality(1..m[x])
    BY <2>1, <2>2, FS_Product
  <2>4. QED
    BY <2>1, <2>2, <2>3
<1>4. /\ IsFiniteSet(UnitsOf(S, n) \cup ({x} \X (1..m[x])))
      /\ Cardinality(UnitsOf(S, n) \cup ({x} \X (1..m[x])))
           = Cardinality(UnitsOf(S, n)) + Cardinality({x} \X (1..m[x]))
  BY <1>2, <1>3, DisjointUnion
<1>5. QED
  BY <1>1, <1>3, <1>4 DEF Total

(* Fewer holders take less.                                                     *)
LEMMA UnitsOfFewer ==
  ASSUME NEW S, NEW n, NEW T \in SUBSET S, NEW m, \A y \in T : m[y] = n[y],
         IsFiniteSet(UnitsOf(S, n))
  PROVE  IsFiniteSet(UnitsOf(T, m)) /\ Total(T, m) <= Total(S, n)
<1>1. UnitsOf(T, m) \subseteq UnitsOf(S, n)
  BY DEF UnitsOf
<1>2. QED
  BY <1>1, FS_Subset DEF Total

(* A set each member of which has a holder of its own, that takes as much, takes *)
(* no more than the holders.                                                    *)
LEMMA UnitsInto ==
  ASSUME NEW S, NEW T, NEW n, NEW m, NEW at \in [S -> T],
         \A x, y \in S : at[x] = at[y] => x = y,
         \A x \in S : m[at[x]] = n[x],
         IsFiniteSet(UnitsOf(T, m))
  PROVE  IsFiniteSet(UnitsOf(S, n)) /\ Total(S, n) <= Total(T, m)
<1>. DEFINE A == UnitsOf(S, n)
            B == UnitsOf(T, m)
            f == [u \in A |-> <<at[u[1]], u[2]>>]
<1>1. \A u \in A : u[1] \in S /\ u[2] \in 1..n[u[1]] /\ u = <<u[1], u[2]>>
  BY DEF UnitsOf
<1>2. \A x \in T : \A i \in 1..m[x] : <<x, i>> \in B
  BY DEF UnitsOf
<1>3. f \in [A -> B]
  <2>1. \A u \in A : <<at[u[1]], u[2]>> \in B
    BY <1>1, <1>2
  <2>2. QED
    BY <2>1
<1>4. \A u, v \in A : f[u] = f[v] => u = v
  BY <1>1
<1>. HIDE DEF A, B, f
<1>5. f \in Injection(A, B)
  BY <1>3, <1>4, Fun_IsInj
<1>6. IsFiniteSet(A) /\ Cardinality(A) <= Cardinality(B)
  BY <1>5, FS_Injection DEF B
<1>7. QED
  BY <1>6 DEF A, B, Total

-----------------------------------------------------------------------------
(* The account.  What each step does to the watchers that hold something.      *)
LEMMA HeldAtConsume ==
  ASSUME TypeOK, Known, NEW w \in Slot, ExecConsume(w), NEW need \in [Task -> Int]
  PROVE  /\ chosen.task \in added /\ chosen.task \in Task
         /\ w \notin Held /\ Held' = Held \cup {w}
         /\ Takes(need)'[w] = need[chosen.task]
         /\ \A v \in Held : Takes(need)'[v] = Takes(need)[v]
<1>. USE DEF TypeOK
<1>1. chosen.task \in added /\ chosen.task \in Task
  BY DEF ExecConsume, Known
<1>2. slot'[w].pc = "up" /\ slot'[w].task = chosen.task /\ slot[w].pc = "free"
  BY DEF ExecConsume, FreeSlot
<1>3. \A v \in Slot \ {w} : slot'[v] = slot[v]
  BY DEF ExecConsume
<1>4. w \notin Held /\ Held' = Held \cup {w}
  BY <1>2, <1>3 DEF Held
<1>5. QED
  BY <1>1, <1>2, <1>3, <1>4 DEF Takes, Held

LEMMA HeldAtRelease ==
  ASSUME TypeOK, Known, NEW w \in Slot, Release(w), NEW need \in [Task -> Int]
  PROVE  /\ slot[w].task \in added /\ slot[w].task \in Task
         /\ w \notin Held' /\ Held = Held' \cup {w}
         /\ Takes(need)[w] = need[slot[w].task]
         /\ \A v \in Held' : Takes(need)[v] = Takes(need)'[v]
<1>. USE DEF TypeOK
<1>1. slot[w].task \in added /\ slot[w].task \in Task
  BY DEF Release, Known
<1>2. slot'[w].pc = "free" /\ slot[w].pc = "release"
  BY DEF Release, FreeSlot
<1>3. \A v \in Slot \ {w} : slot'[v] = slot[v]
  BY DEF Release
<1>4. w \notin Held' /\ Held = Held' \cup {w}
  BY <1>2, <1>3 DEF Held
<1>5. QED
  BY <1>1, <1>2, <1>3, <1>4 DEF Takes, Held

(* Any other step leaves them, and the counters, alone.                         *)
LEMMA HeldElse ==
  ASSUME TypeOK, [Next]_vars, \A w \in Slot : ~ExecConsume(w) /\ ~Release(w),
         NEW need \in [Task -> Int]
  PROVE  Held' = Held /\ Takes(need)' = Takes(need) /\ cpu' = cpu /\ ram' = ram
<1>. USE DEF TypeOK
<1>1. CASE UNCHANGED <<slot, cpu, ram>>
  BY <1>1 DEF Held, Takes
<1>2. ASSUME NEW w \in Slot, NEW pc \in SlotPc \ {"free"}, NEW result \in Results,
             Move(w, pc, result), slot[w].pc # "free", UNCHANGED <<cpu, ram>>
      PROVE  Held' = Held /\ Takes(need)' = Takes(need) /\ cpu' = cpu /\ ram' = ram
  <2>1. /\ slot'[w].pc = pc /\ slot'[w].task = slot[w].task
        /\ \A v \in Slot \ {w} : slot'[v] = slot[v]
    BY <1>2, MoveType
  <2>2. Held' = Held
    BY <1>2, <2>1 DEF Held
  <2>3. \A v \in Held : slot'[v].task = slot[v].task
    BY <2>1 DEF Held
  <2>4. QED
    BY <1>2, <2>2, <2>3 DEF Takes
<1>3. ASSUME NEW w \in Slot, ExecStep(w)
      PROVE  Held' = Held /\ Takes(need)' = Takes(need) /\ cpu' = cpu /\ ram' = ram
  <2>1. \E pc \in {"put", "release", "wait"} : Move(w, pc, "Waiting")
    BY <1>3 DEF ExecStep, ExecUp, ExecUpFail, ExecPutRunning
  <2>2. slot[w].pc # "free" /\ UNCHANGED <<cpu, ram>>
    BY <1>3 DEF ExecStep, ExecUp, ExecUpFail, ExecPutRunning
  <2>3. QED
    BY <1>2, <2>1, <2>2 DEF SlotPc, Results
<1>4. ASSUME NEW w \in Slot, WatchStep(w)
      PROVE  Held' = Held /\ Takes(need)' = Takes(need) /\ cpu' = cpu /\ ram' = ram
  <2>1. slot[w].result \in Results
    BY DEF SlotState
  <2>2. \E pc \in {"inspect", "kill", "save", "ping", "release"}, result \in Results :
          Move(w, pc, result)
    BY <1>4, <2>1 DEF WatchStep, WaitExit, WaitDeadline, WaitError, Kill, KillFail, Inspect,
                     InspectFail, WatchPut, WatchPing, Results
  <2>3. slot[w].pc # "free" /\ UNCHANGED <<cpu, ram>>
    BY <1>4 DEF WatchStep, WaitExit, WaitDeadline, WaitError, Kill, KillFail, Inspect,
               InspectFail, WatchPut, WatchPing, WatcherFrame
  <2>4. QED
    BY <1>2, <2>2, <2>3 DEF SlotPc
<1>5. ASSUME NEW c \in Client, ClientStart(c) \/ ClientStep(c) PROVE UNCHANGED <<slot, cpu, ram>>
  BY <1>5, ClientsFrame
<1>6. CASE LoopStep
  BY <1>1, <1>6, LoopFrame
<1>7. CASE Tick \/ TimerFire \/ UNCHANGED vars \/ \E t \in Task : ContainerExit(t)
  BY <1>1, <1>7 DEF Tick, TimerFire, vars, ContainerExit
<1>8. QED
  BY <1>1, <1>3, <1>4, <1>5, <1>6, <1>7 DEF Next

(* The counters and what is held make up the machine.                           *)
Accounted == /\ IsFiniteSet(UnitsOf(Held, Takes(Cpu)))
             /\ IsFiniteSet(UnitsOf(Held, Takes(Ram)))
             /\ ResourcesConserved

(* What a watcher takes is added to the account ...                             *)
LEMMA AccountConsume ==
  ASSUME TypeOK, Known, NEW w \in Slot, ExecConsume(w), NEW need \in [Task -> Int],
         need[chosen.task] \in Nat, IsFiniteSet(UnitsOf(Held, Takes(need)))
  PROVE  /\ IsFiniteSet(UnitsOf(Held', Takes(need)'))
         /\ Total(Held', Takes(need)') = Total(Held, Takes(need)) + need[chosen.task]
<1>. DEFINE H == Held'
            n == Takes(need)
            m == Takes(need)'
<1>1. w \notin Held /\ H = Held \cup {w} /\ m[w] = need[chosen.task] /\ \A v \in Held : m[v] = n[v]
  BY HeldAtConsume
<1>. HIDE DEF H, m
<1>2. /\ IsFiniteSet(UnitsOf(Held \cup {w}, m))
      /\ Total(Held \cup {w}, m) = Total(Held, n) + m[w]
  BY <1>1, UnitsOfOneMore
<1>3. IsFiniteSet(UnitsOf(H, m)) /\ Total(H, m) = Total(Held, n) + need[chosen.task]
  BY <1>1, <1>2
<1>4. QED
  BY <1>3 DEF H, m

(* ... and what it gives back is removed from it.                                *)
LEMMA AccountRelease ==
  ASSUME TypeOK, Known, NEW w \in Slot, Release(w), NEW need \in [Task -> Int],
         need[slot[w].task] \in Nat, IsFiniteSet(UnitsOf(Held, Takes(need)))
  PROVE  /\ IsFiniteSet(UnitsOf(Held', Takes(need)'))
         /\ Total(Held', Takes(need)') \in Nat
         /\ Total(Held, Takes(need)) = Total(Held', Takes(need)') + need[slot[w].task]
<1>. DEFINE H == Held'
            n == Takes(need)
            m == Takes(need)'
<1>1. w \notin H /\ Held = H \cup {w} /\ n[w] = need[slot[w].task] /\ \A v \in H : n[v] = m[v]
  BY HeldAtRelease
<1>. HIDE DEF H, m
<1>2. H \in SUBSET Held
  BY <1>1
<1>3. IsFiniteSet(UnitsOf(H, m))
  BY <1>1, <1>2, UnitsOfFewer
<1>4. Total(H \cup {w}, n) = Total(H, m) + n[w]
  BY <1>1, <1>3, UnitsOfOneMore
<1>5. Total(H, m) \in Nat
  BY <1>3, FS_CardinalityType DEF Total
<1>6. QED
  BY <1>1, <1>3, <1>4, <1>5 DEF H, m

LEMMA StepAccounted ==
  ASSUME TypeOK, Known, Accounted, [Next]_vars
  PROVE  Accounted'
<1>. DEFINE Sum(need) == Total(Held, Takes(need))
            Finite(need) == IsFiniteSet(UnitsOf(Held, Takes(need)))
<1>0. /\ Finite(Cpu) /\ Finite(Ram) /\ Sum(Cpu) \in Nat /\ Sum(Ram) \in Nat
      /\ cpu = TotalCpu - Sum(Cpu) /\ ram = TotalRam - Sum(Ram)
  BY FS_CardinalityType DEF Accounted, ResourcesConserved, Total
<1>1. SUFFICES /\ Finite(Cpu)' /\ Finite(Ram)'
               /\ cpu' = TotalCpu - Sum(Cpu)' /\ ram' = TotalRam - Sum(Ram)'
  BY DEF Accounted, ResourcesConserved
<1>2. ASSUME NEW w \in Slot, ExecConsume(w)
      PROVE  /\ Finite(Cpu)' /\ Finite(Ram)'
             /\ cpu' = TotalCpu - Sum(Cpu)' /\ ram' = TotalRam - Sum(Ram)'
  <2>1. Cpu[chosen.task] \in Nat /\ Ram[chosen.task] \in Nat
    BY <1>2, HeldAtConsume DEF Known, Admissible, Check
  <2>2. Finite(Cpu)' /\ Sum(Cpu)' = Sum(Cpu) + Cpu[chosen.task]
    BY <1>0, <1>2, <2>1, AccountConsume
  <2>3. Finite(Ram)' /\ Sum(Ram)' = Sum(Ram) + Ram[chosen.task]
    BY <1>0, <1>2, <2>1, AccountConsume
  <2>4. cpu' = cpu - Cpu[chosen.task] /\ ram' = ram - Ram[chosen.task]
    BY <1>2 DEF ExecConsume, Consume
  <2>. HIDE DEF Sum, Finite
  <2>5. QED
    BY <1>0, <2>1, <2>2, <2>3, <2>4
<1>3. ASSUME NEW w \in Slot, Release(w)
      PROVE  /\ Finite(Cpu)' /\ Finite(Ram)'
             /\ cpu' = TotalCpu - Sum(Cpu)' /\ ram' = TotalRam - Sum(Ram)'
  <2>1. Cpu[slot[w].task] \in Nat /\ Ram[slot[w].task] \in Nat
    BY <1>3, HeldAtRelease DEF Known, Admissible, Check
  <2>2. Finite(Cpu)' /\ Sum(Cpu)' \in Nat /\ Sum(Cpu) = Sum(Cpu)' + Cpu[slot[w].task]
    BY <1>0, <1>3, <2>1, AccountRelease
  <2>3. Finite(Ram)' /\ Sum(Ram)' \in Nat /\ Sum(Ram) = Sum(Ram)' + Ram[slot[w].task]
    BY <1>0, <1>3, <2>1, AccountRelease
  <2>4. cpu' = cpu + Cpu[slot[w].task] /\ ram' = ram + Ram[slot[w].task]
    BY <1>3 DEF Release
  <2>. HIDE DEF Sum, Finite
  <2>5. QED
    BY <1>0, <2>1, <2>2, <2>3, <2>4
<1>4. CASE \A w \in Slot : ~ExecConsume(w) /\ ~Release(w)
  <2>1. /\ Held' = Held /\ Takes(Cpu)' = Takes(Cpu) /\ Takes(Ram)' = Takes(Ram)
        /\ cpu' = cpu /\ ram' = ram
    BY <1>4, HeldElse
  <2>2. QED
    BY <1>0, <2>1
<1>5. QED
  BY <1>2, <1>3, <1>4

LEMMA AlwaysAccounted == Spec => []Accounted
<1>1. Init => Accounted
  <2>. SUFFICES ASSUME Init PROVE Accounted
    OBVIOUS
  <2>1. Held = {}
    BY DEF Init, Held, FreeSlot
  <2>2. QED
    BY <2>1, UnitsOfNone DEF Init, Accounted, ResourcesConserved
<1>2. TypeOK /\ Known /\ Accounted /\ [Next]_vars => Accounted'
  BY StepAccounted
<1>3. IInv => TypeOK /\ Known
  BY DEF IInv
<1>4. QED
  BY <1>1, <1>2, <1>3, Inductive, PTL DEF Spec

(* No run leaks capacity and none invents any: what is not free is held, by as    *)
(* many watchers as there may be, and each gives back what it took.              *)
THEOREM NothingLeaks == Spec => []ResourcesConserved
<1>1. Accounted => ResourcesConserved
  BY DEF Accounted
<1>2. QED
  BY <1>1, AlwaysAccounted, PTL
-----------------------------------------------------------------------------
(* The task board.  A task shows its status until someone touches it.            *)
Shown(t) == IF Touched(t) THEN "Gone" ELSE store[t].status

(* Tasks that are held, each by a watcher, take what the watchers hold at most ... *)
LEMMA HeldTasksTake ==
  ASSUME Accounted, NEW S \in SUBSET Task, \A t \in S : \E w \in Held : slot[w].task = t
  PROVE  /\ IsFiniteSet(UnitsOf(S, Cpu)) /\ Total(S, Cpu) <= Total(Held, Takes(Cpu))
         /\ IsFiniteSet(UnitsOf(S, Ram)) /\ Total(S, Ram) <= Total(Held, Takes(Ram))
<1>. DEFINE at == [t \in S |-> CHOOSE w \in Held : slot[w].task = t]
<1>1. \A t \in S : at[t] \in Held /\ slot[at[t]].task = t
  OBVIOUS
<1>2. at \in [S -> Held]
  BY <1>1
<1>. HIDE DEF at
<1>3. \A x, y \in S : at[x] = at[y] => x = y
  BY <1>1
<1>4. \A t \in S : Takes(Cpu)[at[t]] = Cpu[t] /\ Takes(Ram)[at[t]] = Ram[t]
  BY <1>1 DEF Takes
<1>5. IsFiniteSet(UnitsOf(Held, Takes(Cpu))) /\ IsFiniteSet(UnitsOf(Held, Takes(Ram)))
  BY DEF Accounted
<1>6. IsFiniteSet(UnitsOf(S, Cpu)) /\ Total(S, Cpu) <= Total(Held, Takes(Cpu))
  BY <1>2, <1>3, <1>4, <1>5, UnitsInto
<1>7. IsFiniteSet(UnitsOf(S, Ram)) /\ Total(S, Ram) <= Total(Held, Takes(Ram))
  BY <1>2, <1>3, <1>4, <1>5, UnitsInto
<1>8. QED
  BY <1>6, <1>7

(* ... and so fit into the machine.                                              *)
LEMMA HeldTasksFit ==
  ASSUME Accounted, Capacity, NEW S \in SUBSET Task,
         \A t \in S : \E w \in Held : slot[w].task = t
  PROVE  Total(S, Cpu) <= TotalCpu /\ Total(S, Ram) <= TotalRam
<1>1. /\ IsFiniteSet(UnitsOf(S, Cpu)) /\ Total(S, Cpu) <= Total(Held, Takes(Cpu))
      /\ IsFiniteSet(UnitsOf(S, Ram)) /\ Total(S, Ram) <= Total(Held, Takes(Ram))
  BY HeldTasksTake
<1>2. /\ Total(S, Cpu) \in Nat /\ Total(Held, Takes(Cpu)) \in Nat
      /\ Total(S, Ram) \in Nat /\ Total(Held, Takes(Ram)) \in Nat
  BY <1>1, FS_CardinalityType DEF Accounted, Total
<1>3. /\ cpu = TotalCpu - Total(Held, Takes(Cpu)) /\ cpu >= 0
      /\ ram = TotalRam - Total(Held, Takes(Ram)) /\ ram >= 0
  BY DEF Accounted, ResourcesConserved, Capacity
<1>4. QED
  BY <1>1, <1>2, <1>3

(* A task that passed Check fits into the machine when it is alone.              *)
LEMMA CheckedFits ==
  ASSUME NEW t \in Task, Check(t)
  PROVE  Total({t}, Cpu) <= TotalCpu /\ Total({t}, Ram) <= TotalRam
<1>1. Cpu[t] \in Nat /\ Ram[t] \in Nat /\ Cpu[t] <= TotalCpu /\ Ram[t] <= TotalRam
  BY DEF Check
<1>2. ASSUME NEW need \in [Task -> Int], need[t] \in Nat PROVE Total({t}, need) = need[t]
  <2>. DEFINE none == {}
  <2>1. /\ IsFiniteSet(UnitsOf(none, need)) /\ Total(none, need) = 0
        /\ t \notin none /\ \A y \in none : need[y] = need[y]
    BY UnitsOfNone
  <2>2. none \cup {t} = {t}
    OBVIOUS
  <2>. HIDE DEF none
  <2>3. Total(none \cup {t}, need) = Total(none, need) + need[t]
    BY <1>2, <2>1, UnitsOfOneMore
  <2>4. QED
    BY <1>2, <2>1, <2>2, <2>3
<1>3. QED
  BY <1>1, <1>2

(* What a step does to what one task shows is a step of the board, or nothing.    *)
OneMoves(t, s) == /\ Shown(t)' = s
                  /\ \A u \in Task \ {t} : Shown(u)' = Shown(u)

Moves == \/ \A t \in Task : Shown(t)' \in {Shown(t), "Gone"}
         \/ \E t \in Task :
              \/ Shown(t) = "Absent" /\ Check(t) /\ OneMoves(t, "Waiting")
              \/ /\ Shown(t) = "Waiting" /\ OneMoves(t, "Running")
                 /\ \A u \in Task : Shown(u) = "Running" \/ u = t
                                      => \E w \in Held : slot[w].task = u
              \/ Shown(t) = "Waiting" /\ OneMoves(t, "Error")
              \/ /\ Shown(t) = "Running"
                 /\ \E s \in {"Done", "Timeout", "Error"} : OneMoves(t, s)
              \/ Shown(t) = "Running" /\ t \in Requeued /\ OneMoves(t, "Waiting")

LEMMA MovesOnBoard ==
  ASSUME Accounted, Capacity, Moves
  PROVE  Board!Next
<1>2. ASSUME NEW t \in Task, NEW s, OneMoves(t, s) PROVE Board!Becomes(t, s)
  BY <1>2 DEF OneMoves, Board!Becomes, Shown
<1>3. ASSUME NEW t \in Task, NEW s PROVE Board!Is(t, s) <=> Shown(t) = s
  BY DEF Board!Is, Shown
<1>0. ASSUME NEW S, Total(S, Cpu) <= TotalCpu, Total(S, Ram) <= TotalRam PROVE Board!Fits(S)
  BY <1>0, Zenon DEF Board!Fits, Board!Total, Board!UnitsOf, Board!Cardinality, Total, UnitsOf, Cardinality
<1>4. ASSUME \A t \in Task : Shown(t)' \in {Shown(t), "Gone"} PROVE \E S \in SUBSET Task : Board!Forget(S)
  <2>1. \E S \in SUBSET Task : \A t \in Task : t \in S <=> Shown(t)' = "Gone"
    <3>. WITNESS {t \in Task : Shown(t)' = "Gone"} \in SUBSET Task
    <3>. QED
      OBVIOUS
  <2>2. PICK S \in SUBSET Task : \A t \in Task : t \in S <=> Shown(t)' = "Gone"
    BY <2>1
  <2>3. Board!Forget(S)
    BY <1>4, <2>2 DEF Board!Forget, Shown
  <2>4. QED
    BY <2>3
<1>5. ASSUME NEW t \in Task, Shown(t) = "Absent", Check(t), OneMoves(t, "Waiting")
      PROVE  Board!Submit(t)
  BY <1>0, <1>2, <1>3, <1>5, CheckedFits DEF Board!Submit
<1>6. ASSUME NEW t \in Task, Shown(t) = "Waiting", OneMoves(t, "Running"),
             \A u \in Task : Shown(u) = "Running" \/ u = t => \E w \in Held : slot[w].task = u
      PROVE  Board!Start(t)
  <2>. DEFINE R == Board!Running \cup {t}
  <2>1. R \in SUBSET Task /\ \A u \in R : \E w \in Held : slot[w].task = u
    BY <1>3, <1>6 DEF Board!Running
  <2>. HIDE DEF R
  <2>2. Total(R, Cpu) <= TotalCpu /\ Total(R, Ram) <= TotalRam
    BY <2>1, HeldTasksFit
  <2>3. QED
    BY <1>0, <1>2, <1>3, <1>6, <2>2 DEF R, Board!Start
<1>7. ASSUME NEW t \in Task, Shown(t) = "Waiting", OneMoves(t, "Error")
      PROVE  Board!Refuse(t)
  BY <1>2, <1>3, <1>7 DEF Board!Refuse
<1>8. ASSUME NEW t \in Task, Shown(t) = "Running",
             NEW s \in {"Done", "Timeout", "Error"}, OneMoves(t, s)
      PROVE  Board!Finish(t)
  BY <1>2, <1>3, <1>8 DEF Board!Finish
<1>9. ASSUME NEW t \in Task, Shown(t) = "Running", t \in Requeued, OneMoves(t, "Waiting")
      PROVE  Board!Requeue(t)
  BY <1>2, <1>3, <1>9 DEF Board!Requeue
<1>10. QED
  BY <1>4, <1>5, <1>6, <1>7, <1>8, <1>9 DEF Moves, Board!Next

(* A step that changes no status and touches no task is not seen on the board.   *)
LEMMA Quiet ==
  ASSUME \A t \in Task : Touched(t)' = Touched(t),
         \A t \in Task : store'[t].status = store[t].status
  PROVE  Moves
  BY DEF Moves, Shown

(* A step that changes the status of one task moves that task, unless someone     *)
(* touched it.                                                                  *)
LEMMA Change ==
  ASSUME \A t \in Task : Touched(t)' = Touched(t),
         NEW t \in Task, \A u \in Task \ {t} : store'[u] = store[u]
  PROVE  IF Touched(t) THEN Moves ELSE OneMoves(t, store'[t].status)
  BY DEF Moves, OneMoves, Shown

LEMMA LoopMoves ==
  ASSUME TypeOK, Known, Sole, LoopStep
  PROVE  Moves
<1>1. \A t \in Task : Touched(t)' = Touched(t)
  BY LoopFrame DEF Touched
<1>2. CASE ExecPutError
  <2>. DEFINE t == chosen.task
  <2>1. t \in Task
    BY <1>2 DEF ExecPutError, Known, TypeOK
  <2>2. store'[t].status = "Error" /\ \A u \in Task \ {t} : store'[u] = store[u]
    BY <1>2, <2>1 DEF ExecPutError, Put, Record, TypeOK
  <2>3. ~Touched(t) => Shown(t) = "Waiting"
    BY <2>1 DEF Sole, Shown
  <2>. HIDE DEF t
  <2>4. QED
    BY <1>1, <2>1, <2>2, <2>3, Change DEF Moves
<1>3. CASE ~ExecPutError
  <2>1. store' = store
    BY <1>3 DEF LoopStep, LoopWake, LoopPick, LoopNothing, LoopSleep, LoopPing
  <2>2. QED
    BY <1>1, <2>1, Quiet
<1>4. QED
  BY <1>2, <1>3

LEMMA ExecMoves ==
  ASSUME TypeOK, Known, Starting, Watched, Sole, NEW w \in Slot, ExecStep(w)
  PROVE  Moves
<1>1. \A t \in Task : Touched(t)' = Touched(t)
  BY ExecFrame DEF Touched
<1>2. CASE ExecPutRunning(w)
  <2>. DEFINE t == chosen.task
  <2>1. t \in Task /\ slot[w].task = t /\ w \in Held
    BY <1>2 DEF ExecPutRunning, Known, Starting, TypeOK, Held
  <2>2. store'[t].status = "Running" /\ \A u \in Task \ {t} : store'[u] = store[u]
    BY <1>2, <2>1 DEF ExecPutRunning, Put, Record, TypeOK
  <2>3. ~Touched(t) => Shown(t) = "Waiting"
    BY <2>1 DEF Sole, Shown
  <2>. HIDE DEF t
  <2>4. ASSUME NEW u \in Task, Shown(u) = "Running" \/ u = t
        PROVE  \E v \in Held : slot[v].task = u
    <3>1. CASE u = t
      BY <2>1, <3>1
    <3>2. CASE Shown(u) = "Running"
      <4>1. store[u].status = "Running"
        BY <3>2 DEF Shown
      <4>2. PICK v \in Slot : Watches(v, u)
        BY <4>1 DEF Watched
      <4>3. QED
        BY <4>2 DEF Watches, Held
    <3>3. QED
      BY <2>4, <3>1, <3>2
  <2>5. CASE Touched(t)
    BY <1>1, <2>1, <2>2, <2>5, Change
  <2>6. CASE ~Touched(t)
    <3>1. OneMoves(t, "Running")
      BY <1>1, <2>1, <2>2, <2>6, Change
    <3>2. QED
      BY <2>1, <2>3, <2>4, <2>6, <3>1 DEF Moves
  <2>7. QED
    BY <2>5, <2>6
<1>3. CASE ~ExecPutRunning(w)
  <2>1. store' = store
    BY <1>3 DEF ExecStep, ExecConsume, ExecUp, ExecUpFail
  <2>2. QED
    BY <1>1, <2>1, Quiet
<1>4. QED
  BY <1>2, <1>3

(* What a watcher stores after a run of an untouched task.                       *)
LEMMA WatcherMoves ==
  ASSUME TypeOK, Known, Sole, Told, NEW w \in Slot, WatchStep(w)
  PROVE  Moves
<1>1. \A t \in Task : Touched(t)' = Touched(t)
  BY WatchFrame DEF Touched
<1>2. CASE WatchPut(w)
  <2>. DEFINE t == slot[w].task
              result == slot[w].result
  <2>1. t \in Task /\ Watches(w, t) /\ result \in Results /\ slot[w].pc = "save"
    BY <1>2 DEF WatchPut, Known, TypeOK, SlotState, Watches
  <2>2. store'[t] = AfterRun(t, result) /\ \A u \in Task \ {t} : store'[u] = store[u]
    BY <1>2, <2>1 DEF WatchPut, Put, TypeOK
  <2>3. CASE Touched(t)
    BY <1>1, <2>1, <2>2, <2>3, Change
  <2>4. CASE ~Touched(t)
    <3>1. Shown(t) = "Running"
      BY <2>1, <2>4 DEF Sole, Shown
    <3>2. result = "Waiting" => "exitedN" \in Exits
      BY <2>1, <2>4 DEF Told, Tells
    <3>3. OneMoves(t, store'[t].status)
      BY <1>1, <2>1, <2>2, <2>4, Change
    <3>. HIDE DEF t, result
    <3>4. CASE Recurrence[t] = "once"
      <4>1. store'[t].status = result
        BY <2>2, <3>4 DEF AfterRun, Record
      <4>2. CASE result = "Waiting"
        BY <2>1, <3>1, <3>2, <3>3, <4>1, <4>2 DEF Moves, Requeued
      <4>3. CASE result \in {"Done", "Timeout", "Error"}
        BY <2>1, <3>1, <3>3, <4>1, <4>3 DEF Moves
      <4>4. QED
        BY <2>1, <4>2, <4>3 DEF Results
    <3>5. CASE Recurrence[t] = "every"
      <4>1. store'[t].status = "Waiting" /\ t \in Requeued
        BY <2>1, <2>2, <3>5 DEF AfterRun, Record, Requeued
      <4>2. QED
        BY <2>1, <3>1, <3>3, <4>1 DEF Moves
    <3>6. CASE Recurrence[t] = "badcron"
      <4>1. store'[t].status = "Error"
        BY <2>2, <3>6 DEF AfterRun, Record
      <4>2. QED
        BY <2>1, <3>1, <3>3, <4>1 DEF Moves
    <3>7. QED
      BY <2>1, <3>4, <3>5, <3>6
  <2>5. QED
    BY <2>3, <2>4
<1>3. CASE ~WatchPut(w)
  BY <1>1, <1>3, WatchMoves, Quiet
<1>4. QED
  BY <1>2, <1>3

LEMMA ClientMoves ==
  ASSUME TypeOK, Known, [Next]_vars, NEW c \in Client, ClientStart(c) \/ ClientStep(c)
  PROVE  Moves
<1>1. \A t \in Task : Touched(t) => Shown(t)' = "Gone" /\ Shown(t) = "Gone"
  BY TouchedStays DEF Shown
<1>2. ASSUME NEW t \in Task, ~Touched(t)', store'[t].status = store[t].status
      PROVE  Shown(t)' = Shown(t)
  BY <1>1, <1>2 DEF Shown
<1>3. ASSUME NEW t \in Task, Add(c, t) PROVE Moves
  <2>1. /\ t \notin added /\ Check(t) /\ store'[t].status = "Waiting"
        /\ \A u \in Task \ {t} : store'[u] = store[u]
    BY <1>3 DEF Add, Admissible, Put, Record, TypeOK
  <2>2. \A u \in Task : Touched(u)' = Touched(u)
    <3>1. \A d \in Client : call'[d].task = call[d].task
      BY <1>3 DEF Add, IdleCall, Known, TypeOK
    <3>2. canceled' = canceled /\ deleted' = deleted
      BY <1>3 DEF Add
    <3>3. QED
      BY <3>1, <3>2 DEF Touched
  <2>3. ~Touched(t) => Shown(t) = "Absent"
    BY <2>1 DEF Known, Stored, Shown
  <2>4. QED
    BY <2>1, <2>2, <2>3, Change DEF Moves
<1>4. ASSUME \A u \in Task : ~Add(c, u) PROVE Moves
  <2>1. ASSUME NEW t \in Task PROVE Shown(t)' \in {Shown(t), "Gone"}
    <3>1. CASE Touched(t)'
      BY <3>1 DEF Shown
    <3>2. CASE ~Touched(t)'
      <4>1. ~Touched(t)
        BY <3>2, TouchedStays
      <4>2. store'[t] = store[t]
        <5>1. CASE CancelPut(c) \/ DeleteStore(c)
          <6>1. call[c].task # t
            BY <4>1 DEF Touched
          <6>2. QED
            BY <5>1, <6>1 DEF CancelPut, DeleteStore, Put, TypeOK
        <5>2. CASE Flush(c)
          BY <3>2, <5>2 DEF Flush, Touched
        <5>3. QED
          BY <1>4, <5>1, <5>2
          DEF ClientStart, ClientStep, CancelGet, DeleteGet, AddPing, DownStop, DownRemove,
              DownFail
      <4>3. QED
        BY <1>2, <3>2, <4>2
    <3>3. QED
      BY <3>1, <3>2
  <2>2. QED
    BY <2>1 DEF Moves
<1>5. QED
  BY <1>3, <1>4

LEMMA StepMoves ==
  ASSUME IInv, Told, [Next]_vars
  PROVE  Moves
<1>. USE DEF IInv
<1>1. ASSUME NEW w \in Slot, ExecStep(w) PROVE Moves
  BY <1>1, ExecMoves
<1>2. ASSUME NEW w \in Slot, WatchStep(w) PROVE Moves
  BY <1>2, WatcherMoves
<1>3. ASSUME NEW c \in Client, ClientStart(c) \/ ClientStep(c) PROVE Moves
  BY <1>3, ClientMoves
<1>4. CASE Tick
  <2>1. \A t \in Task : store'[t].status = store[t].status
    BY <1>4, LaterType DEF Tick, TypeOK
  <2>2. \A t \in Task : Touched(t)' = Touched(t)
    <3>1. \A c \in Client : call'[c].task = call[c].task
      BY <1>4 DEF Tick, TypeOK, CallState
    <3>2. canceled' = canceled /\ deleted' = deleted
      BY <1>4 DEF Tick
    <3>3. QED
      BY <3>1, <3>2 DEF Touched
  <2>3. QED
    BY <2>1, <2>2, Quiet
<1>5. CASE TimerFire \/ UNCHANGED vars \/ \E t \in Task : ContainerExit(t)
  <2>1. store' = store /\ call' = call /\ canceled' = canceled /\ deleted' = deleted
    BY <1>5 DEF TimerFire, vars, ContainerExit, clientVars
  <2>2. \A t \in Task : Touched(t)' = Touched(t)
    BY <2>1 DEF Touched
  <2>3. QED
    BY <2>1, <2>2, Quiet
<1>6. CASE LoopStep
  BY <1>6, LoopMoves
<1>7. QED
  BY <1>1, <1>2, <1>3, <1>4, <1>5, <1>6 DEF Next

(* The scheduler implements the task board: a task nobody cancels or deletes is    *)
(* run only when the machine has room for it and for every other one that runs,   *)
(* ends in a state that says so, and stays there.                                 *)
THEOREM SchedulerImplementsTaskBoard == Spec => ImplementsTaskBoard
<1>1. Init => Board!Init
  <2>. SUFFICES ASSUME Init PROVE Board!Init
    OBVIOUS
  <2>1. \A t \in Task : ~Touched(t) /\ store[t].status = "Absent"
    BY DEF Init, Touched, IdleCall, Absent, Record
  <2>2. QED
    BY <2>1 DEF Board!Init
<1>2. IInv /\ Told /\ Accounted /\ [Next]_vars
        => [Board!Next]_([t \in Task |-> IF Touched(t) THEN "Gone" ELSE store[t].status])
  BY StepMoves, MovesOnBoard DEF IInv
<1>3. QED
  BY <1>1, <1>2, Inductive, AlwaysTold, AlwaysAccounted, PTL
  DEF Spec, ImplementsTaskBoard, Board!Spec
=============================================================================
