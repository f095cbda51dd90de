------------------------------ MODULE RWMutex ------------------------------
(* sync.RWMutex as a value: goroutines that read, the one that writes and those *)
(* that wait to write, which keep new readers out.                            *)
EXTENDS Naturals, FiniteSets

Unlocked == [readers |-> {}, writer |-> {}, queue |-> {}]
Mutex(P) == [readers : SUBSET P, writer : {W \in SUBSET P : Cardinality(W) <= 1}, queue : SUBSET P]

MayRead(m) == m.writer = {} /\ m.queue = {}
RLock(m, p) == [m EXCEPT !.readers = @ \cup {p}]
RUnlock(m, p) == [m EXCEPT !.readers = @ \ {p}]

Want(m, p) == [m EXCEPT !.queue = @ \cup {p}]
MayWrite(m, p) == p \in m.queue /\ m.readers = {} /\ m.writer = {}
Lock(m, p) == [m EXCEPT !.queue = @ \ {p}, !.writer = {p}]
Unlock(m) == [m EXCEPT !.writer = {}]
=============================================================================
