------------------------------- MODULE Store -------------------------------
(* store/memory.go and store/bbolt.go: one value for each key. A write is one   *)
(* step, under the lock of the map or in a transaction of its own; ForEach     *)
(* calls back for one key after another, under the read lock of the map, or in *)
(* a read transaction, which keeps the values of its begin. bbolt lets a write *)
(* commit meanwhile, unless the file grows and has to be mapped again.         *)
EXTENDS Naturals, FiniteSets

CONSTANTS
  Key,
  Absent,     \* the value of a key that is not there
  Scanner,    \* goroutines that call ForEach
  Kind        \* the stores: [bolt: which of the two, grows: a write maps the file again]

ASSUME KindAssumption == \A k \in Kind : k.bolt \in BOOLEAN /\ k.grows \in BOOLEAN

VARIABLES
  kind,   \* the store that was opened; never changes
  kv,     \* the map, or the last committed bucket
  scan    \* of each scanner: [on, view: kv when ForEach began, rest: keys to come, got]

stVars == <<kind, kv, scan>>

NoScan == [on |-> FALSE, view |-> <<>>, rest |-> {}, got |-> {}]
Present(m) == {k \in DOMAIN m : m[k] # Absent}

SInit == /\ kind \in Kind
         /\ scan = [p \in Scanner |-> NoScan]

-----------------------------------------------------------------------------
(* Mistakes, one line of the code wrong each.                                *)

WriteWithoutLock == TRUE

-----------------------------------------------------------------------------
(* m.lock.Lock waits for the ForEach that are on, in whatever goroutine; so does *)
(* the new mapping of a file, for the read transactions.                        *)
Writable == (kind.bolt /\ ~kind.grows) \/ \A p \in Scanner : ~scan[p].on

Write(k, v) == /\ Writable
               /\ kv' = [kv EXCEPT ![k] = v]
               /\ UNCHANGED <<kind, scan>>

ScanBegin(p) == /\ ~scan[p].on
                /\ scan' = [scan EXCEPT ![p] =
                              [on |-> TRUE, view |-> kv, rest |-> Present(kv), got |-> {}]]
                /\ UNCHANGED <<kind, kv>>

(* The callback gets the key with its value, in the map or in the transaction.  *)
Value(p, k) == IF kind.bolt THEN scan[p].view[k] ELSE kv[k]
ScanNext(p, k) == /\ k \in scan[p].rest
                  /\ scan' = [scan EXCEPT ![p].rest = @ \ {k},
                                          ![p].got = @ \cup {<<k, Value(p, k)>>}]
                  /\ UNCHANGED <<kind, kv>>

ScanEnd(p) == /\ scan[p].on /\ scan[p].rest = {}
              /\ scan' = [scan EXCEPT ![p] = NoScan]
              /\ UNCHANGED <<kind, kv>>

-----------------------------------------------------------------------------
(* ForEach is a snapshot: what its callbacks have got is what was stored at one *)
(* moment, whoever writes meanwhile; the loop, Filter and Load rely on it.      *)
ScanIsASnapshot ==
  \A p \in Scanner : scan[p].on =>
    scan[p].got = {<<k, scan[p].view[k]>> : k \in Present(scan[p].view) \ scan[p].rest}
=============================================================================
