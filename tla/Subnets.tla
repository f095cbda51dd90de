------------------------------ MODULE Subnets ------------------------------
(* network/network.go: intervals of IPv4 addresses. A net.IPNet is a record of *)
(* its address, of how many addresses it holds, and of whether its net.IP has *)
(* 16 bytes (net.IPv4) or 4 (ParseCIDR). Addresses are numbers, small ones in *)
(* the runs; only their order and their multiples of MaskSize matter.         *)
EXTENDS Integers, FiniteSets, Sequences

MaskSize == 256    \* intPow(2, 32 - 24): addresses of a /24, the mask of NewNetworks

IPNet == [ip : Nat, wide : BOOLEAN, size : Nat \ {0}]
Net(ip, size) == [ip |-> ip, wide |-> FALSE, size |-> size]

(* FirstLast. binary.BigEndian.Uint32 reads the first 4 bytes of the address: *)
(* they are zeros when it has 16.                                             *)
First(a) == IF a.wide THEN 0 ELSE a.ip
Last(a) == First(a) - (First(a) % a.size) + a.size - 1

Distance(x, y) == y - x

(* The early returns of NetDistance, in their order.  *)
NetDistance(a, b) ==
  LET af == First(a)
      al == Last(a)
      bf == First(b)
      bl == Last(b)
  IN  IF af = bf /\ al = bl THEN 0
      ELSE IF af >= bf /\ af <= bl THEN 0 - (bl - af)
      ELSE IF bf >= af /\ bf <= al THEN 0 - (al - bf)
      ELSE IF af > bl THEN al - bl
      ELSE bl - al

(* nextNet: the network of the mask that starts after the last address of a.  *)
NextNet(a) == Net(Last(a) + 1, MaskSize)

(* sort.Sort(ByNetwork): To4 reads the address whatever its length.           *)
Less(a, b) == a.ip < b.ip
Sorted(S) == {s \in [1..Cardinality(S) -> S] :
                /\ \A i, j \in 1..Cardinality(S) : i < j => Less(s[i], s[j])
                /\ \A a \in S : \E i \in 1..Cardinality(S) : s[i] = a}

(* What docker and the kernel make of two networks, whatever Go's bytes.      *)
Overlap(a, b) == /\ a.ip <= b.ip + b.size - 1
                 /\ b.ip <= a.ip + a.size - 1

(* The networks NextAvailableNetwork is tested with: /24, with 4-byte addresses. *)
Unit(a) == ~a.wide /\ a.size = MaskSize /\ a.ip % MaskSize = 0
=============================================================================
