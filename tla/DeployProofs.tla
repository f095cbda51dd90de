---------------------------- MODULE DeployProofs ----------------------------
(* What Networks.New promises while tasks are deployed: for any range, any     *)
(* networks of others, any documents, any failure of docker and any number of  *)
(* stops of the process.                                                       *)
EXTENDS Deploy, FiniteSetTheorems, TLAPS

-----------------------------------------------------------------------------
(* The inductive invariant.  The listing that New works with is sorted.        *)
Ordered == \A i, j \in 1..Len(subnets) : i < j => subnets[i].ip < subnets[j].ip

(* The walk has gone through the range network by network, and has found each   *)
(* one taken: net is the next, and there was no room after the last.            *)
Step24(i) == setting.mini.ip + MaskSize * (i - 1)
Walking == /\ subnets # <<>> /\ ~Room
           /\ poz \in 1..(Len(subnets) + 1)
           /\ net = Net(Step24(poz), MaskSize)
           /\ \A i \in 1..Len(subnets) : i < poz => subnets[i].ip = Step24(i)

(* From the lookup to the answer, nobody else gives the project a network.      *)
Alone == /\ \A d, e \in Ours : d = e
         /\ pc \in {"list", "next", "walk", "create", "prune"} => Ours = {}

NetInv == /\ NetType
          /\ IsFiniteSet(Listed)
          /\ Ordered
          /\ pc = "walk" /\ Plain => Walking
          /\ ProposedIsFree
          /\ Alone

(* What a step of Deploy that is none of Networks may do to the allocator.      *)
Reset == /\ UNCHANGED <<setting, docker>>
         /\ \/ Return("none")
            \/ UNCHANGED <<pc, locals>> /\ answer' = "none"

-----------------------------------------------------------------------------
(* nextNet of any network is one.                                              *)
LEMMA NextNetType == ASSUME NEW a \in IPNet PROVE NextNet(a) \in IPNet
<1>. DEFINE f == First(a)
            m == First(a) % a.size
<1>1. a.ip \in Nat /\ a.size \in Nat \ {0}
  BY DEF IPNet
<1>2. f \in Nat
  BY <1>1 DEF First
<1>3. m \in 0..(a.size - 1)
  BY <1>1, <1>2
<1>4. Last(a) = f - m + a.size - 1
  BY DEF Last
<1>. HIDE DEF f, m
<1>5. Last(a) + 1 \in Nat
  BY <1>1, <1>2, <1>3, <1>4
<1>6. QED
  BY <1>5 DEF NextNet, Net, IPNet, MaskSize

(* Networks of the size of the mask, at multiples of it.                       *)

(* FirstLast of such a network, and the network that follows it.               *)
LEMMA UnitEnds ==
  ASSUME NEW a \in IPNet, Unit(a)
  PROVE  /\ a.ip \in Nat /\ First(a) = a.ip /\ Last(a) = a.ip + 255
         /\ a.size = 256 /\ NextNet(a) = Net(a.ip + 256, 256)
         /\ NextNet(a) \in IPNet /\ Unit(NextNet(a))
<1>1. a.ip \in Nat /\ ~a.wide /\ a.size = 256 /\ a.ip % 256 = 0
  BY DEF IPNet, Unit, MaskSize
<1>2. First(a) = a.ip /\ Last(a) = a.ip + 255
  BY <1>1 DEF First, Last
<1>3. NextNet(a) = Net(a.ip + 256, 256)
  BY <1>1, <1>2 DEF NextNet, MaskSize
<1>4. (a.ip + 256) % 256 = 0
  BY <1>1
<1>5. NextNet(a) \in IPNet /\ Unit(NextNet(a))
  BY <1>1, <1>3, <1>4 DEF Net, IPNet, Unit, MaskSize
<1>6. QED
  BY <1>1, <1>2, <1>3, <1>5

(* Its address says all of it.                                                 *)
LEMMA UnitIsNet ==
  ASSUME NEW a \in IPNet, Unit(a)
  PROVE  a = Net(a.ip, 256)
<1>1. a.size = 256 /\ a.wide \in BOOLEAN /\ ~a.wide
  BY DEF IPNet, Unit, MaskSize
<1>2. a.wide = FALSE
  BY <1>1
<1>3. a = [ip |-> a.ip, wide |-> a.wide, size |-> a.size]
  BY DEF IPNet
<1>4. QED
  BY <1>1, <1>2, <1>3 DEF Net

(* Two such networks are the same, or apart by their size at least.            *)
LEMMA UnitsApart ==
  ASSUME NEW a \in IPNet, NEW b \in IPNet, Unit(a), Unit(b), a.ip < b.ip
  PROVE  a.ip + 256 <= b.ip /\ ~Overlap(a, b) /\ ~Overlap(b, a)
<1>1. a.ip \in Nat /\ b.ip \in Nat /\ a.size = 256 /\ b.size = 256
  BY UnitEnds
<1>2. a.ip % 256 = 0 /\ b.ip % 256 = 0
  BY DEF Unit, MaskSize
<1>3. a.ip + 256 <= b.ip
  BY <1>1, <1>2
<1>4. QED
  BY <1>1, <1>3 DEF Overlap

(* NetDistance from such a network to one that does not come before it: zero    *)
(* when it is the same, and a mask or more when it is free.                    *)
LEMMA UnitDistance ==
  ASSUME NEW a \in IPNet, NEW b \in IPNet, Unit(a), Unit(b), a.ip <= b.ip
  PROVE  /\ NetDistance(a, b) \in Int
         /\ NetDistance(a, b) >= 0
         /\ a.ip = b.ip <=> ~FarEnough(NetDistance(a, b))
<1>1. /\ a.ip \in Nat /\ b.ip \in Nat
      /\ First(a) = a.ip /\ Last(a) = a.ip + 255 /\ First(b) = b.ip /\ Last(b) = b.ip + 255
  BY UnitEnds
<1>2. CASE a.ip = b.ip
  <2>1. NetDistance(a, b) = 0
    BY <1>1, <1>2 DEF NetDistance
  <2>2. QED
    BY <1>2, <2>1 DEF FarEnough, MaskSize
<1>3. CASE a.ip < b.ip
  <2>1. a.ip + 256 <= b.ip
    BY <1>3, UnitsApart
  <2>2. NetDistance(a, b) = b.ip + 255 - (a.ip + 255)
    BY <1>1, <2>1 DEF NetDistance
  <2>3. QED
    BY <1>1, <1>3, <2>1, <2>2 DEF FarEnough, MaskSize
<1>4. QED
  BY <1>1, <1>2, <1>3

-----------------------------------------------------------------------------
(* Steps that share a shape.                                                   *)

DockerFine == /\ \A d \in docker : d.subnet \in IPNet /\ d.ours \in BOOLEAN
              /\ IsFiniteSet(Listed)
              /\ \A d, e \in Ours : d = e
Busy == pc \in {"list", "next", "walk", "create", "prune"}

LEMMA NetTypes ==
  ASSUME NetInv
  PROVE  setting \in Setting /\ setting.mini \in IPNet /\ setting.maxi \in IPNet /\ DockerFine
BY SettingAssumption DEF NetInv, NetType, DockerFine, Alone

(* New returns, or its process is stopped: nothing is left of it.              *)
LEMMA ReturnKeeps ==
  ASSUME NetInv, setting' = setting, DockerFine',
         NEW a \in {"none", "reused", "created", "full", "refused", "error", "panic"}, Return(a)
  PROVE  NetInv'
<1>1. /\ pc' = "idle" /\ try' = 0 /\ subnets' = <<>> /\ net' = setting'.mini
      /\ poz' = 1 /\ answer' = a
  BY DEF Return
<1>2. NetType'
  BY <1>1, NetTypes, SettingAssumption DEF NetType, DockerFine
<1>3. Ordered'
  BY <1>1 DEF Ordered
<1>4. QED
  BY <1>1, <1>2, <1>3 DEF NetInv, ProposedIsFree, Alone, DockerFine

(* Only docker changes, and the project gets no network while New is busy.      *)
LEMMA DockerChanges ==
  ASSUME NetInv, UNCHANGED <<setting, pc, locals, answer>>, DockerFine', Busy => Ours' = {}
  PROVE  NetInv'
<1> USE DEF NetInv, locals
<1>1. NetType'
  BY DEF NetType, DockerFine
<1>2. Ordered'
  BY DEF Ordered
<1>3. (pc = "walk" /\ Plain => Walking)'
  BY DEF Walking, Plain, InRange, Room, Step24
<1>4. ProposedIsFree'
  BY DEF ProposedIsFree, Plain, InRange
<1>5. Alone'
  BY DEF Alone, DockerFine, Busy
<1>6. QED
  BY <1>1, <1>2, <1>3, <1>4, <1>5 DEF DockerFine

(* New goes on, docker as it is or less of it: all but the proposal.            *)
LEMMA NewGoesOn ==
  ASSUME NetInv, setting' = setting, docker' \subseteq docker,
         pc' \in {"lookup", "list", "next", "walk", "create", "prune"},
         pc' = "lookup" \/ Ours = {},
         try' \in 0..2, net' \in IPNet, poz' \in Nat \ {0},
         answer' \in {"none", "reused", "created", "full", "refused", "error", "panic"},
         subnets' = subnets,
         (pc = "walk" /\ Plain => Walking)', ProposedIsFree'
  PROVE  NetInv'
<1>1. Listed' \subseteq Listed /\ Ours' \subseteq Ours
  BY DEF Listed, Ours
<1>2. IsFiniteSet(Listed')
  BY <1>1, FS_Subset DEF NetInv
<1>3. NetType'
  BY DEF NetInv, NetType
<1>4. Ordered'
  BY DEF NetInv, Ordered
<1>5. Alone'
  BY <1>1 DEF NetInv, Alone
<1>6. QED
  BY <1>2, <1>3, <1>4, <1>5 DEF NetInv

-----------------------------------------------------------------------------
(* The steps of New.                                                           *)

LEMMA ReuseStep == ASSUME NetInv, Reuse PROVE NetInv'
<1>1. DockerFine'
  BY NetTypes DEF Reuse, DockerFine, Listed, Ours
<1>2. CASE Return("reused")
  BY <1>1, <1>2, ReturnKeeps DEF Reuse
<1>3. CASE Ours = {} /\ pc' = "list" /\ UNCHANGED <<locals, answer>>
  BY <1>3, NewGoesOn DEF Reuse, NetInv, NetType, ProposedIsFree, locals
<1>4. QED
  BY <1>2, <1>3 DEF Reuse

LEMMA ListStep == ASSUME NetInv, List PROVE NetInv'
<1>1. Cardinality(Listed) \in Nat
  BY FS_CardinalityType DEF NetInv
<1>2. Listed \subseteq IPNet
  BY DEF NetInv, NetType, Listed
<1>3. /\ subnets' \in [1..Cardinality(Listed) -> Listed]
      /\ \A i, j \in 1..Cardinality(Listed) : i < j => subnets'[i].ip < subnets'[j].ip
  BY DEF List, Sorted, Less
<1>4. subnets' \in Seq(IPNet) /\ Len(subnets') = Cardinality(Listed)
  BY <1>1, <1>2, <1>3
<1>5. Ordered'
  BY <1>3, <1>4 DEF Ordered
<1>6. NetType'
  BY <1>4 DEF NetInv, NetType, List
<1>7. QED
  BY <1>5, <1>6 DEF NetInv, List, Listed, ProposedIsFree, Alone, Ours

(* From the queue, or the first of the walk.                                    *)
LEMMA ProposeStep == ASSUME NetInv, Propose PROVE NetInv'
<1>1. /\ pc = "next" /\ poz' = 1 /\ setting' = setting /\ subnets' = subnets
      /\ docker' = docker /\ try' = try /\ answer' = answer
      /\ pc' \in {"create", "walk"} /\ Ours = {} /\ subnets \in Seq(IPNet)
  BY DEF Propose, NetInv, Alone, NetType
<1>2. Plain' <=> Plain
  BY <1>1 DEF Plain, InRange
<1>3. Len(subnets) \in Nat
  BY <1>1
<1>4. CASE subnets = <<>> /\ net' = setting.mini /\ pc' = "create"
  <2>1. ProposedIsFree'
    BY <1>1, <1>4 DEF ProposedIsFree
  <2>2. QED
    BY <1>1, <1>4, <2>1, NetTypes, NewGoesOn DEF NetInv, NetType
<1>5. CASE subnets # <<>> /\ Room /\ net' = NextNet(subnets[Len(subnets)]) /\ pc' = "create"
  <2>. DEFINE last == subnets[Len(subnets)]
  <2>1. Len(subnets) \in 1..Len(subnets) /\ last \in IPNet
    BY <1>1, <1>3, <1>5
  <2>2. net' \in IPNet
    BY <1>5, <2>1, NextNetType
  <2>3. ASSUME Plain, NEW i \in 1..Len(subnets) PROVE ~Overlap(net', subnets[i])
    <3>1. Unit(last) /\ Unit(subnets[i]) /\ subnets[i] \in IPNet
      BY <1>1, <2>1, <2>3 DEF Plain, InRange
    <3>2. subnets[i].ip <= last.ip
      <4>1. CASE i = Len(subnets)
        BY <2>1, <3>1, <4>1, UnitEnds
      <4>2. CASE i # Len(subnets)
        <5>1. i < Len(subnets)
          BY <4>2, <1>3
        <5>2. subnets[i].ip < last.ip
          BY <5>1, <2>1 DEF NetInv, Ordered
        <5>3. QED
          BY <5>2, <3>1, <2>1, UnitEnds
      <4>3. QED
        BY <4>1, <4>2
    <3>3. net' = Net(last.ip + 256, 256) /\ Unit(net')
      BY <1>5, <2>1, <3>1, UnitEnds
    <3>4. subnets[i].ip < net'.ip
      <4>1. net'.ip = last.ip + 256
        BY <3>3 DEF Net
      <4>2. subnets[i].ip \in Nat /\ last.ip \in Nat
        BY <2>1, <3>1, UnitEnds
      <4>3. QED
        BY <3>2, <4>1, <4>2
    <3>5. QED
      BY <2>2, <3>1, <3>3, <3>4, UnitsApart
  <2>4. ProposedIsFree'
    BY <1>1, <1>2, <2>3 DEF ProposedIsFree
  <2>5. QED
    BY <1>1, <1>5, <2>2, <2>4, NewGoesOn DEF NetInv, NetType
<1>6. CASE subnets # <<>> /\ ~Room /\ net' = setting.mini /\ pc' = "walk"
  <2>1. ASSUME Plain PROVE Walking'
    <3>1. Unit(setting.mini) /\ setting.mini \in IPNet
      BY <2>1, NetTypes DEF Plain
    <3>2. setting.mini = Net(Step24(1), MaskSize)
      <4>1. setting.mini = Net(setting.mini.ip, 256) /\ setting.mini.ip \in Nat
        BY <3>1, UnitIsNet, UnitEnds
      <4>2. Step24(1) = setting.mini.ip
        BY <4>1 DEF Step24, MaskSize
      <4>3. QED
        BY <4>1, <4>2 DEF MaskSize
    <3>3. QED
      BY <1>1, <1>3, <1>6, <3>2 DEF Walking, Room, Step24
  <2>2. (pc = "walk" /\ Plain => Walking)' /\ ProposedIsFree'
    BY <1>2, <1>6, <2>1 DEF ProposedIsFree
  <2>3. QED
    BY <1>1, <1>6, <2>2, NetTypes, NewGoesOn DEF NetInv, NetType
<1>7. QED
  BY <1>4, <1>5, <1>6 DEF Propose

-----------------------------------------------------------------------------
(* The walk. In the plain case the networks behind net are the range's first    *)
(* ones, and those ahead do not come before it.                                *)
LEMMA WalkHere ==
  ASSUME NetInv, pc = "walk", Plain
  PROVE  /\ net \in IPNet /\ Unit(net) /\ net.ip = Step24(poz) /\ net.ip \in Nat
         /\ setting.mini.ip \in Nat /\ setting.mini.ip % 256 = 0
         /\ Len(subnets) \in Nat /\ poz \in 1..(Len(subnets) + 1)
         /\ \A i \in 1..Len(subnets) :
              /\ subnets[i] \in IPNet /\ Unit(subnets[i]) /\ subnets[i].ip \in Nat
              /\ i < poz => subnets[i].ip < net.ip
              /\ i >= poz => net.ip <= subnets[i].ip
<1>1. Walking
  BY DEF NetInv
<1>2. subnets \in Seq(IPNet) /\ net \in IPNet
  BY DEF NetInv, NetType
<1>3. Len(subnets) \in Nat /\ poz \in 1..(Len(subnets) + 1)
  BY <1>1, <1>2 DEF Walking
<1>4. setting.mini.ip \in Nat /\ setting.mini.ip % 256 = 0
  BY NetTypes, UnitEnds DEF Plain, Unit, MaskSize
<1>5. net.ip = Step24(poz) /\ net.size = 256 /\ ~net.wide
  BY <1>1 DEF Walking, Net, MaskSize
<1>6. net.ip \in Nat /\ net.ip % 256 = 0
  BY <1>3, <1>4, <1>5 DEF Step24, MaskSize
<1>7. Unit(net)
  BY <1>5, <1>6 DEF Unit, MaskSize
<1>8. \A i \in 1..Len(subnets) :
        subnets[i] \in IPNet /\ Unit(subnets[i]) /\ setting.mini.ip <= subnets[i].ip
  BY <1>2 DEF Plain, InRange
<1>9. ASSUME NEW i \in 1..Len(subnets)
      PROVE  /\ subnets[i].ip \in Nat
             /\ i < poz => subnets[i].ip < net.ip
             /\ i >= poz => net.ip <= subnets[i].ip
  <2>1. subnets[i].ip \in Nat /\ subnets[i].ip % 256 = 0
    BY <1>8, UnitEnds DEF Unit, MaskSize
  <2>2. CASE i < poz
    <3>1. subnets[i].ip = Step24(i)
      BY <1>1, <2>2 DEF Walking
    <3>2. QED
      BY <1>3, <1>4, <1>5, <2>1, <2>2, <3>1 DEF Step24, MaskSize
  <2>3. CASE i >= poz /\ poz = 1
    <3>1. Step24(1) = setting.mini.ip
      BY <1>4 DEF Step24, MaskSize
    <3>2. net.ip = setting.mini.ip
      BY <1>5, <2>3, <3>1
    <3>3. QED
      BY <1>3, <1>8, <2>1, <2>3, <3>2
  <2>4. CASE i >= poz /\ poz # 1
    <3>1. poz - 1 \in 1..Len(subnets) /\ poz - 1 < i /\ poz - 1 < poz
      BY <1>3, <2>4
    <3>2. subnets[poz - 1].ip = Step24(poz - 1)
      BY <1>1, <3>1 DEF Walking
    <3>3. subnets[poz - 1].ip < subnets[i].ip
      BY <3>1 DEF NetInv, Ordered
    <3>4. subnets[poz - 1].ip + 256 <= subnets[i].ip
      BY <1>8, <3>1, <3>3, UnitsApart
    <3>5. Step24(poz) = Step24(poz - 1) + 256
      BY <1>3, <1>4 DEF Step24, MaskSize
    <3>6. subnets[poz - 1].ip \in Nat
      BY <1>8, <3>1, UnitEnds
    <3>7. QED
      BY <1>3, <1>5, <1>6, <2>1, <2>4, <3>2, <3>4, <3>5, <3>6
  <2>5. QED
    BY <1>3, <2>2, <2>3, <2>4
<1>10. QED
  BY <1>2, <1>3, <1>4, <1>5, <1>6, <1>7, <1>8, <1>9

(* So it never takes an overlap for one, and stops on what is taken only.       *)
LEMMA WalkSteps ==
  ASSUME NetInv, pc = "walk", Plain
  PROVE  /\ ~WalkOverlap
         /\ WalkFound => poz \in 1..Len(subnets) /\ net.ip # subnets[poz].ip
         /\ WalkOn => poz \in 1..Len(subnets) /\ net.ip = subnets[poz].ip
<1>1. ASSUME poz <= Len(subnets)
      PROVE  /\ poz \in 1..Len(subnets)
             /\ NetDistance(net, subnets[poz]) \in Int
             /\ NetDistance(net, subnets[poz]) >= 0
             /\ net.ip = subnets[poz].ip <=> ~FarEnough(NetDistance(net, subnets[poz]))
  <2>1. poz \in 1..Len(subnets)
    BY <1>1, WalkHere
  <2>2. QED
    BY <2>1, WalkHere, UnitDistance
<1>2. ~WalkOverlap
  BY <1>1 DEF WalkOverlap
<1>3. QED
  BY <1>1, <1>2 DEF WalkFound, WalkOn

LEMMA WalkStep == ASSUME NetInv, Walk PROVE NetInv'
<1>1. /\ pc = "walk" /\ UNCHANGED <<setting, docker>> /\ Ours = {}
      /\ subnets \in Seq(IPNet) /\ net \in IPNet /\ poz \in Nat \ {0} /\ try \in 0..2
      /\ answer \in {"none", "reused", "created", "full", "refused", "error", "panic"}
  BY DEF Walk, NetInv, Alone, NetType
<1>2. DockerFine'
  BY <1>1, NetTypes DEF DockerFine, Listed, Ours
<1>3. NextNet(net) \in IPNet
  BY <1>1, NextNetType
<1>4. CASE WalkOverlap
  <2>1. ~Plain
    BY <1>1, <1>4, WalkSteps
  <2>2. ~Plain'
    BY <1>1, <1>4, <2>1 DEF WalkOverlap, Plain, InRange
  <2>3. ProposedIsFree'
    BY <2>2 DEF ProposedIsFree
  <2>4. QED
    BY <1>1, <1>3, <1>4, <2>2, <2>3, NewGoesOn DEF WalkOverlap
<1>5. CASE WalkFound
  <2>1. UNCHANGED locals /\ pc' = "create" /\ answer' = answer
    BY <1>5 DEF WalkFound
  <2>2. ASSUME Plain, NEW i \in 1..Len(subnets) PROVE ~Overlap(net, subnets[i])
    <3>1. /\ poz \in 1..Len(subnets) /\ net.ip # subnets[poz].ip
          /\ net.ip \in Nat /\ subnets[i].ip \in Nat /\ subnets[poz].ip \in Nat
          /\ subnets[i] \in IPNet /\ Unit(subnets[i]) /\ Unit(net)
          /\ net.ip <= subnets[poz].ip
      BY <1>1, <1>5, <2>2, WalkHere, WalkSteps
    <3>2. CASE i < poz
      BY <1>1, <2>2, <3>1, <3>2, WalkHere, UnitsApart
    <3>3. CASE i = poz
      BY <1>1, <3>1, <3>3, UnitsApart
    <3>4. CASE i > poz
      <4>1. subnets[poz].ip < subnets[i].ip
        BY <3>1, <3>4 DEF NetInv, Ordered
      <4>2. net.ip < subnets[i].ip
        BY <3>1, <4>1
      <4>3. QED
        BY <1>1, <3>1, <4>2, UnitsApart
    <3>5. QED
      BY <3>1, <3>2, <3>3, <3>4
  <2>3. ProposedIsFree'
    BY <1>1, <2>1, <2>2 DEF ProposedIsFree, Plain, InRange, locals
  <2>4. QED
    BY <1>1, <2>1, <2>3, NewGoesOn DEF locals
<1>6. CASE WalkOn
  <2>1. CASE Return("full")
    BY <1>1, <1>2, <2>1, ReturnKeeps
  <2>2. CASE /\ ~Exhausted /\ net' = NextNet(net) /\ poz' = poz + 1
             /\ UNCHANGED <<pc, try, subnets, answer>>
    <3>1. ASSUME Plain PROVE Walking'
      <4>1. /\ poz \in 1..Len(subnets) /\ net.ip = subnets[poz].ip
            /\ Unit(net) /\ net.ip = Step24(poz) /\ setting.mini.ip \in Nat
            /\ Len(subnets) \in Nat
        BY <1>1, <1>6, <3>1, WalkHere, WalkSteps
      <4>2. Step24(poz + 1) = net.ip + 256
        BY <4>1 DEF Step24, MaskSize
      <4>3. net' = Net(Step24(poz + 1), MaskSize)
        BY <1>1, <2>2, <4>1, <4>2, UnitEnds DEF MaskSize
      <4>4. \A i \in 1..Len(subnets) : i < poz + 1 => subnets[i].ip = Step24(i)
        <5>1. \A i \in 1..Len(subnets) : i < poz => subnets[i].ip = Step24(i)
          BY <1>1, <3>1 DEF NetInv, Walking
        <5>2. subnets[poz].ip = Step24(poz)
          BY <4>1
        <5>3. \A i \in 1..Len(subnets) : i < poz + 1 => i < poz \/ i = poz
          BY <4>1
        <5>4. QED
          BY <5>1, <5>2, <5>3
      <4>5. subnets # <<>> /\ ~Room
        BY <1>1, <3>1 DEF NetInv, Walking
      <4>6. QED
        BY <1>1, <2>2, <4>1, <4>3, <4>4, <4>5 DEF Walking, Step24, Room
    <3>2. Plain' <=> Plain
      BY <1>1, <2>2 DEF Plain, InRange
    <3>3. QED
      BY <1>1, <1>3, <2>2, <3>1, <3>2, NewGoesOn DEF ProposedIsFree
  <2>3. QED
    BY <1>6, <2>1, <2>2 DEF WalkOn
<1>7. CASE WalkPanic
  BY <1>1, <1>2, <1>7, ReturnKeeps DEF WalkPanic
<1>8. QED
  BY <1>4, <1>5, <1>6, <1>7 DEF Walk

-----------------------------------------------------------------------------
(* The other steps.                                                            *)

LEMMA CallStep == ASSUME NetInv, Call PROVE NetInv'
<1>1. (pc = "walk" /\ Plain => Walking)' /\ ProposedIsFree'
  BY DEF Call, ProposedIsFree
<1>2. QED
  BY <1>1, NewGoesOn DEF Call, NetInv, NetType, locals

LEMMA CreateStep == ASSUME NetInv, Create PROVE NetInv'
<1>. DEFINE d == [subnet |-> Net(net.ip, net.size), ours |-> TRUE]
<1>1. net \in IPNet /\ Ours = {} /\ IsFiniteSet(Listed)
  BY DEF Create, NetInv, NetType, Alone
<1>2. d.subnet \in IPNet /\ d.ours = TRUE
  BY <1>1 DEF Net, IPNet
<1>3. docker' = docker \cup {d} /\ setting' = setting /\ Return("created")
  BY DEF Create
<1>. HIDE DEF d
<1>4. Listed' = Listed \cup {d.subnet}
  BY <1>3 DEF Listed
<1>5. IsFiniteSet(Listed')
  BY <1>1, <1>4, FS_AddElement
<1>6. Ours' = {d}
  BY <1>1, <1>2, <1>3 DEF Ours
<1>7. DockerFine'
  BY <1>2, <1>3, <1>5, <1>6, NetTypes DEF DockerFine
<1>8. QED
  BY <1>3, <1>7, ReturnKeeps

LEMMA CreateFailStep == ASSUME NetInv, CreateFail PROVE NetInv'
<1>1. (pc = "walk" /\ Plain => Walking)' /\ ProposedIsFree'
  BY DEF CreateFail, ProposedIsFree
<1>2. QED
  BY <1>1, NewGoesOn DEF CreateFail, NetInv, NetType, Alone, locals

LEMMA PruneStep == ASSUME NetInv, Prune PROVE NetInv'
<1>1. /\ docker' \subseteq docker /\ setting' = setting /\ Ours = {}
  BY DEF Prune, NetInv, Alone
<1>2. DockerFine'
  <2>1. Listed' \subseteq Listed /\ Ours' \subseteq Ours
    BY <1>1 DEF Listed, Ours
  <2>2. QED
    BY <1>1, <2>1, NetTypes, FS_Subset DEF DockerFine
<1>3. CASE Return("refused")
  BY <1>1, <1>2, <1>3, ReturnKeeps
<1>4. CASE try < 2 /\ try' = try + 1 /\ pc' = "next" /\ UNCHANGED <<subnets, net, poz, answer>>
  <2>1. (pc = "walk" /\ Plain => Walking)' /\ ProposedIsFree'
    BY <1>4 DEF ProposedIsFree
  <2>2. try' \in 0..2
    BY <1>4 DEF NetInv, NetType
  <2>3. QED
    BY <1>1, <1>4, <2>1, <2>2, NewGoesOn DEF NetInv, NetType
<1>5. QED
  BY <1>3, <1>4 DEF Prune, NextTry

LEMMA DockerErrorStep == ASSUME NetInv, DockerError PROVE NetInv'
<1>1. DockerFine'
  BY NetTypes DEF DockerError, DockerFine, Listed, Ours
<1>2. QED
  BY <1>1, ReturnKeeps DEF DockerError

LEMMA RemoveStep == ASSUME NetInv, Remove PROVE NetInv'
<1>1. docker' \subseteq docker /\ UNCHANGED <<setting, pc, locals, answer>> /\ pc = "idle"
  BY DEF Remove, Ours
<1>2. Listed' \subseteq Listed /\ Ours' \subseteq Ours
  BY <1>1 DEF Listed, Ours
<1>3. DockerFine'
  BY <1>1, <1>2, NetTypes, FS_Subset DEF DockerFine
<1>4. QED
  BY <1>1, <1>3, DockerChanges DEF Busy

LEMMA OthersStep == ASSUME NetInv, Others PROVE NetInv'
<1>1. UNCHANGED <<setting, pc, locals, answer>>
  BY DEF Others, OthersCreate, OthersRemove
<1>2. CASE OthersCreate
  <2>1. PICK s \in setting.foreign : docker' = docker \cup {[subnet |-> s, ours |-> FALSE]}
    BY <1>2 DEF OthersCreate
  <2>2. s \in IPNet
    BY NetTypes, SettingAssumption
  <2>. DEFINE d == [subnet |-> s, ours |-> FALSE]
  <2>3. d.subnet = s /\ d.ours = FALSE /\ docker' = docker \cup {d}
    BY <2>1
  <2>. HIDE DEF d
  <2>4. Listed' = Listed \cup {s} /\ IsFiniteSet(Listed')
    <3>1. Listed' = Listed \cup {s}
      BY <2>3 DEF Listed
    <3>2. QED
      BY <3>1, NetTypes, FS_AddElement DEF DockerFine
  <2>5. Ours' = Ours
    BY <2>3 DEF Ours
  <2>6. DockerFine'
    BY <2>2, <2>3, <2>4, <2>5, NetTypes DEF DockerFine
  <2>7. QED
    BY <1>1, <2>5, <2>6, DockerChanges DEF NetInv, Alone, Busy
<1>3. CASE OthersRemove
  <2>1. docker' \subseteq docker
    BY <1>3 DEF OthersRemove
  <2>2. Listed' \subseteq Listed /\ Ours' \subseteq Ours
    BY <2>1 DEF Listed, Ours
  <2>3. DockerFine'
    BY <2>1, <2>2, NetTypes, FS_Subset DEF DockerFine
  <2>4. QED
    BY <1>1, <2>2, <2>3, DockerChanges DEF NetInv, Alone, Busy
<1>4. QED
  BY <1>2, <1>3 DEF Others

LEMMA ResetStep == ASSUME NetInv, Reset PROVE NetInv'
<1>1. DockerFine' /\ setting' = setting /\ docker' = docker
  BY NetTypes DEF Reset, DockerFine, Listed, Ours
<1>2. CASE Return("none")
  BY <1>1, <1>2, ReturnKeeps
<1>3. CASE UNCHANGED <<pc, locals>> /\ answer' = "none"
  <2>1. UNCHANGED <<pc, try, subnets, net, poz>>
    BY <1>3 DEF locals
  <2>2. NetType'
    BY <1>1, <1>3, <2>1 DEF NetInv, NetType
  <2>3. Ordered' /\ ProposedIsFree' /\ (pc = "walk" /\ Plain => Walking)'
    BY <1>1, <2>1 DEF NetInv, Ordered, ProposedIsFree, Plain, InRange, Walking, Room, Step24
  <2>4. Alone'
    BY <1>1, <2>1 DEF NetInv, Alone, Ours
  <2>5. QED
    BY <1>1, <2>2, <2>3, <2>4 DEF NetInv, DockerFine
<1>4. QED
  BY <1>2, <1>3 DEF Reset

LEMMA StutterStep == ASSUME NetInv, UNCHANGED netVars PROVE NetInv'
<1>1. DockerFine'
  BY NetTypes DEF netVars, DockerFine, Listed, Ours
<1>2. Busy => Ours' = {}
  BY DEF netVars, NetInv, Alone, Busy, Ours
<1>3. QED
  BY <1>1, <1>2, DockerChanges DEF netVars

-----------------------------------------------------------------------------
(* What Deploy does to the allocator is one of those steps.                    *)
LEMMA DeploySteps ==
  ASSUME [DNext]_vars
  PROVE  Call \/ NewStep \/ Remove \/ Others \/ Reset \/ UNCHANGED netVars
<1>. USE DEF Reset
<1>1. CASE UNCHANGED vars
  BY <1>1 DEF vars
<1>2. ASSUME NEW t \in Task, Post(t) \/ UpBegin(t) \/ End(t)
      PROVE  Call \/ UNCHANGED netVars
  BY <1>2 DEF Post, UpBegin, End
<1>3. CASE UpStep
  <2>1. CASE UpNetwork
    BY <2>1 DEF UpNetwork
  <2>2. CASE UpStart \/ UpRefused \/ UpNoNetwork \/ UpPanic
    BY <2>2 DEF UpStart, UpRefused, UpNoNetwork, UpPanic, UpEnd
  <2>3. QED
    BY <1>3, <2>1, <2>2 DEF UpStep
<1>4. CASE Stop
  BY <1>4 DEF Stop
<1>5. CASE Restart \/ World
  BY <1>5 DEF Restart, World
<1>6. QED
  BY <1>1, <1>2, <1>3, <1>4, <1>5 DEF DNext

LEMMA NetInvInit == DInit => NetInv
<1>1. SUFFICES ASSUME DInit PROVE NetInv
  OBVIOUS
<1>2. setting \in Setting /\ docker = {} /\ Listed = {} /\ Ours = {}
  BY <1>1 DEF DInit, NInit, Listed, Ours
<1>3. IsFiniteSet(Listed)
  BY <1>2, FS_EmptySet
<1>4. NetType
  BY <1>1, <1>2, SettingAssumption DEF DInit, NInit, NetType
<1>5. QED
  BY <1>1, <1>2, <1>3, <1>4 DEF DInit, NInit, NetInv, Ordered, ProposedIsFree, Alone

LEMMA NetInvStep == NetInv /\ [DNext]_vars => NetInv'
<1>1. SUFFICES ASSUME NetInv, [DNext]_vars PROVE NetInv'
  OBVIOUS
<1>2. CASE NewStep
  BY <1>1, <1>2, ReuseStep, ListStep, ProposeStep, WalkStep, CreateStep, CreateFailStep,
     PruneStep, DockerErrorStep DEF NewStep
<1>3. QED
  BY <1>1, <1>2, DeploySteps, CallStep, RemoveStep, OthersStep, ResetStep, StutterStep

LEMMA NetInvAlways == DSpec => []NetInv
BY NetInvInit, NetInvStep, PTL DEF DSpec

(* The allocator never proposes a subnet that overlaps one it was given, when   *)
(* these are of the mask's size and not before the range.                      *)
THEOREM ProposalsAreFree == DSpec => []ProposedIsFree
<1>1. NetInv => ProposedIsFree
  BY DEF NetInv
<1>2. QED
  BY <1>1, NetInvAlways, PTL

(* However New fails, is retried or stopped, and whatever is pruned, the project *)
(* has one network at most.                                                     *)
THEOREM OneNetworkAlways == DSpec => []OneNetworkPerProject
<1>1. NetInv => OneNetworkPerProject
  <2>1. SUFFICES ASSUME NetInv PROVE Cardinality(Ours) <= 1
    BY DEF OneNetworkPerProject
  <2>2. CASE Ours = {}
    BY <2>2, FS_EmptySet
  <2>3. CASE Ours # {}
    <3>1. PICK d \in Ours : Ours = {d}
      BY <2>1, <2>3 DEF NetInv, Alone
    <3>2. Cardinality({d}) = 1
      BY FS_Singleton
    <3>3. QED
      BY <3>1, <3>2
  <2>4. QED
    BY <2>2, <2>3
<1>2. QED
  BY <1>1, NetInvAlways, PTL

(* "full network" and "beyond max net" are said only when each /24 of the range  *)
(* is taken: the walk has met all of them.                                      *)
THEOREM FullIsFull == DSpec => FullMeansFull
<1>. DEFINE A == answer # "full" /\ answer' = "full" /\ Plain =>
                   \A ip \in Slots : \E i \in 1..Len(subnets) : subnets[i].ip = ip
<1>1. ASSUME NetInv, [DNext]_vars PROVE [A]_netVars
  <2>1. SUFFICES ASSUME answer # "full", answer' = "full", Plain, NEW ip \in Slots
                 PROVE  \E i \in 1..Len(subnets) : subnets[i].ip = ip
    OBVIOUS
  <2>2. pc = "walk" /\ WalkOn /\ UNCHANGED <<setting, docker>>
    <3>1. Call \/ NewStep \/ Remove \/ Others \/ Reset \/ UNCHANGED netVars
      BY <1>1, DeploySteps
    <3>2. ~Call /\ ~Remove /\ ~Others /\ ~Reset /\ ~UNCHANGED netVars
      BY <2>1 DEF Call, Remove, Others, OthersCreate, OthersRemove, Reset, Return, netVars
    <3>3. ~Reuse /\ ~List /\ ~Propose /\ ~Create /\ ~CreateFail /\ ~Prune /\ ~DockerError
      BY <2>1 DEF Reuse, List, Propose, Create, CreateFail, Prune, NextTry, DockerError, Return, locals
    <3>4. Walk /\ ~WalkOverlap /\ ~WalkFound /\ ~WalkPanic
      BY <2>1, <3>1, <3>2, <3>3 DEF NewStep, Walk, WalkOverlap, WalkFound, WalkPanic, Return
    <3>5. QED
      BY <3>4 DEF Walk
  <2>3. /\ poz \in 1..Len(subnets) /\ net.ip = subnets[poz].ip /\ Unit(net) /\ net \in IPNet
        /\ net.ip = Step24(poz) /\ setting.mini.ip \in Nat /\ setting.mini.ip % 256 = 0
        /\ Len(subnets) \in Nat
    BY <1>1, <2>1, <2>2, WalkHere, WalkSteps
  <2>4. /\ setting.maxi.ip \in Nat /\ setting.maxi.ip % 256 = 0
        /\ First(setting.maxi) = setting.maxi.ip
    BY <1>1, <2>1, NetTypes, UnitEnds DEF Plain, Unit, MaskSize
  <2>5. Beyond(NextNet(net)) \/ Exhausted
    BY <2>1, <2>2 DEF WalkOn
  <2>6. setting.maxi.ip <= Step24(poz) + 256
    <3>1. Step24(poz) \in Nat
      BY <2>3, UnitEnds
    <3>2. CASE Beyond(NextNet(net))
      <4>1. NextNet(net).ip = Step24(poz) + 256 /\ First(NextNet(net)) = NextNet(net).ip
        BY <2>3, UnitEnds DEF Net
      <4>2. First(NextNet(net)) - First(setting.maxi) > 0
        BY <3>2 DEF Beyond, Distance
      <4>3. First(NextNet(net)) = Step24(poz) + 256
        BY <4>1
      <4>4. QED
        BY <2>4, <3>1, <4>2, <4>3
    <3>3. CASE Exhausted
      <4>1. poz = Len(subnets) /\ ~Room
        BY <1>1, <2>1, <2>2, <3>3 DEF Exhausted, NetInv, Walking
      <4>2. subnets[poz] \in IPNet /\ Unit(subnets[poz])
        BY <1>1, <2>1, <2>2, <2>3, WalkHere
      <4>3. Last(subnets[poz]) = Step24(poz) + 255
        <5>1. Last(subnets[poz]) = subnets[poz].ip + 255
          BY <4>2, UnitEnds
        <5>2. subnets[poz].ip = Step24(poz)
          BY <2>3
        <5>3. QED
          BY <5>1, <5>2
      <4>4. setting.maxi.ip - (Step24(poz) + 255) <= 256
        BY <2>4, <3>1, <4>1, <4>3 DEF Room, Distance, MaskSize
      <4>5. Step24(poz) % 256 = 0
        BY <2>3 DEF Unit, MaskSize
      <4>6. QED
        BY <2>4, <3>1, <4>4, <4>5
    <3>4. QED
      BY <2>5, <3>2, <3>3
  <2>7. PICK k \in (setting.mini.ip \div 256)..(setting.maxi.ip \div 256 - 1) : ip = k * 256
    BY <2>1 DEF Slots, MaskSize
  <2>8. PICK i \in 1..Len(subnets) : i <= poz /\ ip = Step24(i)
    <3>. DEFINE m == setting.mini.ip \div 256
                x == setting.maxi.ip \div 256
    <3>1. m \in Int /\ x \in Int /\ setting.mini.ip = 256 * m /\ setting.maxi.ip = 256 * x
      BY <2>3, <2>4
    <3>. HIDE DEF m, x
    <3>2. k \in m..(x - 1)
      BY DEF m, x
    <3>3. 256 * x <= 256 * m + 256 * (poz - 1) + 256
      BY <2>3, <2>6, <3>1 DEF Step24, MaskSize
    <3>4. k - m + 1 \in 1..poz
      BY <2>3, <3>1, <3>2, <3>3
    <3>5. ip = Step24(k - m + 1)
      BY <2>7, <3>1, <3>2 DEF Step24, MaskSize
    <3>6. QED
      BY <2>3, <3>4, <3>5
  <2>9. subnets[i].ip = Step24(i)
    <3>1. CASE i = poz
      BY <2>3, <3>1
    <3>2. CASE i < poz
      BY <1>1, <2>1, <2>2, <3>2 DEF NetInv, Walking
    <3>3. QED
      BY <2>3, <2>8, <3>1, <3>2
  <2>10. QED
    BY <2>8, <2>9
<1>2. NetInv /\ [DNext]_vars => [A]_netVars
  BY <1>1
<1>3. QED
  BY <1>2, NetInvAlways, PTL DEF DSpec, FullMeansFull

=============================================================================
