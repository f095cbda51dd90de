------------------------------ MODULE Networks ------------------------------
(* compose/network.go: Networks.New gives the project a bridge network, on a   *)
(* subnet that NextAvailableNetwork (network/network.go) proposes, and Remove  *)
(* takes it away. n.lock serialises them; the networks of docker change        *)
(* between the calls to docker, since others create and remove some.           *)
EXTENDS Subnets

CONSTANTS
  Setting,     \* [mini, maxi: the range of NewNetworks; foreign: subnets of others]
  DockerFails  \* whether calls to docker may fail

ASSUME SettingAssumption ==
  /\ \A s \in Setting : s.mini \in IPNet /\ s.maxi \in IPNet /\ s.foreign \subseteq IPNet
  /\ DockerFails \in BOOLEAN

VARIABLES
  setting,   \* the range, and the world around; never changes
  docker,    \* bridge networks docker has: [subnet, ours]; ours has the project's label
  pc,        \* where New is; "idle" when the lock is free
  try,       \* i in New
  subnets,   \* the subnets of docker's networks, as listed and sorted
  net, poz,  \* n and poz in NextAvailableNetwork
  answer     \* what the last New returned

locals == <<try, subnets, net, poz>>
netVars == <<setting, docker, pc, locals, answer>>

Ours == {d \in docker : d.ours}
Listed == {d.subnet : d \in docker}
Free(subnet) == \A s \in Listed : ~Overlap(s, subnet)

NInit == /\ setting \in Setting
         /\ docker = {}
         /\ pc = "idle" /\ try = 0
         /\ subnets = <<>> /\ net = setting.mini /\ poz = 1
         /\ answer = "none"

Return(a) == /\ pc' = "idle" /\ try' = 0
             /\ subnets' = <<>> /\ net' = setting.mini /\ poz' = 1
             /\ answer' = a

-----------------------------------------------------------------------------
(* Mistakes, one line of the code wrong each.                                *)

FarEnoughStrictly(d) == d > MaskSize
ExhaustedTooEarly == poz + 1 >= Len(subnets)
ReuseForgotten == pc = "lookup" /\ pc' = "list" /\ UNCHANGED <<setting, docker, locals, answer>>
RetryOnceMore == \/ try < 3 /\ try' = try + 1 /\ pc' = "next" /\ UNCHANGED <<subnets, net, poz, answer>>
                 \/ try = 3 /\ Return("refused")
RetryForEver == pc' = "next" /\ UNCHANGED <<locals, answer>>

-----------------------------------------------------------------------------
(* New, up to the proposal                                                   *)

Call == /\ pc = "idle"
        /\ pc' = "lookup"
        /\ answer' = "none"
        /\ UNCHANGED <<setting, docker, locals>>

(* A network that has the label of the project is reused.  *)
Reuse == /\ pc = "lookup"
         /\ \/ Ours # {} /\ Return("reused")
            \/ Ours = {} /\ pc' = "list" /\ UNCHANGED <<locals, answer>>
         /\ UNCHANGED <<setting, docker>>

(* SubnetFromDocker, once for both tries.  *)
List == /\ pc = "list"
        /\ subnets' \in Sorted(Listed)
        /\ try' = 1
        /\ pc' = "next"
        /\ UNCHANGED <<setting, docker, net, poz, answer>>

(* "there is room in the queue", after the last network.  *)
Room == MaskSize < Distance(Last(subnets[Len(subnets)]), First(setting.maxi))

Propose == /\ pc = "next"
           /\ poz' = 1
           /\ \/ /\ subnets = <<>>
                 /\ net' = setting.mini /\ pc' = "create"
              \/ /\ subnets # <<>> /\ Room
                 /\ net' = NextNet(subnets[Len(subnets)]) /\ pc' = "create"
              \/ /\ subnets # <<>> /\ ~Room
                 /\ net' = setting.mini /\ pc' = "walk"
           /\ UNCHANGED <<setting, docker, try, subnets, answer>>

-----------------------------------------------------------------------------
(* NextAvailableNetwork: one turn of its loop over the sorted networks       *)

FarEnough(d) == d >= MaskSize
Beyond(n) == Distance(First(setting.maxi), First(n)) > 0
Exhausted == poz = Len(subnets)

WalkOverlap == /\ poz <= Len(subnets)
               /\ NetDistance(net, subnets[poz]) < 0
               /\ net' = NextNet(net) /\ poz' = poz + 1
               /\ UNCHANGED <<pc, try, subnets, answer>>

WalkFound == /\ poz <= Len(subnets)
             /\ FarEnough(NetDistance(net, subnets[poz]))
             /\ pc' = "create"
             /\ UNCHANGED <<locals, answer>>

WalkOn == /\ poz <= Len(subnets)
          /\ NetDistance(net, subnets[poz]) >= 0
          /\ ~FarEnough(NetDistance(net, subnets[poz]))
          /\ IF Beyond(NextNet(net)) \/ Exhausted
             THEN Return("full")
             ELSE /\ net' = NextNet(net) /\ poz' = poz + 1
                  /\ UNCHANGED <<pc, try, subnets, answer>>

(* After an overlap with the last network, the index is out of range.  *)
WalkPanic == poz > Len(subnets) /\ Return("panic")

Walk == /\ pc = "walk"
        /\ WalkOverlap \/ WalkFound \/ WalkOn \/ WalkPanic
        /\ UNCHANGED <<setting, docker>>

-----------------------------------------------------------------------------
(* New, from the proposal to the answer                                      *)

(* docker refuses a subnet that overlaps another, and prints this one back.  *)
Create == /\ pc = "create"
          /\ Free(net)
          /\ docker' = docker \cup {[subnet |-> Net(net.ip, net.size), ours |-> TRUE]}
          /\ Return("created")
          /\ UNCHANGED setting

CreateFail == /\ pc = "create"
              /\ ~Free(net) \/ DockerFails
              /\ pc' = "prune"
              /\ UNCHANGED <<setting, docker, locals, answer>>

NextTry == \/ try < 2 /\ try' = try + 1 /\ pc' = "next" /\ UNCHANGED <<subnets, net, poz, answer>>
           \/ try = 2 /\ Return("refused")

(* NetworksPrune removes the networks no container uses, this project's too.  *)
Prune == /\ pc = "prune"
         /\ docker' \in SUBSET docker
         /\ NextTry
         /\ UNCHANGED setting

DockerError == /\ pc \in {"lookup", "list", "prune"}
               /\ DockerFails
               /\ Return("error")
               /\ UNCHANGED <<setting, docker>>

NewStep == Reuse \/ List \/ Propose \/ Walk \/ Create \/ CreateFail \/ Prune \/ DockerError

(* Remove finds its network by its name; it is refused when there is none.  *)
Remove == /\ pc = "idle"
          /\ Cardinality(Ours) = 1
          /\ docker' = docker \ Ours
          /\ UNCHANGED <<setting, pc, locals, answer>>

(* docker-compose up of a project makes one, or anybody else.  *)
OthersCreate == /\ \E s \in setting.foreign :
                     /\ Free(s)
                     /\ docker' = docker \cup {[subnet |-> s, ours |-> FALSE]}
                /\ UNCHANGED <<setting, pc, locals, answer>>

OthersRemove == /\ \E d \in docker : docker' = docker \ {d}
                /\ UNCHANGED <<setting, pc, locals, answer>>

Others == OthersCreate \/ OthersRemove

NNext == Call \/ NewStep \/ Remove \/ Others
NSpec == NInit /\ [][NNext]_netVars

-----------------------------------------------------------------------------
NetType == /\ setting \in Setting
           /\ \A d \in docker : d.subnet \in IPNet /\ d.ours \in BOOLEAN
           /\ pc \in {"idle", "lookup", "list", "next", "walk", "create", "prune"}
           /\ try \in 0..2
           /\ subnets \in Seq(IPNet) /\ net \in IPNet /\ poz \in Nat \ {0}
           /\ answer \in {"none", "reused", "created", "full", "refused", "error", "panic"}

(* The case the tests of NextAvailableNetwork are about: 4-byte addresses, and *)
(* networks of the size of the mask, none before the range.                   *)
InRange(a) == Unit(a) /\ a.ip >= setting.mini.ip
Plain == /\ Unit(setting.mini) /\ Unit(setting.maxi)
         /\ \A i \in 1..Len(subnets) : InRange(subnets[i])

(* In that case NextAvailableNetwork proposes a subnet that overlaps none of   *)
(* those it was given, whether it comes from the queue or from a gap.          *)
ProposedIsFree ==
  pc = "create" /\ Plain => \A i \in 1..Len(subnets) : ~Overlap(net, subnets[i])

(* In that case "full network" and "beyond max net" are said only when every   *)
(* /24 from mini up to, and without, maxi is taken.                            *)
Slots == {k * MaskSize : k \in (setting.mini.ip \div MaskSize)..(setting.maxi.ip \div MaskSize - 1)}
FullMeansFull ==
  [][answer # "full" /\ answer' = "full" /\ Plain =>
       \A ip \in Slots : \E i \in 1..Len(subnets) : subnets[i].ip = ip]_netVars

(* However often New is called, and whatever fails or is pruned between its    *)
(* calls to docker, the project has one network at most.                       *)
OneNetworkPerProject == Cardinality(Ours) <= 1
=============================================================================
