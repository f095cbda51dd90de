--------------------------- MODULE DocumentProofs ---------------------------
(* What is started instead of a document that was accepted: for any documents, *)
(* any number of services and of tasks, and wherever the process stops.        *)
EXTENDS DeployProofs, SequenceTheorems

-----------------------------------------------------------------------------
(* Walks through the services.                                                *)

(* A walk visits services of the document.                                    *)
LEMMA WalksVisit ==
  ASSUME NEW d, NEW S \in SUBSET Visible(d), NEW V \in Walks(d, S)
  PROVE  V \subseteq Visible(d) /\ V \subseteq DOMAIN d.services
BY DEF Walks, Visible

(* A walk that nothing stops visits them all ...                               *)
LEMMA WalksAll ==
  ASSUME NEW d
  PROVE  Walks(d, {}) = {Visible(d)}
BY DEF Walks

(* ... and there is one way to visit one service.                              *)
LEMMA WalksOne ==
  ASSUME NEW d, NEW n, DOMAIN d.services = {n}, NEW S \in SUBSET Visible(d)
  PROVE  Walks(d, S) = {Visible(d)}
<1>1. CASE S = {}
  BY <1>1, WalksAll
<1>2. CASE S # {}
  <2>1. S = {n} /\ Visible(d) = {n} /\ Visible(d) \ S = {}
    BY <1>2 DEF Visible
  <2>2. \A V \in SUBSET {} : V \cup {n} = {n}
    OBVIOUS
  <2>3. \A W : W \in Walks(d, S) <=> \E V \in SUBSET (Visible(d) \ S), m \in S : W = V \cup {m}
    <3>1. Walks(d, S) = {V \cup {m} : V \in SUBSET (Visible(d) \ S), m \in S}
      BY <1>2 DEF Walks
    <3>. DEFINE A == SUBSET (Visible(d) \ S)
    <3>2. Walks(d, S) = {V \cup {m} : V \in A, m \in S}
      BY <3>1
    <3>. HIDE DEF A
    <3>3. \A W : W \in Walks(d, S) <=> \E V \in A, m \in S : W = V \cup {m}
      BY <3>2
    <3>4. QED
      BY <3>3 DEF A
  <2>4. \A W \in Walks(d, S) : W = {n}
    BY <2>1, <2>2, <2>3
  <2>5. {n} \in Walks(d, S)
    <3>1. {} \in SUBSET {} /\ n \in {n}
      OBVIOUS
    <3>2. {n} = {} \cup {n}
      OBVIOUS
    <3>3. \E V \in SUBSET (Visible(d) \ S), m \in S : {n} = V \cup {m}
      BY <2>1, <3>1, <3>2
    <3>4. QED
      BY <2>3, <3>3
  <2>6. QED
    BY <2>1, <2>4, <2>5
<1>3. QED
  BY <1>1, <1>2

-----------------------------------------------------------------------------
(* What Map, the patchers and the injection make of a document.                *)
LEMMA MapDocument ==
  ASSUME NEW d, IsDocument(d), NEW V, NEW new,
         \A n \in V \cap DOMAIN d.services : IsService(new[n])
  PROVE  /\ IsDocument(Map(d, V, new))
         /\ DOMAIN Map(d, V, new).services = DOMAIN d.services
         /\ \A n \in DOMAIN d.services :
              Map(d, V, new).services[n] = IF n \in V THEN new[n] ELSE d.services[n]
<1>. DEFINE f == [n \in DOMAIN d.services |-> IF n \in V THEN new[n] ELSE d.services[n]]
<1>1. d = [services |-> d.services, batch |-> d.batch]
  BY DEF IsDocument
<1>2. Map(d, V, new) = [services |-> f, batch |-> d.batch]
  BY <1>1 DEF Map
<1>3. Map(d, V, new).services = f /\ Map(d, V, new).batch = d.batch
  BY <1>2
<1>4. \A n \in DOMAIN d.services : IsService(f[n])
  BY DEF IsDocument
<1>5. QED
  BY <1>2, <1>3, <1>4 DEF IsDocument

LEMMA PatchedType ==
  ASSUME NEW v \in Volume
  PROVE  /\ Patched(v) \in Volume
         /\ Patched(v).src = IF v.src = "dotdot" THEN "dotdot" ELSE "volumes"
BY DEF Patched, Volume

(* A service without volumes, or with volumes that can be patched.              *)
LEMMA PatchForm ==
  ASSUME NEW s, IsService(s), s.form # "none", ~VolumesFail(s)
  PROVE  /\ s.form = "list" /\ \A i \in DOMAIN s.volumes : s.volumes[i] \in Volume
         /\ IsService(PatchVolumes(s))
         /\ PatchVolumes(s).form = "strings"
         /\ PatchVolumes(s).volumes = [i \in DOMAIN s.volumes |-> Patched(s.volumes[i])]
<1>1. s.form = "list" /\ \A i \in DOMAIN s.volumes : s.volumes[i] # Long
  BY DEF VolumesFail, Castable
<1>2. /\ s.volumes \in Seq(Volume \cup {Long}) /\ DOMAIN s.volumes = 1..Len(s.volumes)
      /\ Len(s.volumes) \in Nat
  BY DEF IsService
<1>3. \A i \in DOMAIN s.volumes : s.volumes[i] \in Volume
  BY <1>1, <1>2
<1>. DEFINE p == [i \in DOMAIN s.volumes |-> Patched(s.volumes[i])]
<1>4. p \in Seq(Volume \cup {Long})
  BY <1>2, <1>3, PatchedType
<1>. HIDE DEF p
<1>5. PatchVolumes(s) = [s EXCEPT !.form = "strings", !.volumes = p]
  BY DEF PatchVolumes, p
<1>6. QED
  BY <1>1, <1>3, <1>4, <1>5 DEF IsService, p

LEMMA PatchServiceType ==
  ASSUME NEW s, IsService(s)
  PROVE  IsService(PatchService(s))
<1>1. CASE ~s.map \/ VolumesFail(s)
  BY <1>1 DEF PatchService
<1>2. CASE s.map /\ ~VolumesFail(s)
  <2>1. IsService(PatchVolumes(s))
    BY <1>2, PatchForm DEF PatchVolumes
  <2>. DEFINE r == PatchVolumes(s)
              l == IF s.labels = "none" THEN "batch" ELSE s.labels
  <2>2. PatchService(s) = [r EXCEPT !.labels = l] /\ l \in {"none", "own", "batch"}
    BY <1>2 DEF PatchService, IsService
  <2>. HIDE DEF r, l
  <2>3. QED
    BY <2>1, <2>2 DEF IsService, r
<1>3. QED
  BY <1>1, <1>2 DEF IsService

LEMMA ReplaceInSeq ==
  ASSUME NEW T, NEW q \in Seq(T), NEW i, NEW e \in T
  PROVE  /\ [q EXCEPT ![i] = e] \in Seq(T)
         /\ DOMAIN [q EXCEPT ![i] = e] = DOMAIN q
         /\ \A j \in DOMAIN q : [q EXCEPT ![i] = e][j] = IF j = i THEN e ELSE q[j]
<1>1. Len(q) \in Nat /\ DOMAIN q = 1..Len(q) /\ \A j \in 1..Len(q) : q[j] \in T
  OBVIOUS
<1>. DEFINE r == [j \in 1..Len(q) |-> IF j = i THEN e ELSE q[j]]
<1>2. r \in Seq(T)
  BY <1>1
<1>3. [q EXCEPT ![i] = e] = r
  BY <1>1
<1>4. QED
  BY <1>1, <1>2, <1>3

LEMMA InjectServiceType ==
  ASSUME NEW s, IsService(s)
  PROVE  IsService(InjectService(s))
<1>1. Cache \in Volume
  BY DEF Cache, Volume
<1>2. s.volumes \in Seq(Volume \cup {Long})
  BY DEF IsService
<1>3. Append(s.volumes, Cache) \in Seq(Volume \cup {Long})
  BY <1>1, <1>2
<1>4. \A i : [s.volumes EXCEPT ![i] = Cache] \in Seq(Volume \cup {Long})
  BY <1>1, <1>2, ReplaceInSeq
<1>. DEFINE w == IF Caches(s) = {} THEN Append(s.volumes, Cache)
                 ELSE [s.volumes EXCEPT ![Min(Caches(s))] = Cache]
<1>5. w \in Seq(Volume \cup {Long})
  BY <1>3, <1>4
<1>6. CASE StopsInject(s)
  BY <1>6 DEF InjectService
<1>7. CASE ~StopsInject(s)
  <2>1. InjectService(s) = [s EXCEPT !.form = "strings", !.volumes = w]
    BY <1>7 DEF InjectService
  <2>. HIDE DEF w
  <2>2. QED
    BY <1>5, <2>1 DEF IsService
<1>8. QED
  BY <1>6, <1>7

-----------------------------------------------------------------------------
(* Recompose, after one walk that patches and one that injects.                *)
PatchedBy(d, V) == Map(d, V, [n \in V |-> PatchService(d.services[n])])
InjectedBy(d, V) == Map(d, V, [n \in V |-> InjectService(d.services[n])])
InjectWalks(d) == Walks(d, {n \in Visible(d) : StopsInject(d.services[n])})

LEMMA PatchedByIs ==
  ASSUME NEW d, IsDocument(d), NEW V \in PatchWalks(d)
  PROVE  /\ IsDocument(PatchedBy(d, V))
         /\ DOMAIN PatchedBy(d, V).services = DOMAIN d.services
         /\ \A n \in DOMAIN d.services : PatchedBy(d, V).services[n] =
              IF n \in V THEN PatchService(d.services[n]) ELSE d.services[n]
<1>1. V \subseteq DOMAIN d.services
  BY WalksVisit DEF PatchWalks
<1>. DEFINE new == [n \in V |-> PatchService(d.services[n])]
<1>2. \A n \in V : new[n] = PatchService(d.services[n]) /\ IsService(new[n])
  BY <1>1, PatchServiceType DEF IsDocument
<1>. HIDE DEF new
<1>3. /\ IsDocument(Map(d, V, new)) /\ DOMAIN Map(d, V, new).services = DOMAIN d.services
      /\ \A n \in DOMAIN d.services :
           Map(d, V, new).services[n] = IF n \in V THEN new[n] ELSE d.services[n]
  BY <1>2, MapDocument
<1>4. PatchedBy(d, V) = Map(d, V, new)
  BY DEF PatchedBy, new
<1>5. QED
  BY <1>2, <1>3, <1>4

LEMMA InjectedByIs ==
  ASSUME NEW d, IsDocument(d), NEW V \in InjectWalks(d)
  PROVE  /\ IsDocument(InjectedBy(d, V))
         /\ DOMAIN InjectedBy(d, V).services = DOMAIN d.services
         /\ \A n \in DOMAIN d.services : InjectedBy(d, V).services[n] =
              IF n \in V THEN InjectService(d.services[n]) ELSE d.services[n]
<1>1. V \subseteq DOMAIN d.services
  BY WalksVisit DEF InjectWalks
<1>. DEFINE new == [n \in V |-> InjectService(d.services[n])]
<1>2. \A n \in V : new[n] = InjectService(d.services[n]) /\ IsService(new[n])
  BY <1>1, InjectServiceType DEF IsDocument
<1>. HIDE DEF new
<1>3. /\ IsDocument(Map(d, V, new)) /\ DOMAIN Map(d, V, new).services = DOMAIN d.services
      /\ \A n \in DOMAIN d.services :
           Map(d, V, new).services[n] = IF n \in V THEN new[n] ELSE d.services[n]
  BY <1>2, MapDocument
<1>4. InjectedBy(d, V) = Map(d, V, new)
  BY DEF InjectedBy, new
<1>5. QED
  BY <1>2, <1>3, <1>4

LEMMA RecomposeSteps ==
  ASSUME NEW d, NEW c \in Recompose(d)
  PROVE  \E V \in PatchWalks(d) : \E W \in InjectWalks(PatchedBy(d, V)) :
            c = InjectedBy(PatchedBy(d, V), W)
<1>1. PICK V \in PatchWalks(d) : c \in Inject(PatchedBy(d, V))
  BY DEF Recompose, PatchedBy
<1>2. PICK W \in InjectWalks(PatchedBy(d, V)) : c = InjectedBy(PatchedBy(d, V), W)
  BY <1>1 DEF Inject, InjectWalks, InjectedBy
<1>3. QED
  BY <1>1, <1>2

(* A document is made of a document ...                                        *)
LEMMA RecomposeType ==
  ASSUME NEW d, IsDocument(d), NEW c \in Recompose(d)
  PROVE  IsDocument(c)
BY RecomposeSteps, PatchedByIs, InjectedByIs

(* ... and of one with one service, one document only.                         *)
LEMMA RecomposedOnce ==
  ASSUME NEW d, IsDocument(d), HasMain(d), NEW c \in Recompose(d), NEW e \in Recompose(d)
  PROVE  c = e
<1>1. PICK n : DOMAIN d.services = {n}
  BY FS_Singleton DEF IsDocument, HasMain
<1>2. PatchWalks(d) = {Visible(d)}
  BY <1>1, WalksOne DEF PatchWalks
<1>. DEFINE p == PatchedBy(d, Visible(d))
<1>3. DOMAIN p.services = {n}
  BY <1>1, <1>2, PatchedByIs
<1>. HIDE DEF p
<1>4. InjectWalks(p) = {Visible(p)}
  BY <1>3, WalksOne DEF InjectWalks
<1>5. \A x \in Recompose(d) : x = InjectedBy(p, Visible(p))
  BY <1>2, <1>4, RecomposeSteps DEF p
<1>6. QED
  BY <1>5

-----------------------------------------------------------------------------
(* No patch of the copy reaches the original: not through the map of a service,  *)
(* which copyMap made anew, nor through a list, since none that was decoded is a *)
(* []string, nor through what is no map at all, at which both walks stop.        *)
LEMMA CopyIsApart ==
  ASSUME NEW d, IsDocument(d), Decoded(d), NEW c \in Recompose(d)
  PROVE  Kept(d, c) = d
<1>1. ASSUME NEW n \in DOMAIN d.services, ~d.services[n].map
      PROVE  c.services[n] = d.services[n]
  <2>1. PICK V \in PatchWalks(d) : \E W \in InjectWalks(PatchedBy(d, V)) :
              c = InjectedBy(PatchedBy(d, V), W)
    BY RecomposeSteps
  <2>. PICK W \in InjectWalks(PatchedBy(d, V)) : c = InjectedBy(PatchedBy(d, V), W)
    BY <2>1
  <2>2. PatchService(d.services[n]) = d.services[n] /\ InjectService(d.services[n]) = d.services[n]
    BY <1>1 DEF PatchService, InjectService, StopsInject
  <2>3. IsDocument(PatchedBy(d, V)) /\ n \in DOMAIN PatchedBy(d, V).services
        /\ PatchedBy(d, V).services[n] = d.services[n]
    BY <1>1, <2>1, <2>2, PatchedByIs
  <2>4. InjectedBy(PatchedBy(d, V), W).services[n] = d.services[n]
    BY <2>1, <2>2, <2>3, InjectedByIs
  <2>5. QED
    BY <2>1, <2>4
<1>2. ASSUME NEW n \in DOMAIN d.services
      PROVE  Reread(Beneath(d.services[n], c.services[n])) = d.services[n]
  <2>1. d.services[n] = Reread(d.services[n]) /\ IsService(d.services[n])
    BY DEF IsDocument, Decoded
  <2>2. d.services[n].form # "strings"
    BY <2>1 DEF Reread, IsService
  <2>3. Beneath(d.services[n], c.services[n]) = d.services[n]
    BY <1>1, <2>1, <2>2 DEF Beneath, copyMap, IsService
  <2>4. QED
    BY <2>1, <2>3
<1>3. Kept(d, c) = [d EXCEPT !.services = [n \in DOMAIN d.services |-> d.services[n]]]
  BY <1>2 DEF Kept
<1>4. QED
  BY <1>3 DEF IsDocument

-----------------------------------------------------------------------------
(* A service that was accepted, and that no walk stops at, comes out confined.  *)
LEMMA AppendRange ==
  ASSUME NEW T, NEW q \in Seq(T), NEW e \in T
  PROVE  /\ e \in Range(Append(q, e))
         /\ \A v \in Range(Append(q, e)) : v = e \/ v \in Range(q)
<1>1. /\ Len(q) \in Nat /\ DOMAIN q = 1..Len(q)
      /\ DOMAIN Append(q, e) = 1..(Len(q) + 1)
      /\ Append(q, e)[Len(q) + 1] = e
      /\ \A i \in 1..Len(q) : Append(q, e)[i] = q[i]
  OBVIOUS
<1>2. Len(q) + 1 \in DOMAIN Append(q, e)
  BY <1>1
<1>3. \A i \in DOMAIN Append(q, e) : i = Len(q) + 1 \/ i \in DOMAIN q
  BY <1>1
<1>4. QED
  BY <1>1, <1>2, <1>3 DEF Range

(* The volumes that the patcher leaves are all in ./volumes.                   *)
LEMMA PatchedIsInVolumes ==
  ASSUME NEW s, IsService(s), Walked(s), ~Complains(s)
  PROVE  /\ IsService(PatchService(s)) /\ PatchService(s).map
         /\ ~PatchService(s).hidden /\ ~PatchService(s).bad
         /\ PatchService(s).labels = "batch"
         /\ PatchService(s).form \in {"none", "strings"}
         /\ \A i \in DOMAIN PatchService(s).volumes : PatchService(s).volumes[i].src = "volumes"
<1>1. s.map /\ ~s.hidden /\ ~s.bad /\ ~VolumesFail(s)
  BY DEF Walked, StopsValidate, StopsPatch, Complains
<1>2. s.labels \in {"none", "batch"}
  BY DEF Walked, StopsPatch, IsService
<1>. DEFINE r == PatchVolumes(s)
            l == IF s.labels = "none" THEN "batch" ELSE s.labels
<1>3. PatchService(s) = [r EXCEPT !.labels = l] /\ l = "batch"
  BY <1>1, <1>2 DEF PatchService
<1>4. /\ IsService(r) /\ r.map = s.map /\ r.hidden = s.hidden /\ r.bad = s.bad
      /\ r.form \in {"none", "strings"}
      /\ \A i \in DOMAIN r.volumes : r.volumes[i].src = "volumes"
  <2>1. CASE s.form = "none"
    <3>1. r = s /\ s.volumes = <<>>
      BY <2>1 DEF PatchVolumes, IsService
    <3>2. QED
      BY <2>1, <3>1
  <2>2. CASE s.form # "none"
    <3>1. /\ s.form = "list" /\ \A i \in DOMAIN s.volumes : s.volumes[i] \in Volume
          /\ IsService(r) /\ r.form = "strings"
          /\ r.volumes = [i \in DOMAIN s.volumes |-> Patched(s.volumes[i])]
      BY <1>1, <2>2, PatchForm
    <3>2. r.map = s.map /\ r.hidden = s.hidden /\ r.bad = s.bad
      BY <2>2 DEF PatchVolumes, IsService
    <3>3. Castable(s)
      BY <1>1, <2>2 DEF VolumesFail
    <3>4. \A i \in DOMAIN s.volumes : ~WrongFormat(s.volumes[i])
      BY <3>3 DEF Walked, StopsValidate
    <3>5. DOMAIN s.volumes = 1..Len(s.volumes) /\ Len(s.volumes) \in Nat
      BY DEF IsService
    <3>6. \A i \in DOMAIN s.volumes : ~RefusesVolume(s.volumes[i])
      <4>1. \A i \in DOMAIN s.volumes : \A j \in 1..i : j \in DOMAIN s.volumes
        BY <3>5
      <4>2. QED
        BY <1>1, <3>3, <3>4, <4>1 DEF Complains
    <3>7. \A i \in DOMAIN s.volumes : Patched(s.volumes[i]).src = "volumes"
      BY <3>1, <3>6, PatchedType DEF RefusesVolume
    <3>8. QED
      BY <3>1, <3>2, <3>7
  <2>3. QED
    BY <2>1, <2>2
<1>. HIDE DEF r, l
<1>5. r = [map |-> r.map, hidden |-> r.hidden, bad |-> r.bad, labels |-> r.labels,
           form |-> r.form, volumes |-> r.volumes]
  BY <1>4 DEF IsService
<1>6. QED
  BY <1>1, <1>3, <1>4, <1>5, PatchServiceType

LEMMA ServiceConfined ==
  ASSUME NEW s, IsService(s), Walked(s), ~Complains(s)
  PROVE  /\ ~PatchService(s).hidden /\ ~StopsInject(PatchService(s))
         /\ Confined(InjectService(PatchService(s)))
<1>. DEFINE p == PatchService(s)
            w == Append(p.volumes, Cache)
<1>1. /\ IsService(p) /\ p.map /\ ~p.hidden /\ ~p.bad /\ p.labels = "batch"
      /\ p.form \in {"none", "strings"}
      /\ \A i \in DOMAIN p.volumes : p.volumes[i].src = "volumes"
  BY PatchedIsInVolumes
<1>. HIDE DEF p
<1>2. ~StopsInject(p)
  BY <1>1 DEF StopsInject
<1>3. Caches(p) = {}
  BY <1>1 DEF Caches
<1>4. InjectService(p) = [p EXCEPT !.form = "strings", !.volumes = w]
  BY <1>2, <1>3 DEF InjectService
<1>5. Cache \in Range(w) /\ \A v \in Range(w) : v = Cache \/ v \in Range(p.volumes)
  <2>1. p.volumes \in Seq(Volume \cup {Long}) /\ Cache \in Volume \cup {Long}
    BY <1>1 DEF IsService, Cache, Volume
  <2>2. QED
    BY <2>1, AppendRange
<1>6. \A v \in Range(w) : v.src \in {"volumes", "cache"}
  <2>1. Cache.src = "cache"
    BY DEF Cache
  <2>2. \A v \in Range(p.volumes) : v.src = "volumes"
    BY <1>1 DEF Range
  <2>3. QED
    BY <1>5, <2>1, <2>2
<1>. HIDE DEF w
<1>7. /\ InjectService(p).bad = p.bad /\ InjectService(p).labels = p.labels
      /\ InjectService(p).volumes = w
  BY <1>1, <1>4 DEF IsService
<1>8. QED
  BY <1>1, <1>2, <1>5, <1>6, <1>7 DEF Confined, p

(* All of a document that the walks go through comes out confined.             *)
LEMMA DocumentConfined ==
  ASSUME NEW d, IsDocument(d), MayBeAccepted(d),
         \A n \in DOMAIN d.services : Walked(d.services[n]),
         NEW c \in Recompose(d), NEW n \in DOMAIN c.services
  PROVE  Confined(c.services[n])
<1>1. Visible(d) = DOMAIN d.services
  BY DEF Visible, Walked
<1>2. \A m \in DOMAIN d.services : ~Complains(d.services[m])
  <2>1. {m \in Visible(d) : StopsValidate(d.services[m])} = {}
    BY <1>1 DEF Walked
  <2>2. QED
    BY <1>1, <2>1, WalksAll DEF MayBeAccepted
<1>3. PatchWalks(d) = {DOMAIN d.services}
  <2>1. {m \in Visible(d) : StopsPatch(d.services[m])} = {}
    BY <1>1 DEF Walked
  <2>2. QED
    BY <1>1, <2>1, WalksAll DEF PatchWalks
<1>4. \A m \in DOMAIN d.services :
         /\ ~PatchService(d.services[m]).hidden /\ ~StopsInject(PatchService(d.services[m]))
         /\ Confined(InjectService(PatchService(d.services[m])))
  BY <1>2, ServiceConfined DEF IsDocument
<1>. DEFINE p == PatchedBy(d, DOMAIN d.services)
<1>5. /\ IsDocument(p) /\ DOMAIN p.services = DOMAIN d.services
      /\ \A m \in DOMAIN d.services : p.services[m] = PatchService(d.services[m])
  BY <1>3, PatchedByIs
<1>6. PICK W \in InjectWalks(p) : c = InjectedBy(p, W)
  BY <1>3, RecomposeSteps
<1>. HIDE DEF p
<1>7. W = DOMAIN d.services
  <2>1. Visible(p) = DOMAIN d.services
    BY <1>4, <1>5 DEF Visible
  <2>2. {m \in Visible(p) : StopsInject(p.services[m])} = {}
    BY <1>4, <1>5, <2>1
  <2>3. QED
    BY <1>6, <2>1, <2>2, WalksAll DEF InjectWalks
<1>8. n \in DOMAIN d.services /\ c.services[n] = InjectService(p.services[n])
  BY <1>5, <1>6, <1>7, InjectedByIs
<1>9. QED
  BY <1>4, <1>5, <1>8

-----------------------------------------------------------------------------
(* The inductive invariant: what a task was started with is made of the document *)
(* it keeps, and a document that is kept was accepted.                          *)
Kind(t) == IF phase[t] \in {"new", "refused"}
           THEN doc[t] = NoDocument /\ runs[t] = {}
           ELSE IsDocument(doc[t]) /\ Decoded(doc[t]) /\ MayBeAccepted(doc[t])
Origin(t) == runs[t] \subseteq Recompose(doc[t]) /\ (runs[t] # {} => HasMain(doc[t]))

DShape == /\ phase \in [Task -> {"new", "refused", "waiting", "running", "error", "done"}]
          /\ DOMAIN doc = Task /\ DOMAIN runs = Task
          /\ up \in Task \cup {NoTask} /\ alive \in BOOLEAN
Called == /\ up # NoTask => phase[up] = "waiting"
          /\ pc # "idle" => up # NoTask

DInv == DShape /\ Called /\ \A t \in Task : Kind(t) /\ Origin(t)

-----------------------------------------------------------------------------
(* Steps that share a shape.                                                   *)

(* A task that a step leaves alone.                                            *)
LEMMA TaskKept ==
  ASSUME NEW t, Kind(t), Origin(t), phase'[t] = phase[t], doc'[t] = doc[t], runs'[t] = runs[t]
  PROVE  Kind(t)' /\ Origin(t)'
BY DEF Kind, Origin

(* A task that was accepted goes on, its document and its runs as they were.    *)
LEMMA PhaseMoves ==
  ASSUME DInv, NEW t \in Task, phase[t] \notin {"new", "refused"},
         NEW p \in {"waiting", "running", "error", "done"},
         phase' = [phase EXCEPT ![t] = p],
         DOMAIN doc' = Task, \A u \in Task : doc'[u] = doc[u], runs' = runs
  PROVE  /\ phase' \in [Task -> {"new", "refused", "waiting", "running", "error", "done"}]
         /\ \A u \in Task : Kind(u)' /\ Origin(u)'
<1>1. /\ phase' \in [Task -> {"new", "refused", "waiting", "running", "error", "done"}]
      /\ phase'[t] = p /\ \A u \in Task \ {t} : phase'[u] = phase[u]
  BY DEF DInv, DShape
<1>2. \A u \in Task \ {t} : Kind(u)' /\ Origin(u)'
  BY <1>1, TaskKept DEF DInv
<1>3. Kind(t)' /\ Origin(t)'
  BY <1>1 DEF DInv, Kind, Origin
<1>4. QED
  BY <1>1, <1>2, <1>3

(* The tasks are left alone, and Runner.Up is called for the same one or none.  *)
LEMMA TasksKept ==
  ASSUME DInv, UNCHANGED taskVars, up' = up \/ up' = NoTask,
         alive' \in BOOLEAN, pc' # "idle" => up' # NoTask
  PROVE  DInv'
<1>1. phase' = phase /\ doc' = doc /\ runs' = runs
  BY DEF taskVars
<1>2. DShape' /\ Called'
  BY <1>1 DEF DInv, DShape, Called
<1>3. \A t \in Task : Kind(t)' /\ Origin(t)'
  BY <1>1, TaskKept DEF DInv
<1>4. QED
  BY <1>2, <1>3 DEF DInv

-----------------------------------------------------------------------------
(* The steps of Deploy.                                                        *)

LEMMA PostStep == ASSUME DInv, NEW t \in Task, Post(t) PROVE DInv'
<1>1. /\ phase[t] = "new" /\ doc[t] = NoDocument /\ runs[t] = {}
      /\ UNCHANGED <<pc, runs, up, alive>>
  BY DEF Post, DInv, Kind, netVars
<1>2. up # t
  BY <1>1, DeployAssumption DEF DInv, Called
<1>3. CASE Accept(t)
  <2>1. PICK d \in Document : /\ MayBeAccepted(d)
                              /\ phase' = [phase EXCEPT ![t] = "waiting"]
                              /\ doc' = [doc EXCEPT ![t] = d]
    BY <1>3 DEF Accept
  <2>2. /\ phase'[t] = "waiting" /\ doc'[t] = d
        /\ \A u \in Task \ {t} : phase'[u] = phase[u] /\ doc'[u] = doc[u]
        /\ DShape'
    BY <1>1, <2>1 DEF DInv, DShape
  <2>3. IsDocument(d) /\ Decoded(d)
    BY DeployAssumption
  <2>4. Kind(t)' /\ Origin(t)'
    BY <1>1, <2>1, <2>2, <2>3 DEF Kind, Origin
  <2>5. \A u \in Task \ {t} : Kind(u)' /\ Origin(u)'
    BY <1>1, <2>2, TaskKept DEF DInv
  <2>6. Called'
    BY <1>1, <1>2, <2>2 DEF DInv, DShape, Called
  <2>7. QED
    BY <2>2, <2>4, <2>5, <2>6 DEF DInv
<1>4. CASE Refuse(t)
  <2>1. phase' = [phase EXCEPT ![t] = "refused"] /\ doc' = doc
    BY <1>4 DEF Refuse
  <2>2. /\ phase'[t] = "refused"
        /\ \A u \in Task \ {t} : phase'[u] = phase[u]
        /\ DShape'
    BY <1>1, <2>1 DEF DInv, DShape
  <2>3. Kind(t)' /\ Origin(t)'
    BY <1>1, <2>1, <2>2 DEF Kind, Origin
  <2>4. \A u \in Task \ {t} : Kind(u)' /\ Origin(u)'
    BY <1>1, <2>1, <2>2, TaskKept DEF DInv
  <2>5. Called'
    BY <1>1, <1>2, <2>2 DEF DInv, DShape, Called
  <2>6. QED
    BY <2>2, <2>3, <2>4, <2>5 DEF DInv
<1>5. QED
  BY <1>3, <1>4 DEF Post

LEMMA UpBeginStep == ASSUME DInv, NEW t \in Task, UpBegin(t) PROVE DInv'
<1>1. /\ phase[t] = "waiting" /\ up' = t /\ phase' = phase /\ doc' = doc /\ runs' = runs
      /\ alive' = alive
  BY DEF UpBegin, taskVars
<1>2. DShape' /\ Called'
  BY <1>1, DeployAssumption DEF DInv, DShape, Called
<1>3. \A u \in Task : Kind(u)' /\ Origin(u)'
  BY <1>1, TaskKept DEF DInv
<1>4. QED
  BY <1>2, <1>3 DEF DInv

LEMMA UpNetworkStep == ASSUME DInv, UpNetwork PROVE DInv'
<1>1. UNCHANGED <<taskVars, up, alive>> /\ NewStep
  BY DEF UpNetwork
<1>2. pc # "idle"
  BY <1>1 DEF NewStep, Reuse, List, Propose, Walk, Create, CreateFail, Prune, DockerError
<1>3. QED
  BY <1>1, <1>2, TasksKept DEF DInv, DShape, Called

(* Runner.Up is over: no call is left.                                          *)
LEMMA UpOver ==
  ASSUME DInv, up # NoTask, pc = "idle", alive' \in BOOLEAN,
         NEW p \in {"waiting", "running", "error", "done"}, UpEnd(p)
  PROVE  /\ up \in Task /\ phase[up] = "waiting" /\ phase' = [phase EXCEPT ![up] = p]
         /\ up' = NoTask /\ pc' = "idle" /\ Called'
BY DEF DInv, DShape, UpEnd, Called

LEMMA KeptStays ==
  ASSUME DInv, up \in Task, phase[up] = "waiting",
         NEW c \in Recompose(doc[up]), doc' = [doc EXCEPT ![up] = Kept(@, c)]
  PROVE  DOMAIN doc' = Task /\ \A u \in Task : doc'[u] = doc[u]
<1>1. Kept(doc[up], c) = doc[up]
  BY CopyIsApart DEF DInv, Kind
<1>2. QED
  BY <1>1 DEF DInv, DShape

LEMMA UpStartStep == ASSUME DInv, UpStart PROVE DInv'
<1>1. PICK c \in Recompose(doc[up]) : /\ runs' = [runs EXCEPT ![up] = @ \cup {c}]
                                      /\ doc' = [doc EXCEPT ![up] = Kept(@, c)]
  BY DEF UpStart
<1>2. /\ up # NoTask /\ pc = "idle" /\ HasMain(doc[up]) /\ alive' = alive /\ UpEnd("running")
  BY DEF UpStart, Composed
<1>3. /\ up \in Task /\ phase[up] = "waiting" /\ phase' = [phase EXCEPT ![up] = "running"]
      /\ up' = NoTask /\ Called'
  BY <1>2, UpOver DEF DInv, DShape
<1>4. DOMAIN doc' = Task /\ \A u \in Task : doc'[u] = doc[u]
  BY <1>1, <1>3, KeptStays
<1>5. /\ DOMAIN runs' = Task /\ runs'[up] = runs[up] \cup {c}
      /\ \A u \in Task \ {up} : runs'[u] = runs[u]
  BY <1>1, <1>3 DEF DInv, DShape
<1>6. /\ phase' \in [Task -> {"new", "refused", "waiting", "running", "error", "done"}]
      /\ phase'[up] = "running" /\ \A u \in Task \ {up} : phase'[u] = phase[u]
  BY <1>3 DEF DInv, DShape
<1>7. DShape'
  BY <1>2, <1>3, <1>4, <1>5, <1>6 DEF DInv, DShape
<1>8. ASSUME NEW u \in Task PROVE Kind(u)' /\ Origin(u)'
  <2>1. CASE u = up
    <3>1. IsDocument(doc[u]) /\ Decoded(doc[u]) /\ MayBeAccepted(doc[u]) /\ Origin(u)
      BY <1>3, <2>1 DEF DInv, Kind
    <3>2. Kind(u)'
      BY <1>4, <1>6, <2>1, <3>1 DEF Kind
    <3>3. Origin(u)'
      BY <1>1, <1>2, <1>4, <1>5, <2>1, <3>1 DEF Origin
    <3>4. QED
      BY <3>2, <3>3
  <2>2. CASE u # up
    BY <1>4, <1>5, <1>6, <2>2, TaskKept DEF DInv
  <2>3. QED
    BY <2>1, <2>2
<1>9. QED
  BY <1>3, <1>7, <1>8 DEF DInv

LEMMA UpRefusedStep == ASSUME DInv, UpRefused PROVE DInv'
<1>1. PICK c \in Recompose(doc[up]) : doc' = [doc EXCEPT ![up] = Kept(@, c)]
  BY DEF UpRefused
<1>2. /\ up # NoTask /\ pc = "idle" /\ alive' = alive /\ runs' = runs /\ UpEnd("error")
  BY DEF UpRefused, Composed
<1>3. /\ up \in Task /\ phase[up] = "waiting" /\ phase' = [phase EXCEPT ![up] = "error"]
      /\ up' = NoTask /\ Called'
  BY <1>2, UpOver DEF DInv, DShape
<1>4. DOMAIN doc' = Task /\ \A u \in Task : doc'[u] = doc[u]
  BY <1>1, <1>3, KeptStays
<1>5. /\ phase' \in [Task -> {"new", "refused", "waiting", "running", "error", "done"}]
      /\ \A u \in Task : Kind(u)' /\ Origin(u)'
  BY <1>2, <1>3, <1>4, PhaseMoves
<1>6. DShape'
  BY <1>2, <1>3, <1>4, <1>5 DEF DInv, DShape
<1>7. QED
  BY <1>3, <1>5, <1>6 DEF DInv

(* Without a network, or by a panic: the documents are not touched.             *)
LEMMA UpFailedStep ==
  ASSUME DInv, UpNoNetwork \/ UpPanic
  PROVE  DInv'
<1>1. /\ up # NoTask /\ pc = "idle" /\ doc' = doc /\ runs' = runs /\ alive' \in BOOLEAN
  BY DEF UpNoNetwork, UpPanic, Composed, DInv, DShape
<1>2. PICK p \in {"waiting", "error"} : UpEnd(p)
  BY <1>1 DEF UpNoNetwork, UpPanic, DInv, Called
<1>3. /\ up \in Task /\ phase[up] = "waiting" /\ phase' = [phase EXCEPT ![up] = p]
      /\ up' = NoTask /\ Called'
  BY <1>1, <1>2, UpOver
<1>4. /\ phase' \in [Task -> {"new", "refused", "waiting", "running", "error", "done"}]
      /\ \A u \in Task : Kind(u)' /\ Origin(u)'
  BY <1>1, <1>2, <1>3, PhaseMoves DEF DInv, DShape
<1>5. DShape'
  BY <1>1, <1>3, <1>4 DEF DInv, DShape
<1>6. QED
  BY <1>3, <1>4, <1>5 DEF DInv

LEMMA EndStep == ASSUME DInv, NEW t \in Task, End(t) PROVE DInv'
<1>1. /\ phase[t] = "running" /\ doc' = doc /\ runs' = runs /\ UNCHANGED <<pc, up, alive>>
  BY DEF End, netVars
<1>2. PICK p \in {"done", "waiting"} : phase' = [phase EXCEPT ![t] = p]
  BY DEF End
<1>3. /\ phase' \in [Task -> {"new", "refused", "waiting", "running", "error", "done"}]
      /\ \A u \in Task : Kind(u)' /\ Origin(u)'
  BY <1>1, <1>2, PhaseMoves DEF DInv, DShape
<1>4. up # t
  BY <1>1, DeployAssumption DEF DInv, Called
<1>5. DShape' /\ Called'
  BY <1>1, <1>2, <1>3, <1>4 DEF DInv, DShape, Called
<1>6. QED
  BY <1>3, <1>5 DEF DInv

LEMMA OtherSteps ==
  ASSUME DInv, Stop \/ Restart \/ World \/ UNCHANGED vars
  PROVE  DInv'
<1>1. UNCHANGED taskVars /\ alive' \in BOOLEAN
  BY DEF Stop, Restart, World, vars, DInv, DShape
<1>2. up' = up \/ up' = NoTask
  BY DEF Stop, Restart, World, vars
<1>3. pc' # "idle" => up' # NoTask
  BY DEF Stop, Return, Restart, World, Others, OthersCreate, OthersRemove, Remove, vars, netVars,
     DInv, Called
<1>4. QED
  BY <1>1, <1>2, <1>3, TasksKept

LEMMA DInvInit == DInit => DInv
BY DeployAssumption DEF DInit, NInit, DInv, DShape, Called, Kind, Origin

LEMMA DInvStep == DInv /\ [DNext]_vars => DInv'
BY PostStep, UpBeginStep, EndStep, UpNetworkStep, UpStartStep, UpRefusedStep, UpFailedStep,
   OtherSteps DEF DNext, UpStep

LEMMA DInvAlways == DSpec => []DInv
BY DInvInit, DInvStep, PTL DEF DSpec

-----------------------------------------------------------------------------
(* Each variable stays in its type, what is started is a document as what was   *)
(* posted is, and New is at work only for a task that waits for its start.      *)
THEOREM DeployTyping == DSpec => []TypeOK
<1>1. IsDocument(NoDocument)
  <2>1. DOMAIN NoDocument.services = {} /\ IsFiniteSet({})
    BY FS_EmptySet DEF NoDocument
  <2>2. NoDocument.services = [n \in DOMAIN NoDocument.services |-> NoDocument.services[n]]
    BY <2>1 DEF NoDocument
  <2>3. QED
    BY <2>1, <2>2 DEF NoDocument, IsDocument
<1>2. ASSUME NetInv, DInv PROVE TypeOK
  <2>1. ASSUME NEW t \in Task
        PROVE  /\ doc[t] = NoDocument \/ IsDocument(doc[t])
               /\ \A c \in runs[t] : IsDocument(c)
    <3>1. IsDocument(doc[t])
      BY <1>1, <1>2 DEF DInv, Kind
    <3>2. \A c \in runs[t] : c \in Recompose(doc[t])
      BY <1>2 DEF DInv, Origin
    <3>3. QED
      BY <3>1, <3>2, RecomposeType
  <2>2. QED
    BY <1>2, <2>1 DEF TypeOK, NetInv, DInv, DShape, Called
<1>3. QED
  BY <1>2, NetInvAlways, DInvAlways, PTL

(* A task is started with one document, however often its cron, a failure or a   *)
(* restart starts it: Recompose writes on copies, never on the task's own maps.  *)
THEOREM TheSameEachTime == DSpec => []RunsAreAlike
<1>1. ASSUME DInv PROVE RunsAreAlike
  <2>1. SUFFICES ASSUME NEW t \in Task PROVE Cardinality(runs[t]) <= 1
    BY DEF RunsAreAlike
  <2>2. CASE runs[t] = {}
    BY <2>2, FS_EmptySet
  <2>3. CASE runs[t] # {}
    <3>1. PICK c : c \in runs[t]
      BY <2>3
    <3>2. IsDocument(doc[t]) /\ HasMain(doc[t]) /\ runs[t] \subseteq Recompose(doc[t])
      BY <1>1, <2>3 DEF DInv, Kind, Origin
    <3>3. \A e \in runs[t] : e = c
      BY <3>1, <3>2, RecomposedOnce
    <3>4. runs[t] = {c}
      BY <3>1, <3>3
    <3>5. Cardinality({c}) = 1
      BY FS_Singleton
    <3>6. QED
      BY <3>4, <3>5
  <2>4. QED
    BY <2>2, <2>3
<1>2. QED
  BY <1>1, DInvAlways, PTL

(* What the validator accepts and the recomposition goes through, docker-compose *)
(* starts with no forbidden key, no volume but ./volumes and the cache, and the  *)
(* label of the scheduler, whatever document was posted.                        *)
THEOREM ConfinedWhenStarted == DSpec => []StartedIsConfined
<1>1. ASSUME DInv PROVE StartedIsConfined
  <2>1. SUFFICES ASSUME NEW t \in Task, \A n \in DOMAIN doc[t].services : Walked(doc[t].services[n]),
                        NEW c \in runs[t], NEW n \in DOMAIN c.services
                 PROVE  Confined(c.services[n])
    BY DEF StartedIsConfined
  <2>2. IsDocument(doc[t]) /\ MayBeAccepted(doc[t]) /\ c \in Recompose(doc[t])
    BY <1>1, <2>1 DEF DInv, Kind, Origin
  <2>3. QED
    BY <2>1, <2>2, DocumentConfined
<1>2. QED
  BY <1>1, DInvAlways, PTL
=============================================================================
