----------------------------- MODULE Documents -----------------------------
(* The compose documents between the API and docker-compose: what refuses one, *)
(* and what is started instead of it. compose/validator.go, recompose.go and  *)
(* compose.go, as operators. WalkServices visits the services in the order of *)
(* a Go map, any order, up to the first error of its callback; its callers    *)
(* ignore that error. So an operator here returns the set of what may happen. *)
EXTENDS Naturals, Sequences, FiniteSetsExt, Functions

CONSTANT Name         \* services are called by these names

(* src of a volume: "here" ./x, "cache" ./cache.., "volumes" ./volumes/.., "dotdot"
   with a .. in it, "deep" of more than 8 levels, "away" without a ./ prefix.
   slugs: in how many parts colons cut the text. "long" is the map syntax, which
   is no string.                                                              *)
Volume == [src : {"here", "cache", "volumes", "dotdot", "deep", "away"}, slugs : 1..4]
Long == [src |-> "long", slugs |-> 0]

(* form of volumes: "none" no such key, "other" no list, "list" []interface{},  *)
(* "strings" []string. hidden: its name begins with "x-". bad: has a key of    *)
(* badConfig. labels: "none" no such key, "own" of the user, "batch" from here. *)
IsService(s) == /\ s \in [map : BOOLEAN, hidden : BOOLEAN, bad : BOOLEAN,
                           labels : {"none", "own", "batch"},
                           form : {"none", "other", "list", "strings"},
                           volumes : Seq(Volume \cup {Long})]
                /\ s.form \in {"none", "other"} => s.volumes = <<>>

(* A document: its services by name, and its x-batch: "ok", "missing", "wrong". *)
IsDocument(d) == /\ d = [services |-> d.services, batch |-> d.batch]
                 /\ d.services = [n \in DOMAIN d.services |-> d.services[n]]
                 /\ DOMAIN d.services \subseteq Name /\ IsFiniteSet(DOMAIN d.services)
                 /\ \A n \in DOMAIN d.services : IsService(d.services[n])
                 /\ d.batch \in {"ok", "missing", "wrong"}

Visible(d) == {n \in DOMAIN d.services : ~d.services[n].hidden}

(* The names a walk may have visited when the callback fails on those of Stops. *)
Walks(d, Stops) ==
  IF Stops = {} THEN {Visible(d)}
  ELSE {V \cup {n} : V \in SUBSET (Visible(d) \ Stops), n \in Stops}

-----------------------------------------------------------------------------
(* Mistakes, one line of the code wrong each.                                *)

RefusesNoDotDot(v) == v.src \in {"away", "deep"}

(* Only the outer map is copied.  *)
SharesServices(s) == {"map", "volumes"}

-----------------------------------------------------------------------------
(* Validation                                                                *)

(* castVolumes gives strings, or an error.  *)
Castable(s) == s.form = "list" /\ \A i \in DOMAIN s.volumes : s.volumes[i] # Long
WrongFormat(v) == v.slugs \notin {2, 3}

(* VolumeInplace, NoDotDot and NotAsDeep.  *)
RefusesVolume(v) == v.src \in {"away", "dotdot", "deep"}

(* What ends the walk of Validate, and what adds to the errors it returns.  *)
StopsValidate(s) == \/ ~s.map
                    \/ s.form # "none" /\ ~Castable(s)
                    \/ Castable(s) /\ \E i \in DOMAIN s.volumes : WrongFormat(s.volumes[i])

Complains(s) ==
  /\ s.map
  /\ \/ s.bad
     \/ /\ Castable(s)
        /\ \E i \in DOMAIN s.volumes : /\ RefusesVolume(s.volumes[i])
                                       /\ \A j \in 1..i : ~WrongFormat(s.volumes[j])

MayBeAccepted(d) ==
  \E V \in Walks(d, {n \in Visible(d) : StopsValidate(d.services[n])}) :
     \A n \in V : ~Complains(d.services[n])
MayBeRefused(d) ==
  \E V \in Walks(d, {n \in Visible(d) : StopsValidate(d.services[n])}) :
     \E n \in V : Complains(d.services[n])

(* docker-compose config refuses what is against its schema at least.  *)
FitsSchema(d) ==
  \A n \in DOMAIN d.services : d.services[n].map /\ d.services[n].form # "other"

-----------------------------------------------------------------------------
(* Recomposition                                                             *)

(* PatchVolumeInVolumes("./volumes"), on a source with a ./ prefix: one already *)
(* there comes back without its destination; another with one slug panics.     *)
Patched(v) ==
  IF v.src = "volumes" THEN [v EXCEPT !.slugs = 1]
  ELSE [src |-> IF v.src = "dotdot" THEN "dotdot" ELSE "volumes",
        slugs |-> IF v.slugs = 3 THEN 3 ELSE 2]

PanicsAt(s, i) == s.volumes[i].slugs = 1 /\ s.volumes[i].src \notin {"volumes", "away"}
FailsAt(s, i) == s.volumes[i].src = "away"

Panics(s) == /\ s.map /\ Castable(s)
             /\ \E i \in DOMAIN s.volumes : PanicsAt(s, i) /\ \A j \in 1..i : ~FailsAt(s, j)

VolumesFail(s) == /\ s.form # "none"
                  /\ ~Castable(s) \/ \E i \in DOMAIN s.volumes : FailsAt(s, i)

(* service["volumes"] is set before the labels are looked at.  *)
PatchVolumes(s) ==
  IF s.form = "none" THEN s
  ELSE [s EXCEPT !.form = "strings", !.volumes = [i \in DOMAIN s.volumes |-> Patched(s.volumes[i])]]

PatchService(s) ==
  IF ~s.map \/ VolumesFail(s) THEN s
  ELSE [PatchVolumes(s) EXCEPT !.labels = IF s.labels = "none" THEN "batch" ELSE s.labels]

StopsPatch(s) == ~s.map \/ VolumesFail(s) \/ s.labels = "own" \/ Panics(s)

(* InjectCacheVolume: replaces the first volume in ./cache, or adds one.  *)
Cache == [src |-> "cache", slugs |-> 2]
Caches(s) == {i \in DOMAIN s.volumes : s.volumes[i].src = "cache"}
StopsInject(s) == ~s.map \/ s.form \in {"other", "list"}

InjectService(s) ==
  IF StopsInject(s) THEN s
  ELSE [s EXCEPT !.form = "strings",
                 !.volumes = IF Caches(s) = {} THEN Append(s.volumes, Cache)
                             ELSE [s.volumes EXCEPT ![Min(Caches(s))] = Cache]]

(* The services in V are replaced by new ones.  *)
Map(d, V, new) ==
  [d EXCEPT !.services = [n \in DOMAIN d.services |-> IF n \in V THEN new[n] ELSE d.services[n]]]

PatchWalks(d) == Walks(d, {n \in Visible(d) : StopsPatch(d.services[n])})
MayPanic(d) == \E V \in PatchWalks(d) : \E n \in V : Panics(d.services[n])

Inject(d) == {Map(d, V, [n \in V |-> InjectService(d.services[n])]) :
                V \in Walks(d, {n \in Visible(d) : StopsInject(d.services[n])})}

(* Recompose works on a copy; the network it names is not written by MarshalYAML. *)
Recompose(d) == UNION {Inject(Map(d, V, [n \in V |-> PatchService(d.services[n])])) :
                         V \in {W \in PatchWalks(d) : \A n \in W : ~Panics(d.services[n])}}

(* What the copy of a service shares with it: copyMap makes a new map of each   *)
(* map[string]interface{}, and takes all the rest, lists for one, as it is.     *)
copyMap(s) == IF s.map THEN {"volumes"} ELSE {"map", "volumes"}

(* The service once its copy is patched to p: a patch sets keys of its map, and *)
(* InjectCacheVolume an item of a list that is []string already.               *)
Beneath(s, p) ==
  IF "map" \in copyMap(s) THEN p
  ELSE IF "volumes" \in copyMap(s) /\ s.form = "strings" /\ Caches(s) # {}
       THEN [s EXCEPT !.volumes = p.volumes] ELSE s

(* What JSON makes of it, between a Put and the next read: no Go type is kept.  *)
Reread(s) == [s EXCEPT !.form = IF @ = "strings" THEN "list" ELSE @,
                       !.labels = IF @ = "batch" THEN "own" ELSE @]

Decoded(d) == \A n \in DOMAIN d.services : d.services[n] = Reread(d.services[n])

(* The document that is stored with the task, after its copy became c.  *)
Kept(d, c) ==
  [d EXCEPT !.services = [n \in DOMAIN @ |-> Reread(Beneath(@[n], c.services[n]))]]

(* guessMainContainer; "Multiple services handling is not yet implemented".  *)
HasMain(d) == Cardinality(DOMAIN d.services) = 1
=============================================================================
