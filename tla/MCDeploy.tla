------------------------------ MODULE MCDeploy ------------------------------
(* A range of /24 from slot 4 to slot 6, and a handful of documents.   *)
EXTENDS Deploy

Slot24(k) == Net(k * MaskSize, MaskSize)
Wide(a) == [a EXCEPT !.wide = TRUE]

(* The range as the tests of NextAvailableNetwork give it, with networks of the *)
(* size of the mask and a larger one; and as NewNetworks makes it.              *)
MCSetting ==
  {[mini |-> Slot24(4), maxi |-> Slot24(6),
    foreign |-> {Slot24(4), Slot24(5), Slot24(7), Net(4 * MaskSize, 2 * MaskSize)}],
   [mini |-> Wide(Slot24(4)), maxi |-> Wide(Slot24(6)),
    foreign |-> {Net(4 * MaskSize, 4 * MaskSize), Slot24(9)}]}

Plainly(vs) == [map |-> TRUE, hidden |-> FALSE, bad |-> FALSE, labels |-> "none",
                form |-> IF vs = <<>> THEN "none" ELSE "list", volumes |-> vs]
V(src, slugs) == [src |-> src, slugs |-> slugs]
One(s) == [services |-> [n \in {"bob"} |-> s], batch |-> "ok"]
Two(s, u) == [services |-> [n \in {"bob", "amy"} |-> IF n = "bob" THEN s ELSE u], batch |-> "ok"]

Simple == One(Plainly(<<V("here", 3), V("cache", 2)>>))
DotDot == One(Plainly(<<V("here", 2), V("dotdot", 2)>>))
OneSlug == One(Plainly(<<V("volumes", 2), V("here", 1)>>))
(* Accepted or refused, as the map is walked, and posted as JSON only.  *)
Pair == [Two([Plainly(<<Long>>) EXCEPT !.labels = "own"], [Plainly(<<>>) EXCEPT !.bad = TRUE])
         EXCEPT !.batch = "missing"]

MCDocument == {Simple, DotDot, OneSlug, Pair}
=============================================================================
