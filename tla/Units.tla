------------------------------- MODULE Units -------------------------------
(* Quantities of a resource, counted unit by unit: x of S takes n[x] of them. *)
EXTENDS Naturals, FiniteSets

UnitsOf(S, n) == UNION {{x} \X (1..n[x]) : x \in S}
Total(S, n) == Cardinality(UnitsOf(S, n))
=============================================================================
