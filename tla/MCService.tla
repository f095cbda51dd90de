----------------------------- MODULE MCService -----------------------------
(* A subscriber with a channel of two places, and two ways of the store: a bbolt *)
(* file that does not grow while Load adopts a container, and the memory store, *)
(* where Load has none to adopt. A bbolt file that grows blocks like the memory. *)
EXTENDS Service

MCTask == {Added, Old}
MCPublisher == MCTask \cup {"main", "loop", "add"}
MCKind == {[bolt |-> TRUE, grows |-> FALSE, adopts |-> TRUE],
           [bolt |-> FALSE, grows |-> FALSE, adopts |-> FALSE]}
=============================================================================
