------------------------- MODULE MCInternalNetwork -------------------------
(* Instances of InternalNetwork for TLC. *)
EXTENDS InternalNetwork, TLC

SymmetricGoroutines ==
  Permutations(Machine) \cup Permutations(Service)
    \cup Permutations(Worker) \cup Permutations(Resolver)

(* Where the health check gets to all addresses or to none. *)
Symmetric == SymmetricGoroutines \cup Permutations(Ip)
=============================================================================
