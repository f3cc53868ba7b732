--------------------------- MODULE MCMachineStore ---------------------------
(* Instances of MachineStore for TLC. *)
EXTENDS MachineStore, TLC

Symmetric == Permutations(Machine) \cup Permutations(Worker) \cup Permutations(Service)
=============================================================================
