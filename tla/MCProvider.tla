----------------------------- MODULE MCProvider -----------------------------
(* Instances of Provider and of the function store in it for TLC. *)
EXTENDS Provider, TLC

Symmetric ==
  Permutations(Fn) \cup Permutations(Image) \cup Permutations(Digest)
    \cup Permutations(Proc) \cup Permutations(Machine)
=============================================================================
