---------------------------- MODULE MCLifecycle ----------------------------
(* Small instances of Lifecycle for TLC. *)
EXTENDS LifecycleContract, TLC

MCSymmetry == Permutations(Requests) \cup Permutations(Configs) \cup Permutations(Users)

=============================================================================
