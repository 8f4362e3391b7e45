------------------------- MODULE LifecycleContract -------------------------
(* Lifecycle implements ConfigContract, as long as operations on one config *)
(* do not overlap and a call that timed out is lost.                        *)
EXTENDS Lifecycle

Contract == INSTANCE ConfigContract WITH
  status <- [c \in Configs |-> config[c].status],
  owner  <- [c \in Configs |-> config[c].owner],
  up     <- peers

\* Every step of the server actions, the agents and the faults is a step of the
\* lifecycle table of SPEC section 5, or changes nothing it speaks of.
ContractSpec == Contract!Spec

=============================================================================
