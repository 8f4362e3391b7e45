---------------------------- MODULE MCNodesPage ----------------------------
(* A small instance of NodesPage for TLC. *)
EXTENDS NodesPage

=============================================================================
