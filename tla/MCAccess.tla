------------------------------ MODULE MCAccess ------------------------------
(* A small instance of Access for TLC. *)
EXTENDS Access, TLC

CONSTANTS kim, sam, ahmed

\* sam is an admin without a row; ahmed has no login, and kim's name.
MCName == (kim :> "kim") @@ (ahmed :> "kim")

=============================================================================
