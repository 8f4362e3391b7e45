--------------------------- MODULE ConfigContract ---------------------------
(***************************************************************************)
(* What the control plane promises about a config, without saying how: the *)
(* lifecycle table of SPEC.md section 5, one atomic step per row of the    *)
(* table, with the tunnel as a bit of its own.  A tunnel comes up only for *)
(* an active config with an owner, and a row leaves "active" only while    *)
(* the tunnel is down.                                                     *)
(***************************************************************************)
EXTENDS FiniteSets

CONSTANTS Configs, Users, None

VARIABLES
  status,   \* the status of each config; "none" before it exists
  owner,    \* the person it is assigned to
  up        \* the configs whose tunnel is up

vars == <<status, owner, up>>

Init ==
  /\ status = [c \in Configs |-> "none"]
  /\ owner  = [c \in Configs |-> None]
  /\ up     = {}

Move(c, from, to) ==
  /\ status[c] \in from
  /\ status' = [status EXCEPT ![c] = to]
  /\ UNCHANGED up

Issue(c)     == Move(c, {"none"}, "unassigned") /\ owner' = [owner EXCEPT ![c] = None]
Assign(c, u) == Move(c, {"unassigned"}, "active") /\ owner' = [owner EXCEPT ![c] = u]
Enable(c)    == Move(c, {"disabled"}, "active") /\ UNCHANGED owner

Unassign(c) ==
  /\ c \notin up
  /\ Move(c, {"active"}, "unassigned")
  /\ owner' = [owner EXCEPT ![c] = None]

Disable(c) == c \notin up /\ Move(c, {"active"}, "disabled") /\ UNCHANGED owner

Revoke(c) ==
  /\ c \notin up
  /\ Move(c, {"unassigned", "active", "disabled"}, "revoked")
  /\ UNCHANGED owner

\* The tunnel of an active, owned config comes up.
Raise(c) ==
  /\ status[c] = "active" /\ owner[c] # None
  /\ up' = up \cup {c}
  /\ UNCHANGED <<status, owner>>

\* Tunnels go down: one on purpose, or all of a node's at once.
Drop(S) ==
  /\ up' = up \ S
  /\ UNCHANGED <<status, owner>>

Next ==
  \/ \E c \in Configs : \/ Issue(c) \/ Enable(c) \/ Unassign(c) \/ Disable(c)
                        \/ Revoke(c) \/ Raise(c)
  \/ \E c \in Configs, u \in Users : Assign(c, u)
  \/ \E S \in SUBSET Configs : Drop(S)

Spec == Init /\ [][Next]_vars

=============================================================================
