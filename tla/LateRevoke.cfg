SPECIFICATION Spec
CONSTANTS
  Requests = {r1}
  Configs = {c1}
  Nodes = {n1}
  Users = {u1}
  Pool = {2}
  None = None
  Faults = {"timeout", "late"}
  Serial = FALSE
SYMMETRY MCSymmetry
INVARIANT RevokedIsDown
