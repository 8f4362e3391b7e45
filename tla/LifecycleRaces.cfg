SPECIFICATION Spec
CONSTANTS
  Requests = {r1, r2}
  Configs = {c1, c2}
  Nodes = {n1}
  Users = {u1}
  Pool = {2, 3}
  None = None
  Faults = {"timeout"}
  Serial = FALSE
SYMMETRY MCSymmetry
INVARIANT TypeOK
INVARIANT UniqueLiveAddress
INVARIANT SpareHasNoOwner
INVARIANT HandOverIsFresh
