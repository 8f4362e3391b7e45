SPECIFICATION Spec
CONSTANTS
  Requests = {r1, r2}
  Configs = {c1}
  Nodes = {n1}
  Users = {u1}
  Pool = {2}
  None = None
  Faults = {}
  Serial = FALSE
SYMMETRY MCSymmetry
PROPERTY RemovedNodeIsEmpty
