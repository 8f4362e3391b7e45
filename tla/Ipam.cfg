SPECIFICATION Spec
CONSTANTS
  Width = 6
  Prefixes <- MCPrefixes
  Bases <- MCBases
  Configs = {c1, c2, c3, c4, c5, c6}
  None = None
SYMMETRY MCSymmetry
INVARIANTS TypeOK HandsOutHosts LowPoolsFill LowPoolsAccept
PROPERTY LowestFree
