SPECIFICATION Spec
CONSTANTS
  Width = 6
  Prefixes <- MCPrefixes
  Bases <- MCUpper
  Configs = {c1, c2, c3, c4, c5, c6}
  None = None
SYMMETRY MCSymmetry
INVARIANT FailsOnlyWhenFull
