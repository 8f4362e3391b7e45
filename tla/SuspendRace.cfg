SPECIFICATION Spec
CONSTANTS
  kim = kim
  sam = sam
  ahmed = ahmed
  People = {kim}
  Local = {}
  Name <- MCName
  Admins = {sam}
  Configs = {c1}
  Requests = {r1, r2}
  None = None
  Removals = {"unassign", "disable"}
  Faults = {}
PROPERTY CleanSuspensionStopsTunnels
