SPECIFICATION Spec
CONSTANTS
  kim = kim
  sam = sam
  ahmed = ahmed
  People = {kim, ahmed}
  Local = {ahmed}
  Name <- MCName
  Admins = {kim, sam}
  Configs = {c1}
  Requests = {r1, r2}
  None = None
  Removals = {"unassign", "disable"}
  Faults = {"refuse", "timeout", "clerk", "abandon"}
INVARIANT TypeOK
PROPERTY SuspensionNamesWhatStaysOn
PROPERTY MirrorConverges
