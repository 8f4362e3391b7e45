SPECIFICATION Spec
CONSTANTS
  People = {me, ahmed}
  Local = {ahmed}
  Me = me
  Configs = {c1}
  None = None
  Detailed = {me}
  MaxPending = 2
INVARIANT TypeOK
INVARIANT RefusedOnlyWhenOvertaken
INVARIANT AssignedToActive
PROPERTY WithoutRoleOnlySwitches

