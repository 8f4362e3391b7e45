SPECIFICATION FairSpec
CONSTANTS
  Tokens = {t1, t2}
  Names = {a, b}
  Nodes = {n1, n2}
  Requests = {r1, r2}
  None = None
  Restarts = TRUE
INVARIANTS TypeOK OneNodePerToken UsedTokenNamesItsNode WinnerKeepsItsToken
PROPERTY RegistrationIsRecorded
