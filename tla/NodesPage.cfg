SPECIFICATION Spec
CONSTANTS
  Names = {london, paris}
  Tokens = {t1}
  None = None
  MaxPending = 3
INVARIANT TypeOK
INVARIANT OneRemovalAtATime
PROPERTY RemovalsEnd
