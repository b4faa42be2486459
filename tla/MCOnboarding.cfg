SPECIFICATION Spec
CONSTANTS
  Tabs = {t, u}
  MainTab = t
  Emails = {e}
  Workers = {1, 2}
  None = None
  Bounds <- MCBounds
INVARIANTS
  AcceptedOnce
  SetupInOrder
PROPERTIES
  SetupCompletes
\* The wizard is done and everyone invited has joined: nothing is left to do.
CHECK_DEADLOCK FALSE
