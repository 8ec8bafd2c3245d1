SPECIFICATION Spec
CONSTANTS
  None = None
  Worlds <- MCWorlds
INVARIANTS
  ValuationComesLast
PROPERTY
  DecisionStands
CHECK_DEADLOCK FALSE
