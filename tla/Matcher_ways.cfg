SPECIFICATION Spec
CONSTANTS
  Task = {a, b, c}
  None = None
  Instances <- MCInstances
SYMMETRY Symmetry
INVARIANTS PostgresAgrees PrismAgrees DerivationsSound RollupsSound
CHECK_DEADLOCK FALSE
