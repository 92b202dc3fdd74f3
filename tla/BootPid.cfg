CONSTANTS
  Procs = {a, b, c}
  None = None
SPECIFICATION Spec
INVARIANTS TypeOK NeverNamesExited ServerNamed
CHECK_DEADLOCK FALSE
