SPECIFICATION Spec
CONSTANTS
  Thread = {t1, t2}
  Fd = {2}
  MaxId <- MCMaxId
  MaxEvicted = 1
  Helpers = {192}
SYMMETRY Symmetry
INVARIANTS  HelpersTrue
CHECK_DEADLOCK FALSE
