SPECIFICATION Spec
CONSTANTS
  Work = {w1, w2}
  None = None
CHECK_DEADLOCK FALSE
INVARIANT NoParallelDispatch
