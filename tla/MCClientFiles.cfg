CONSTANTS
  f1 = f1
  f2 = f2
  Files = {f1, f2}
  Apks = {f1}
  BarOf <- MCBarOf
  Uploads = {u1, u2}
  Batches = {b1, b2}
  Loads = {l1, l2}
  MaxCalls = 2
  None = None
SPECIFICATION Spec
INVARIANTS ButtonsTruthful ListCatchesUp BarHasOwner
SYMMETRY Calls
CHECK_DEADLOCK FALSE
