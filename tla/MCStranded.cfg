CONSTANTS
  o1 = o1
  o2 = o2
  None = None
  Offers <- MCOffers
  MaxSup = 5
  CtrlCap = 8
  Budgets <- MCBudgets
SPECIFICATION Spec
SYMMETRY Symmetry
INVARIANT NoReplyStranded
CHECK_DEADLOCK FALSE
