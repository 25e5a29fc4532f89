CONSTANTS
  o1 = o1
  o2 = o2
  None = None
  Offers <- MCOffers
  MaxSup = 3
  CtrlCap = 8
  Budgets <- MCBudgets
SPECIFICATION Spec
SYMMETRY Symmetry
VIEW MCView
INVARIANT CountsComeDown
CHECK_DEADLOCK FALSE
