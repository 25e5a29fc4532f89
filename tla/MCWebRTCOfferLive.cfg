CONSTANTS
  o1 = o1
  o2 = o2
  None = None
  Offers <- MCOffers
  MaxSup = 5
  CtrlCap = 8
  Budgets <- MCLiveBudgets
SPECIFICATION FairSpec
PROPERTIES OfferEnds UnusedStreamStops
CHECK_DEADLOCK FALSE
