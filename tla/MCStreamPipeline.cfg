CONSTANTS
  s1 = s1
  r1 = r1
  r2 = r2
  Sessions <- MCSessions
  Readers <- MCReaders
  FrameCap = 2
  KeepFrames = 1
  MailCap = 1
  MaxSups = 2
  MaxGen = 2
  MaxSubs = 2
  Budgets <- MCBudgets
SPECIFICATION Spec
INVARIANTS OneReader NoPanic KeyFits NewestKeyKept
CONSTRAINT NotAgain
SYMMETRY MCSymmetry
CHECK_DEADLOCK FALSE
