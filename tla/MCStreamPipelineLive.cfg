CONSTANTS
  s1 = s1
  r1 = r1
  r2 = r2
  Sessions <- MCSessions
  Readers <- MCReader
  FrameCap = 1
  KeepFrames = 0
  MailCap = 1
  MaxSups = 2
  MaxGen = 2
  MaxSubs = 2
  Budgets <- MCLiveBudgets
SPECIFICATION FairSpec
PROPERTY StopCompletes
CONSTRAINT NotAgain
CHECK_DEADLOCK FALSE
