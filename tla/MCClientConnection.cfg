CONSTANTS
  Keys = {k1, k2}
  FirstKey = k1
  MaxAttempts = 2
  MaxRetries = 2
  MaxChanges = 1
SPECIFICATION FairSpec
INVARIANTS ConnectionTypeOK StoredIsOpen HandlersFindTheirRecord ButtonsFollowChannel ConnectedHasSession
PROPERTIES AttemptEnds HeartbeatsEnd SlotsImplemented
CHECK_DEADLOCK FALSE
