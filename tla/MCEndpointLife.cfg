CONSTANTS
  Serials = {s1}
  MaxTid = 2
  MaxChanges = 3
  Retries <- MCRetries
SPECIFICATION FairSpec
INVARIANTS OneCaretaker TableFollowsWatcher WatchedIsShown
PROPERTIES EndpointRecovers LostEndpointGoes
CHECK_DEADLOCK FALSE
