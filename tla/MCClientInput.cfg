CONSTANTS
  d1 = d1
  d2 = d2
  Devices = {d1, d2}
  Width <- MCWidth
  Modifiers = {"Control", "Shift"}
  Keys = {"volume"}
  None = None
  MaxTimers = 1
  MaxChanges = 1
SPECIFICATION FairSpec
INVARIANTS InputTypeOK GestureIsPressed TouchesOnScreen
PROPERTIES FingersPaired MirrorsStayEqual KeysReleased
CHECK_DEADLOCK FALSE
