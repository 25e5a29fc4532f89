CONSTANTS
  d1 = d1
  d2 = d2
  Devices = {d1, d2}
  None = None
  MaxTransport = 2
  MaxShells = 2
SPECIFICATION Spec
INVARIANT OneControlBar
PROPERTIES KeyboardRouted BottomBarKept
CHECK_DEADLOCK FALSE
