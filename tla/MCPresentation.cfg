SPECIFICATION FairSpec
CONSTANTS
  Windows = {a}
  NoWindow = NoWindow
  Slots = 2
CHECK_DEADLOCK FALSE
INVARIANTS OutputIsSound
PROPERTIES EventuallyShown
