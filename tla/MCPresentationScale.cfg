SPECIFICATION Spec
CONSTANTS
  Windows = {a}
  NoWindow = NoWindow
  Slots = 2
CHECK_DEADLOCK FALSE
INVARIANTS SampledIsLive
