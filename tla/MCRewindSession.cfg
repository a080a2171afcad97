SPECIFICATION FairSpec
CONSTANTS
  Games = {g1, g2}
  NoGame = NoGame
  NoMoment = NoMoment
  NoSnapshot = NoSnapshot
  Interval = 1
  MaxFrame = 3
  MaxEpoch = 3
INVARIANTS StaleOnlyOldest EpochsInOrder
PROPERTIES HeldRewindReachesOldest
