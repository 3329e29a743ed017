CONSTANTS
  Chip <- MCChip
  Start <- MCStart
  Limit = 24
  MaxSeconds = 6
  Hz = 1000
  LATCH = 6
  TICK_SIZE = 5
  Word = 8
  Early = 2
  Lap = 2
  MaxTicks = 4
  Followed <- MCFollowed
SPECIFICATION ClockSpec
INVARIANTS ReadOnBus TimeRight MonotonicAtZero JiffiesWhole
PROPERTIES BootGoesOn OffsetForward
