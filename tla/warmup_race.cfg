\* Two devices start a conversation.
SPECIFICATION Spec
CONSTANTS
  t1 = t1
  t2 = t2
  t3 = t3
  Turns <- TwoTurns
  BufferSize = 6
  RecentLimit = 6
  MaxLosses = 0
  MaxFaults = 0
SYMMETRY TurnSymmetry
INVARIANTS
  BufferHasBoth
CHECK_DEADLOCK FALSE
