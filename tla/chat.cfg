\* Three turns, a lost buffer, a turn that fails.
SPECIFICATION Spec
CONSTANTS
  t1 = t1
  t2 = t2
  t3 = t3
  Turns <- ThreeTurns
  BufferSize = 3
  RecentLimit = 4
  MaxLosses = 1
  MaxFaults = 1
SYMMETRY TurnSymmetry
INVARIANTS
  TypeOK
  OnlyCommittedInPrompts
  AnswersFollowQuestions
  BoundedPrompts
  CountIsNoOvercount
CHECK_DEADLOCK FALSE
