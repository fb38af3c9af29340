CONSTANTS
  N = 3
  SmallBlind = 1
  BigBlind = 2
  StartStacks = {0, 2, 5}
SPECIFICATION Spec
INVARIANTS TypeOK SeatLedger RoundDiscipline OnlyDeadPotsUnpaid FullBoardAtShowdown
PROPERTIES BetsEqualised EveryoneActs OutOfBetting
CHECK_DEADLOCK FALSE
