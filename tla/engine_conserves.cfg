CONSTANTS
  N = 3
  SmallBlind = 1
  BigBlind = 2
  StartStacks = {20, 22}
SPECIFICATION Spec
INVARIANT ChipsConserved
CHECK_DEADLOCK FALSE
