CONSTANTS
  N = 2
  MaxBet = 1
  Decks = {{0, 15, 30, 45, 8, 23, 38, 10, 41}}
SPECIFICATION RulesSpec
INVARIANT ReturnsTheBest
CHECK_DEADLOCK FALSE
