CONSTANTS
  N = 4
  MaxBet = 3
  Decks = {
    {7, 8, 9, 10, 11, 12, 24, 25, 38},
    {0, 1, 2, 13, 16, 17, 26, 38, 39},
    {0, 15, 30, 45, 8, 23, 38, 10, 41}}
SPECIFICATION RulesSpec
INVARIANTS EligibleForMatched BestHandWinsAll FairSplit ComparesLikePoker
CHECK_DEADLOCK FALSE
