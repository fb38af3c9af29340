CONSTANTS
  a = a
  b = b
  c = c
  d = d
  Peers = {a, b, c, d}
  Suspects = {d}
  MaxCrashes = 1
  MaxRevivals = 0
  VotesExpire = FALSE
SPECIFICATION FairSpec
PROPERTIES CrashedIsFolded
CHECK_DEADLOCK FALSE
