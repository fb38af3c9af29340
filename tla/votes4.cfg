CONSTANTS
  a = a
  b = b
  c = c
  d = d
  Peers = {a, b, c, d}
  Suspects = {d}
  MaxCrashes = 1
  MaxRevivals = 1
  VotesExpire = TRUE
SYMMETRY Symmetry
SPECIFICATION Spec
INVARIANTS FoldNeedsQuorum VotesAreWitnessed
CHECK_DEADLOCK FALSE
