CONSTANTS
  N = 3
  NumCards = 14
  Order = 17
  Multiples <- MCMultiples
  Perms <- MCPerms
  MaxFaults = 2
SPECIFICATION Spec
INVARIANTS HoleCardsPrivate LogExplainsBoard
PROPERTIES ImplementsDealer
CHECK_DEADLOCK FALSE
