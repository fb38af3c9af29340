CONSTANTS
  Senders = {b, c}
  Receivers = {a}
  MaxSeats = 2
  MaxSeq <- MCMaxSeq
  Player = b
  Joiner = c
  MaxHands = 2
  MaxRestarts = 1
SPECIFICATION Spec
INVARIANTS RoutedOnceInOrder ActedOnIsLogged OnlyRestartsEquivocate ValidLogIsComplete ReadyMeansAll
CHECK_DEADLOCK FALSE
