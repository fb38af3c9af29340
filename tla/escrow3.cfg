CONSTANTS
  Addresses = {"p1", "p2", "p3", "p4"}
  MaxSeats = 3
  BuyIns = {1, 2}
  MaxDelta = 2
  MaxSigs = 2
  Rejecting = {"p3"}
SPECIFICATION FairSpec
INVARIANTS EscrowIsBacked SettledInFull SettledByQuorum RefundedOnce
PROPERTIES FundsAreReleased
CHECK_DEADLOCK FALSE
