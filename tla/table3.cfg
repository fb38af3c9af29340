CONSTANTS
  N = 3
  SmallBlind = 1
  BigBlind = 2
  StartStacks = {3}
SPECIFICATION FairTableSpec
INVARIANTS WinsOnlyMatched ConfirmedIsLegal
PROPERTIES ImplementsLedger TableGoesOn
CHECK_DEADLOCK FALSE
