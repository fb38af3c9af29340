CONSTANTS
  Bots = {"bot1", "bot2"}
  MaxHands = 3
  MaxActions = 4
  MaxKeys = 2
SPECIFICATION FairSpec
INVARIANTS TypeOK SomebodyDrives PlayedOutUntilAKey
PROPERTIES TableGoesOn
CHECK_DEADLOCK FALSE
