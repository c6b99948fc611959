SPECIFICATION MathSpec
CONSTANTS
  PERCENTAGE_FACTOR = 100
  MaxPrice = 12
  MaxAmount = 14
  Bonuses = {105, 120, 150}
  Fees = {0, 10, 50}
INVARIANT SeizedWithinBonus
PROPERTY AskingMorePaysMore
CHECK_DEADLOCK FALSE
