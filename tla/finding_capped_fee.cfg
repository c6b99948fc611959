SPECIFICATION MathSpec
CONSTANTS
  PERCENTAGE_FACTOR = 100
  MaxPrice = 3
  MaxAmount = 20
  Bonuses = {105, 120, 150}
  Fees = {0, 10, 50}
INVARIANT LiquidatorNotShort
CHECK_DEADLOCK FALSE
