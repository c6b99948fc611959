SPECIFICATION LiquidationSpec
CONSTANTS
  a1 = a1
  a2 = a2
  u1 = u1
  u2 = u2
  Users = {u1, u2}
  Treasury = treasury
  Assets = {a1, a2}
  Feeds = {}
  None = none
  Categories = {}
  MAX_RESERVES_COUNT = 2
  PERCENTAGE_FACTOR = 100
  WAD = 100
  TOKEN_UNIT = 1
  CEILING_UNIT = 1
  MAX_STABLE_PERCENT = 50
  Amounts = {1, 3}
  MaxSupply = 3
  Prices = {40, 64, 80}
  Percentages = {0}
  Limits = {0}
  Par = 40
  Fee = 50
  Bonus = 150
  Threshold = 40
SYMMETRY Symmetry
INVARIANT TypeOK
INVARIANT DebtIsFlagged
PROPERTY LedgerSpec
PROPERTY LiquidationKeepsCover
