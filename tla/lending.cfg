SPECIFICATION LendingSpec
CONSTANTS
  a1 = a1
  a2 = a2
  u1 = u1
  u2 = u2
  Users = {u1, u2}
  Treasury = treasury
  Assets = {a1, a2}
  Feeds = {}
  None = none
  Categories = {}
  MAX_RESERVES_COUNT = 2
  PERCENTAGE_FACTOR = 100
  WAD = 100
  TOKEN_UNIT = 1
  CEILING_UNIT = 1
  MAX_STABLE_PERCENT = 50
  Amounts = {1, 2}
  MaxSupply = 3
  Prices = {1, 2}
  Percentages = {0}
  Limits = {0}
SYMMETRY Symmetry
INVARIANT DebtIsFlagged
INVARIANT BorrowingFlagIsOwed
PROPERTY HealthPreserved
PROPERTY LedgerSpec
