SPECIFICATION ModesSpec
CONSTANTS
  a1 = a1
  a2 = a2
  u1 = u1
  u2 = u2
  Users = {u1, u2}
  Treasury = treasury
  Assets = {a1, a2}
  Feeds = {f}
  None = none
  Categories = {1, 2}
  MAX_RESERVES_COUNT = 2
  PERCENTAGE_FACTOR = 100
  WAD = 100
  TOKEN_UNIT = 1
  CEILING_UNIT = 1
  MAX_STABLE_PERCENT = 50
  Amounts = {1, 2, 4}
  MaxSupply = 4
  Prices = {1, 2}
  Percentages = {0}
  Limits = {0}
  Ceiling = 2
  Scenarios = {"isolation", "emode", "categories"}
  f = f
SYMMETRY Symmetry
 
INVARIANT ExposureIsCounted
INVARIANT CeilingHolds
INVARIANT IsolationCounterClears
PROPERTY EModeDebtsInCategory
INVARIANT BonusIsPremium
PROPERTY LoanIsHealthy
PROPERTY LoanCoversBonus
