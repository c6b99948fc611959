SPECIFICATION MCSpec
CONSTANTS
  Users = {u1, u2}
  Treasury = treasury
  Suppliers = {u1}
  Borrowers = {u1, u2}
  PERCENTAGE_FACTOR = 100
  RAY = 10000
  WAD_RAY_RATIO = 10
  SECONDS_PER_YEAR = 2
  OPTIMAL_UTILIZATION_RATE = 8000
  OPTIMAL_STABLE_TO_TOTAL_DEBT_RATIO = 5000
  BaseVariableBorrowRate = 200
  VariableRateSlope1 = 1000
  VariableRateSlope2 = 3000
  StableRateSlope1 = 500
  StableRateSlope2 = 4000
  BaseStableRateOffset = 200
  StableRateExcessOffset = 600
  RESERVE_FACTOR = 20
  MAX_STABLE_PERCENT = 25
  FLASHLOAN_PREMIUM_TOTAL = 9
  FLASHLOAN_PREMIUM_TO_PROTOCOL = 3
  BRIDGE_PROTOCOL_FEE = 30
  UnbackedMintCap = 0
  SupplyAmounts = {2400}
  BorrowAmounts = {600}
  RepayAmounts = {300, 100000}
  FlashAmounts = {400, 1800}
  Periods = {3}
  MaxCalls = 6
  MaxTime = 7
CHECK_DEADLOCK FALSE
INVARIANT LiquidityAddedIsReal
