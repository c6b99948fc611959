SPECIFICATION MCSpec
CONSTANTS
  Users = {u1, u2}
  Depositor = u1
  Borrower = u2
  Treasury = treasury
  PERCENTAGE_FACTOR = 100
  RAY = 10000
  WAD_RAY_RATIO = 50
  SECONDS_PER_YEAR = 4
  OPTIMAL_UTILIZATION_RATE = 8000
  OPTIMAL_STABLE_TO_TOTAL_DEBT_RATIO = 5000
  BaseVariableBorrowRate = 200
  VariableRateSlope1 = 1000
  VariableRateSlope2 = 3000
  StableRateSlope1 = 500
  StableRateSlope2 = 4000
  BaseStableRateOffset = 200
  StableRateExcessOffset = 600
  RESERVE_FACTOR = 20
  MAX_STABLE_PERCENT = 25
  FLASHLOAN_PREMIUM_TOTAL = 9
  FLASHLOAN_PREMIUM_TO_PROTOCOL = 3
  BRIDGE_PROTOCOL_FEE = 30
  UnbackedMintCap = 3000
  MAX_UINT_AMOUNT = 100000
  APPROVAL = 90000
  Funds = 10000
  DepositAmounts = {2000}
  WithdrawAmounts = {500}
  BorrowAmounts = {480, 1450}
  RepayAmounts = {200}
  BridgeAmounts = {2800}
  BridgeFees = {100}
  CreditAmounts = {600}
  BlockTime = 1
  TravelTime = 4
  MaxCalls = 5
  MaxTime = 14
CHECK_DEADLOCK FALSE
INVARIANT ReserveAsExpected
INVARIANT UserAsExpected
INVARIANT BridgedClaimsCovered
PROPERTY DebtsOfOthersAreDelegated
