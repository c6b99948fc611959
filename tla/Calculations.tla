---------------------------- MODULE Calculations ----------------------------
(***************************************************************************)
(* calculations.ts: what the test suite expects of the data of a reserve   *)
(* and of a user after each call, from the data before it, the time of the *)
(* transaction (tx) and that of the reading (current).  It is a second     *)
(* account of the rules of the protocol, written independently of the      *)
(* contracts; nothing here refers to the modules that model those.         *)
(*                                                                         *)
(* reserveData and userData are the records of interfaces/index.ts, and a  *)
(* field that a function of the source copies is one that EXCEPT leaves.   *)
(* MAX_UINT_AMOUNT asks for all of a balance or of a debt.                 *)
(***************************************************************************)
EXTENDS BigNumbers

CONSTANT MAX_UINT_AMOUNT

-----------------------------------------------------------------------------
(* Interest.                                                               *)

CalcLinearInterest(rate, current, lastUpdate) ==
  Truncated(rate * (current - lastUpdate), SECONDS_PER_YEAR) + RAY

CalcCompoundedInterest(rate, current, lastUpdate) ==
  LET time  == current - lastUpdate
      two   == Truncated(BnRayMul(rate, rate), SECONDS_PER_YEAR * SECONDS_PER_YEAR)
      three == Truncated(BnRayMul(two, rate), SECONDS_PER_YEAR)
      expMinusTwo == IF time > 2 THEN time - 2 ELSE 0
  IN IF time = 0 THEN RAY
     ELSE RAY + Truncated(rate * time, SECONDS_PER_YEAR)
              + Truncated(time * (time - 1) * two, 2)
              + Truncated(time * (time - 1) * expMinusTwo * three, 6)

CalcExpectedReserveNormalizedIncome(reserveData, current) ==
  IF reserveData.liquidityRate = 0 THEN reserveData.liquidityIndex
  ELSE BnRayMul(CalcLinearInterest(reserveData.liquidityRate, current,
                                   reserveData.lastUpdateTimestamp),
                reserveData.liquidityIndex)

CalcExpectedReserveNormalizedDebt(rate, index, lastUpdate, current) ==
  IF rate = 0 THEN index
  ELSE BnRayMul(CalcCompoundedInterest(rate, current, lastUpdate), index)

CalcExpectedLiquidityIndex(reserveData, timestamp) ==
  IF reserveData.supplyUtilizationRate = 0 THEN reserveData.liquidityIndex
  ELSE BnRayMul(CalcLinearInterest(reserveData.liquidityRate, timestamp,
                                   reserveData.lastUpdateTimestamp),
                reserveData.liquidityIndex)

CalcExpectedVariableBorrowIndex(reserveData, timestamp) ==
  IF reserveData.totalVariableDebt = 0 THEN reserveData.variableBorrowIndex
  ELSE BnRayMul(CalcCompoundedInterest(reserveData.variableBorrowRate, timestamp,
                                       reserveData.lastUpdateTimestamp),
                reserveData.variableBorrowIndex)

-----------------------------------------------------------------------------
(* Balances.                                                               *)

CalcExpectedScaledATokenBalance(userData, index, added, taken) ==
  userData.scaledATokenBalance + BnRayDiv(added, index) - BnRayDiv(taken, index)

CalcExpectedATokenBalance(reserveData, userData, current) ==
  BnRayMul(userData.scaledATokenBalance,
           CalcExpectedReserveNormalizedIncome(reserveData, current))

CalcExpectedVariableDebtTokenBalance(reserveData, userData, current) ==
  BnRayMul(userData.scaledVariableDebt,
           CalcExpectedReserveNormalizedDebt(reserveData.variableBorrowRate,
                                             reserveData.variableBorrowIndex,
                                             reserveData.lastUpdateTimestamp, current))

CalcExpectedStableDebtTokenBalance(principal, rate, lastUpdated, current) ==
  IF rate = 0 \/ lastUpdated \in {0, current} THEN principal
  ELSE BnRayMul(principal, CalcCompoundedInterest(rate, current, lastUpdated))

StableDebtOf(userData, current) ==
  CalcExpectedStableDebtTokenBalance(userData.principalStableDebt, userData.stableBorrowRate,
                                     userData.stableRateLastUpdated, current)

CalcExpectedTotalStableDebt(principal, averageRate, lastUpdate, current) ==
  BnRayMul(CalcCompoundedInterest(averageRate, current, lastUpdate), principal)

TotalStableDebtOf(reserveData, current) ==
  CalcExpectedTotalStableDebt(reserveData.principalStableDebt,
                              reserveData.averageStableBorrowRate,
                              reserveData.totalStableDebtLastUpdated, current)

CalcExpectedTotalVariableDebt(reserveData, index) ==
  BnRayMul(reserveData.scaledVariableDebt, index)

-----------------------------------------------------------------------------
(* Rates.                                                                  *)

CalcExpectedUserStableRate(balanceBefore, rateBefore, amount, rateNew) ==
  Truncated(balanceBefore * rateBefore + amount * rateNew, balanceBefore + amount)

CalcExpectedAverageStableBorrowRate(averageBefore, totalBefore, amount, rate) ==
  IF totalBefore + amount = 0 THEN 0
  ELSE Truncated(averageBefore * totalBefore + rate * amount, totalBefore + amount)

\* The amount is in ray and the total debt is not, as in the source.
CalcExpectedAverageStableBorrowRateRebalance(averageBefore, totalBefore, amount, rate) ==
  LET total == totalBefore + BnWadToRay(amount)
  IN IF total = 0 THEN 0
     ELSE BnRayDiv(BnRayMul(averageBefore, totalBefore) + BnRayMul(rate, BnWadToRay(amount)),
                   total)

CappedUtilization(borrowed, supplied) ==
  [borrow |-> borrowed, supply |-> IF StringGreater(supplied, borrowed) THEN borrowed ELSE supplied]

CalcExpectedUtilizationRates(stableDebt, variableDebt, availableLiquidity, totalLiquidity) ==
  LET totalDebt == stableDebt + variableDebt
  IN IF totalDebt = 0 THEN [borrow |-> 0, supply |-> 0]
     ELSE CappedUtilization(BnRayDiv(totalDebt, availableLiquidity + totalDebt),
                            BnRayDiv(totalDebt, totalLiquidity + totalDebt))

CalcExpectedOverallBorrowRate(stableDebt, variableDebt, variableRate, averageStableRate) ==
  IF stableDebt + variableDebt = 0 THEN 0
  ELSE BnRayDiv(BnRayMul(BnWadToRay(variableDebt), variableRate)
                  + BnRayMul(BnWadToRay(stableDebt), averageStableRate),
                BnWadToRay(stableDebt + variableDebt))

\* What a rate climbs over its base at a utilization.
Climb(slope1, slope2, utilization) ==
  IF utilization > OPTIMAL_UTILIZATION_RATE
  THEN slope1 + BnRayMul(slope2, BnRayDiv(utilization - OPTIMAL_UTILIZATION_RATE,
                                          RAY - OPTIMAL_UTILIZATION_RATE))
  ELSE BnRayDiv(BnRayMul(slope1, utilization), OPTIMAL_UTILIZATION_RATE)

\* What the stable rate adds for a share of stable debt above the optimal one.
StableRateExcess(ratio) ==
  IF ratio > OPTIMAL_STABLE_TO_TOTAL_DEBT_RATIO
  THEN BnRayMul(StableRateExcessOffset,
                BnRayDiv(ratio - OPTIMAL_STABLE_TO_TOTAL_DEBT_RATIO,
                         RAY - OPTIMAL_STABLE_TO_TOTAL_DEBT_RATIO))
  ELSE 0

RatesAt(utilization, variableRate, reserveData, stableDebt, variableDebt) ==
  [liquidity |-> BnPercentMul(BnRayMul(CalcExpectedOverallBorrowRate(stableDebt, variableDebt,
                                         variableRate, reserveData.averageStableBorrowRate),
                                       utilization.supply),
                              PERCENTAGE_FACTOR - reserveData.reserveFactor),
   stable    |-> reserveData.marketStableRate
                   + Climb(StableRateSlope1, StableRateSlope2, utilization.borrow)
                   + StableRateExcess(IF stableDebt > 0
                                      THEN BnRayDiv(stableDebt, stableDebt + variableDebt)
                                      ELSE 0),
   variable  |-> variableRate]

RatesOf(utilization, reserveData, stableDebt, variableDebt) ==
  RatesAt(utilization,
          BaseVariableBorrowRate + Climb(VariableRateSlope1, VariableRateSlope2,
                                         utilization.borrow),
          reserveData, stableDebt, variableDebt)

\* The rates for the liquidity of reserveData and these debts.
CalcExpectedInterestRates(reserveData, stableDebt, variableDebt) ==
  RatesOf(CalcExpectedUtilizationRates(stableDebt, variableDebt,
                                       reserveData.availableLiquidity,
                                       reserveData.totalLiquidity),
          reserveData, stableDebt, variableDebt)

-----------------------------------------------------------------------------
(* The steps that the expected data of a reserve are made of.              *)

\* next has the indexes and the debts of the transaction.
CalcExpectedAccrueToTreasury(reserveData, next) ==
  LET previous == BnRayMul(reserveData.scaledVariableDebt, reserveData.variableBorrowIndex)
                    + TotalStableDebtOf(reserveData, reserveData.lastUpdateTimestamp)
      after    == BnRayMul(next.scaledVariableDebt, next.variableBorrowIndex)
                    + next.totalStableDebt
      toMint   == BnPercentMul(after - previous, reserveData.reserveFactor)
  IN reserveData.accruedToTreasuryScaled
       + IF toMint > 0 THEN BnRayDiv(toMint, next.liquidityIndex) ELSE 0

WithAccrued(reserveData, next) ==
  [next EXCEPT !.accruedToTreasuryScaled = CalcExpectedAccrueToTreasury(reserveData, next)]

WithDebtsAt(reserveData, index, tx) ==
  [reserveData EXCEPT
     !.liquidityIndex      = CalcExpectedLiquidityIndex(reserveData, tx),
     !.variableBorrowIndex = index,
     !.totalStableDebt     = TotalStableDebtOf(reserveData, tx),
     !.totalVariableDebt   = CalcExpectedTotalVariableDebt(reserveData, index)]

UpdateState(reserveData, tx) ==
  WithAccrued(reserveData,
              WithDebtsAt(reserveData, CalcExpectedVariableBorrowIndex(reserveData, tx), tx))

SetUtilization(r, rates) ==
  [r EXCEPT !.borrowUtilizationRate = rates.borrow, !.supplyUtilizationRate = rates.supply]

WithUtilization(r) ==
  SetUtilization(r, CalcExpectedUtilizationRates(r.totalStableDebt, r.totalVariableDebt,
                                                 r.availableLiquidity, r.totalLiquidity))

UpdateTotalLiquidityAndUtil(r) ==
  WithUtilization([r EXCEPT !.totalLiquidity = r.availableLiquidity + r.unbacked])

UpdateLiquidityAndUtils(r, added, taken) ==
  UpdateTotalLiquidityAndUtil([r EXCEPT !.availableLiquidity = @ + added - taken])

SetRates(r, rates) ==
  [r EXCEPT !.liquidityRate      = rates.liquidity,
            !.stableBorrowRate   = rates.stable,
            !.variableBorrowRate = rates.variable]

WithRatesFor(r, stableDebt, variableDebt) ==
  SetRates(r, CalcExpectedInterestRates(r, stableDebt, variableDebt))

\* Most functions end so.
WithRatesAndUtilization(r) ==
  UpdateTotalLiquidityAndUtil(WithRatesFor(r, r.totalStableDebt, r.totalVariableDebt))

-----------------------------------------------------------------------------
(* The reserve after each call.                                            *)

CalcExpectedReserveDataAfterDeposit(amount, reserveData, tx) ==
  WithRatesAndUtilization(UpdateLiquidityAndUtils(UpdateState(reserveData, tx), amount, 0))

CalcExpectedReserveDataAfterWithdraw(asked, reserveData, userData, tx) ==
  LET amount == IF asked = MAX_UINT_AMOUNT
                THEN CalcExpectedATokenBalance(reserveData, userData, tx) ELSE asked
  IN WithRatesAndUtilization(UpdateLiquidityAndUtils(UpdateState(reserveData, tx), 0, amount))

\* The average of the debt that bridges leave as it is.
AverageUnchanged(reserveData) ==
  CalcExpectedAverageStableBorrowRate(reserveData.averageStableBorrowRate,
                                      reserveData.totalStableDebt, 0,
                                      reserveData.stableBorrowRate)

CalcExpectedReserveDataAfterMintUnbacked(amount, reserveData, tx) ==
  LET minted == [UpdateState(reserveData, tx) EXCEPT !.unbacked = reserveData.unbacked + amount]
  IN WithRatesAndUtilization(
       [UpdateLiquidityAndUtils(minted, 0, 0) EXCEPT
          !.averageStableBorrowRate = AverageUnchanged(reserveData)])

CalcExpectedReserveDataAfterBackUnbacked(scaledSupply, amount, fee, protocolFee, reserveData, tx) ==
  LET updated    == UpdateState(reserveData, tx)
      backing    == Min({amount, reserveData.unbacked})
      toProtocol == BnPercentMul(fee, protocolFee)
      supply     == BnRayMul(scaledSupply, updated.liquidityIndex)
      index      == BnRayMul(BnRayDiv(BnWadToRay(fee - toProtocol), BnWadToRay(supply)) + RAY,
                             updated.liquidityIndex)
      backed     == [updated EXCEPT
                       !.liquidityIndex          = index,
                       !.accruedToTreasuryScaled = @ + BnRayDiv(toProtocol, index),
                       !.unbacked                = reserveData.unbacked - backing]
  IN WithRatesAndUtilization(
       [UpdateLiquidityAndUtils(backed, backing + fee, 0) EXCEPT
          !.averageStableBorrowRate = AverageUnchanged(reserveData)])

\* The variable debts as read after the transaction, at the rates it left.
VariableDebtRead(r, scaledDebt, tx, current) ==
  BnRayMul(scaledDebt, CalcExpectedReserveNormalizedDebt(r.variableBorrowRate,
                                                         r.variableBorrowIndex, tx, current))

AfterStableBorrow(updated, amount, reserveData, tx, current) ==
  LET untilTx == TotalStableDebtOf(reserveData, tx)
      minted  == [updated EXCEPT
                    !.averageStableBorrowRate = CalcExpectedAverageStableBorrowRate(
                        reserveData.averageStableBorrowRate, untilTx, amount,
                        reserveData.stableBorrowRate),
                    !.principalStableDebt     = untilTx + amount]
      rated   == WithRatesFor(minted, minted.principalStableDebt, minted.totalVariableDebt)
  IN WithUtilization(
       [rated EXCEPT
          !.totalStableDebt   = CalcExpectedTotalStableDebt(rated.principalStableDebt,
                                  rated.averageStableBorrowRate, tx, current),
          !.totalVariableDebt = VariableDebtRead(rated, reserveData.scaledVariableDebt,
                                                 tx, current)])

AfterVariableBorrow(updated, amount, reserveData, tx, current) ==
  LET stableAfterTx == CalcExpectedStableDebtTokenBalance(reserveData.principalStableDebt,
                         reserveData.averageStableBorrowRate,
                         reserveData.totalStableDebtLastUpdated, tx)
      scaled == reserveData.scaledVariableDebt + BnRayDiv(amount, updated.variableBorrowIndex)
      rated  == WithRatesFor([updated EXCEPT !.scaledVariableDebt = scaled], stableAfterTx,
                             BnRayMul(scaled, updated.variableBorrowIndex))
  IN WithUtilization(
       [rated EXCEPT
          !.totalStableDebt   = TotalStableDebtOf(reserveData, current),
          !.totalVariableDebt = VariableDebtRead(rated, scaled, tx, current)])

CalcExpectedReserveDataAfterBorrow(amount, rateMode, reserveData, tx, current) ==
  LET updated == [UpdateLiquidityAndUtils(UpdateState(reserveData, tx), 0, amount) EXCEPT
                    !.lastUpdateTimestamp = tx]
  IN IF rateMode = "stable" THEN AfterStableBorrow(updated, amount, reserveData, tx, current)
     ELSE AfterVariableBorrow(updated, amount, reserveData, tx, current)

WithStableDebt(r, total, average) ==
  [r EXCEPT !.principalStableDebt     = total,
            !.totalStableDebt         = total,
            !.averageStableBorrowRate = average]

WithVariableDebt(r, scaled) ==
  [r EXCEPT !.scaledVariableDebt = scaled,
            !.totalVariableDebt  = BnRayMul(scaled, r.variableBorrowIndex)]

\* The stable debts without the amount; what accumulated errors leave is erased.
StableDebtRepaid(updated, amount, reserveData, userData, tx) ==
  LET debt    == TotalStableDebtOf(reserveData, tx)
      average == CalcExpectedAverageStableBorrowRate(reserveData.averageStableBorrowRate,
                                                     debt, -amount, userData.stableBorrowRate)
  IN IF debt < amount \/ average < 0 THEN WithStableDebt(updated, 0, 0)
     ELSE WithStableDebt(updated, debt - amount, average)

CalcExpectedReserveDataAfterRepay(asked, rateMode, reserveData, userData, tx) ==
  LET amount  == IF asked # MAX_UINT_AMOUNT THEN asked
                 ELSE IF rateMode = "stable" THEN StableDebtOf(userData, tx)
                 ELSE CalcExpectedVariableDebtTokenBalance(reserveData, userData, tx)
      updated == UpdateLiquidityAndUtils(UpdateState(reserveData, tx), amount, 0)
      repaid  == IF rateMode = "stable"
                 THEN StableDebtRepaid(updated, amount, reserveData, userData, tx)
                 ELSE WithVariableDebt(updated, reserveData.scaledVariableDebt
                                                  - BnRayDiv(amount, updated.variableBorrowIndex))
  IN [WithRatesAndUtilization(repaid) EXCEPT !.lastUpdateTimestamp = tx]

SwappedToVariable(updated, debt, reserveData, userData) ==
  LET total == updated.totalStableDebt
  IN WithVariableDebt(
       WithStableDebt(updated, total - debt,
                      CalcExpectedAverageStableBorrowRate(reserveData.averageStableBorrowRate,
                                                          total, -debt,
                                                          userData.stableBorrowRate)),
       reserveData.scaledVariableDebt + BnRayDiv(debt, updated.variableBorrowIndex))

\* The average is that of the total debt as it was read before the call.
SwappedToStable(updated, debt, reserveData) ==
  WithVariableDebt(
    WithStableDebt(updated, updated.totalStableDebt + debt,
                   CalcExpectedAverageStableBorrowRate(reserveData.averageStableBorrowRate,
                                                       reserveData.totalStableDebt, debt,
                                                       reserveData.stableBorrowRate)),
    reserveData.scaledVariableDebt - BnRayDiv(debt, updated.variableBorrowIndex))

\* rateMode is the mode to leave.
CalcExpectedReserveDataAfterSwapRateMode(reserveData, userData, rateMode, tx) ==
  LET updated == UpdateLiquidityAndUtils(UpdateState(reserveData, tx), 0, 0)
  IN WithRatesAndUtilization(
       IF rateMode = "stable"
       THEN SwappedToVariable(updated, StableDebtOf(userData, tx), reserveData, userData)
       ELSE SwappedToStable(updated,
                            CalcExpectedVariableDebtTokenBalance(reserveData, userData, tx),
                            reserveData))

CalcExpectedReserveDataAfterStableRateRebalance(reserveData, userData, tx) ==
  LET updated  == UpdateLiquidityAndUtils(UpdateState(reserveData, tx), 0, 0)
      userDebt == StableDebtOf(userData, tx)
      total    == TotalStableDebtOf(reserveData, tx)
      removed  == CalcExpectedAverageStableBorrowRateRebalance(
                    reserveData.averageStableBorrowRate, total, -userDebt,
                    userData.stableBorrowRate)
      average  == CalcExpectedAverageStableBorrowRateRebalance(
                    removed, total - userDebt, userDebt, reserveData.stableBorrowRate)
  IN WithRatesAndUtilization(WithStableDebt(updated, total, average))

-----------------------------------------------------------------------------
(* The user after each call; expected is what the call leaves of the reserve. *)

\* The last assignment to principalStableDebt is of the variable debt.
CalcExpectedUserDataAfterDeposit(amount, reserveData, expected, userData, tx) ==
  LET variableDebt == CalcExpectedVariableDebtTokenBalance(reserveData, userData, tx)
  IN [userData EXCEPT
        !.currentStableDebt        = StableDebtOf(userData, tx),
        !.currentVariableDebt      = variableDebt,
        !.principalStableDebt      = variableDebt,
        !.liquidityRate            = expected.liquidityRate,
        !.scaledATokenBalance      = CalcExpectedScaledATokenBalance(userData,
                                       expected.liquidityIndex, amount, 0),
        !.currentATokenBalance     = CalcExpectedATokenBalance(reserveData, userData, tx)
                                       + amount,
        !.usageAsCollateralEnabled = userData.currentATokenBalance = 0 \/ @,
        !.walletBalance            = @ - amount]

CalcExpectedUserDataAfterWithdraw(asked, reserveData, expected, userData, tx) ==
  LET balance == CalcExpectedATokenBalance(reserveData, userData, tx)
      amount  == IF asked = MAX_UINT_AMOUNT THEN balance ELSE asked
  IN [userData EXCEPT
        !.scaledATokenBalance      = CalcExpectedScaledATokenBalance(userData,
                                       expected.liquidityIndex, 0, amount),
        !.currentATokenBalance     = balance - amount,
        !.currentStableDebt        = StableDebtOf(userData, tx),
        !.currentVariableDebt      = CalcExpectedVariableDebtTokenBalance(reserveData,
                                       userData, tx),
        !.liquidityRate            = expected.liquidityRate,
        !.usageAsCollateralEnabled = \/ userData.currentATokenBalance = 0
                                     \/ @ /\ balance # amount,
        !.walletBalance            = @ + amount]

\* A variable borrow adds to the scaled debt of the reserve, not to the user's.
CalcExpectedUserDataAfterBorrow(amount, rateMode, reserveData, expected, userData, tx, current) ==
  LET untilTx == StableDebtOf(userData, tx)
      debtor  ==
        IF rateMode = "stable"
        THEN [userData EXCEPT
                !.principalStableDebt   = untilTx + amount,
                !.stableRateLastUpdated = tx,
                !.stableBorrowRate      = CalcExpectedUserStableRate(untilTx,
                    userData.stableBorrowRate, amount, reserveData.stableBorrowRate)]
        ELSE [userData EXCEPT
                !.scaledVariableDebt = reserveData.scaledVariableDebt
                    + BnRayDiv(amount, expected.variableBorrowIndex)]
  IN [debtor EXCEPT
        !.currentStableDebt    = StableDebtOf(debtor, current),
        !.currentVariableDebt  = CalcExpectedVariableDebtTokenBalance(expected, debtor, current),
        !.liquidityRate        = expected.liquidityRate,
        !.currentATokenBalance = CalcExpectedATokenBalance(expected, userData, current),
        !.walletBalance        = @ + amount]

\* Repaying variable debt, the stable principal and balance are exchanged.  own:
\* the user repays his own debt.
CalcExpectedUserDataAfterRepay(asked, rateMode, reserveData, expected, userData, own, tx, current) ==
  LET variableDebt == CalcExpectedVariableDebtTokenBalance(reserveData, userData, current)
      stableDebt   == StableDebtOf(userData, current)
      amount       == IF asked # MAX_UINT_AMOUNT THEN asked
                      ELSE IF rateMode = "stable" THEN stableDebt ELSE variableDebt
      left         == stableDebt - amount
      scaled       == userData.scaledVariableDebt
                        - BnRayDiv(amount, expected.variableBorrowIndex)
      debtor       ==
        IF rateMode = "stable"
        THEN [userData EXCEPT
                !.currentVariableDebt   = variableDebt,
                !.principalStableDebt   = left,
                !.currentStableDebt     = left,
                !.stableBorrowRate      = IF left = 0 THEN 0 ELSE @,
                !.stableRateLastUpdated = IF left = 0 THEN 0 ELSE tx]
        ELSE [userData EXCEPT
                !.currentStableDebt   = userData.principalStableDebt,
                !.principalStableDebt = stableDebt,
                !.scaledVariableDebt  = scaled,
                !.currentVariableDebt = BnRayMul(scaled, expected.variableBorrowIndex)]
  IN [debtor EXCEPT
        !.liquidityRate        = expected.liquidityRate,
        !.currentATokenBalance = CalcExpectedATokenBalance(reserveData, userData, tx),
        !.walletBalance        = IF own THEN @ - amount ELSE @]

CalcExpectedUserDataAfterSetUseAsCollateral(useAsCollateral, userData) ==
  [userData EXCEPT !.usageAsCollateralEnabled = useAsCollateral]

\* Leaving the variable mode, the stable balance is the one read before the call.
CalcExpectedUserDataAfterSwapRateMode(reserveData, expected, userData, rateMode, tx) ==
  LET stableDebt   == StableDebtOf(userData, tx)
      variableDebt == CalcExpectedVariableDebtTokenBalance(reserveData, userData, tx)
      scaled       == userData.scaledVariableDebt
                        + BnRayDiv(stableDebt, expected.variableBorrowIndex)
      total        == userData.currentStableDebt + variableDebt
      swapped      ==
        IF rateMode = "stable"
        THEN [userData EXCEPT
                !.currentStableDebt     = 0,
                !.principalStableDebt   = 0,
                !.stableBorrowRate      = 0,
                !.stableRateLastUpdated = 0,
                !.scaledVariableDebt    = scaled,
                !.currentVariableDebt   = BnRayMul(scaled, expected.variableBorrowIndex)]
        ELSE [userData EXCEPT
                !.currentStableDebt     = total,
                !.principalStableDebt   = total,
                !.stableBorrowRate      = CalcExpectedUserStableRate(stableDebt, @,
                                            variableDebt, reserveData.stableBorrowRate),
                !.stableRateLastUpdated = tx,
                !.scaledVariableDebt    = 0,
                !.currentVariableDebt   = 0]
  IN [swapped EXCEPT
        !.currentATokenBalance = CalcExpectedATokenBalance(reserveData, userData, tx),
        !.liquidityRate        = expected.liquidityRate]

\* The user is expected to pay the average rate of the reserve.
CalcExpectedUserDataAfterStableRateRebalance(reserveData, expected, userData, tx) ==
  [userData EXCEPT
     !.principalStableDebt   = StableDebtOf(userData, tx),
     !.currentStableDebt     = StableDebtOf(userData, tx),
     !.currentVariableDebt   = CalcExpectedVariableDebtTokenBalance(reserveData, userData, tx),
     !.stableRateLastUpdated = tx,
     !.stableBorrowRate      = expected.averageStableBorrowRate,
     !.liquidityRate         = expected.liquidityRate,
     !.currentATokenBalance  = CalcExpectedATokenBalance(reserveData, userData, tx)]
=============================================================================
