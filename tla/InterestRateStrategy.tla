------------------------ MODULE InterestRateStrategy ------------------------
(***************************************************************************)
(* DefaultReserveInterestRateStrategy.sol: the three rates of a reserve,   *)
(* from its liquidity and its debts.  The immutables of the contract are   *)
(* constants with their names.                                             *)
(***************************************************************************)
EXTENDS MathUtils

CONSTANTS
  OPTIMAL_UTILIZATION_RATE, OPTIMAL_STABLE_TO_TOTAL_DEBT_RATIO,
  BaseVariableBorrowRate, VariableRateSlope1, VariableRateSlope2,
  StableRateSlope1, StableRateSlope2, BaseStableRateOffset, StableRateExcessOffset

ASSUME StrategyAssumption ==
  /\ {OPTIMAL_UTILIZATION_RATE, OPTIMAL_STABLE_TO_TOTAL_DEBT_RATIO} \subseteq 0 .. RAY
  /\ {BaseVariableBorrowRate, VariableRateSlope1, VariableRateSlope2, StableRateSlope1,
      StableRateSlope2, BaseStableRateOffset, StableRateExcessOffset} \subseteq Nat

MaxVariableBorrowRate == BaseVariableBorrowRate + VariableRateSlope1 + VariableRateSlope2
BaseStableBorrowRate  == VariableRateSlope1 + BaseStableRateOffset

\* The climb of a rate with two slopes: the first up to the optimal utilization,
\* the second on the excess over it.
OnSlopes(slope1, slope2, utilization) ==
  IF utilization > OPTIMAL_UTILIZATION_RATE
  THEN slope1 + RayMul(slope2, RayDiv(utilization - OPTIMAL_UTILIZATION_RATE,
                                      RAY - OPTIMAL_UTILIZATION_RATE))
  ELSE RayDiv(RayMul(slope1, utilization), OPTIMAL_UTILIZATION_RATE)

\* What a stable rate pays on top when too much of the debt is stable.
StableExcess(stableRatio) ==
  IF stableRatio > OPTIMAL_STABLE_TO_TOTAL_DEBT_RATIO
  THEN RayMul(StableRateExcessOffset,
              RayDiv(stableRatio - OPTIMAL_STABLE_TO_TOTAL_DEBT_RATIO,
                     RAY - OPTIMAL_STABLE_TO_TOTAL_DEBT_RATIO))
  ELSE 0

OverallBorrowRate(debt, variableRate) ==
  RayDiv(RayMul(WadToRay(debt.variable), variableRate)
           + RayMul(WadToRay(debt.stable), debt.averageStableRate),
         WadToRay(debt.stable + debt.variable))

\* debt: the total debts and the average stable rate; available: the underlying
\* in the reserve; unbacked: what bridges have minted without it.
CalculateInterestRates(debt, available, unbacked, reserveFactor) ==
  LET total        == debt.stable + debt.variable
      utilization  == RayDiv(total, available + total)
      suppliedPart == RayDiv(total, available + unbacked + total)
      variableRate == BaseVariableBorrowRate
                        + OnSlopes(VariableRateSlope1, VariableRateSlope2, utilization)
      overall      == OverallBorrowRate(debt, variableRate)
  IN [liquidity |-> PercentMul(RayMul(overall, suppliedPart),
                               PERCENTAGE_FACTOR - reserveFactor),
      variable  |-> variableRate,
      stable    |-> BaseStableBorrowRate
                      + OnSlopes(StableRateSlope1, StableRateSlope2, utilization)
                      + StableExcess(RayDiv(debt.stable, total))]
=============================================================================
