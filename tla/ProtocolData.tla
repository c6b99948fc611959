---------------------------- MODULE ProtocolData -----------------------------
(***************************************************************************)
(* What a client reads of a reserve: AaveProtocolDataProvider.sol, and     *)
(* helpers.ts of the test suite, which asks it and the tokens for the      *)
(* records of interfaces/index.ts.  Every balance is read with the         *)
(* interest up to the moment of the reading, although no call updated the  *)
(* reserve.                                                                *)
(***************************************************************************)
EXTENDS Reserve, BigNumbers, TLC

\* totalSupply() of the debt tokens.
TotalDebts ==
  [stable   |-> StableTotalSupply(stable, now),
   variable |-> RayMul(ScaledVariableSupply, NormalizedDebt)]

GetReserveData ==
  LET debt            == TotalDebts.stable + TotalDebts.variable
      totalLiquidity  == liquidity + reserve.unbacked
      borrowed        == IF debt = 0 THEN 0 ELSE BnRayDiv(debt, liquidity + debt)
      supplied        == IF debt = 0 THEN 0 ELSE BnRayDiv(debt, totalLiquidity + debt)
  IN [reserveFactor              |-> RESERVE_FACTOR,
      unbacked                   |-> reserve.unbacked,
      accruedToTreasuryScaled    |-> reserve.accruedToTreasury,
      availableLiquidity         |-> liquidity,
      totalLiquidity             |-> totalLiquidity,
      borrowUtilizationRate      |-> borrowed,
      supplyUtilizationRate      |-> IF StringGreater(supplied, borrowed) THEN borrowed
                                     ELSE supplied,
      totalStableDebt            |-> TotalDebts.stable,
      totalVariableDebt          |-> TotalDebts.variable,
      liquidityRate              |-> reserve.currentLiquidityRate,
      variableBorrowRate         |-> reserve.currentVariableBorrowRate,
      stableBorrowRate           |-> reserve.currentStableBorrowRate,
      averageStableBorrowRate    |-> stable.avgStableRate,
      liquidityIndex             |-> reserve.liquidityIndex,
      variableBorrowIndex        |-> reserve.variableBorrowIndex,
      lastUpdateTimestamp        |-> reserve.lastUpdateTimestamp,
      totalStableDebtLastUpdated |-> stable.totalSupplyTimestamp,
      principalStableDebt        |-> stable.totalSupply,
      scaledVariableDebt         |-> ScaledVariableSupply,
      marketStableRate           |-> BaseStableBorrowRate]

\* getUserReserveData; flag is the bit of the user's configuration.
GetUserReserveData(u, flag) ==
  [currentATokenBalance     |-> ATokenBalance(u),
   currentStableDebt        |-> StableBalance(u),
   currentVariableDebt      |-> VariableBalance(u),
   principalStableDebt      |-> stable.balance[u],
   scaledVariableDebt       |-> variable.scaled[u],
   stableBorrowRate         |-> stable.rate[u],
   liquidityRate            |-> reserve.currentLiquidityRate,
   stableRateLastUpdated    |-> stable.timestamp[u],
   usageAsCollateralEnabled |-> flag]

\* What the test suite adds: the balance of the sender's wallet.
GetUserData(u, flag, wallet) ==
  [scaledATokenBalance |-> aToken[u], walletBalance |-> wallet] @@ GetUserReserveData(u, flag)
=============================================================================
