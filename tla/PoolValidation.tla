--------------------------- MODULE PoolValidation ---------------------------
(***************************************************************************)
(* ValidationLogic.sol: the guard of each operation of the Pool.  A        *)
(* function of the library that reverts is an operator that is FALSE.      *)
(***************************************************************************)
EXTENDS PoolState

\* An asset without a reserve has no token to call: the operation reverts.
Active(a) == reserve[a].listed /\ config[a].active /\ ~config[a].paused

\* A mistake: the cap itself may be reached.
UpToCap(cap, total) == cap = 0 \/ total \div TOKEN_UNIT <= cap

BelowCap(cap, total) == cap = 0 \/ total \div TOKEN_UNIT < cap

\* A mistake: the frozen flag is not looked at.
SupplyToFrozen(a, amount) ==
  /\ amount # 0 /\ Active(a)
  /\ BelowCap(config[a].supplyCap, ATokenSupply(a) + amount)

ValidateSupply(a, amount) ==
  /\ amount # 0
  /\ Active(a)
  /\ ~config[a].frozen
  /\ BelowCap(config[a].supplyCap, ATokenSupply(a) + amount)

\* A mistake: the balance is not compared with the amount.
WithdrawUnchecked(p, a, amount) == amount # 0 /\ Active(a)

ValidateWithdraw(p, a, amount) ==
  /\ amount # 0
  /\ amount <= p.aToken[a]
  /\ Active(a)

\* The borrowed amount counted against the debt ceiling.
CeilingAmount(amount) == amount \div CEILING_UNIT

\* A mistake: the new loan alone is held against the ceiling.
IsolationOfOneLoan(p, a, amount) ==
  LET c == IsolationAsset(p)
  IN c # None => config[a].isolationBorrowable /\ CeilingAmount(amount) <= config[c].ceiling

ValidateIsolation(p, a, amount) ==
  LET c == IsolationAsset(p)
  IN c # None =>
       /\ config[a].isolationBorrowable
       /\ reserve[c].isolationDebt + CeilingAmount(amount) <= config[c].ceiling

\* The price the new loan is valued at, which is that of the user's eMode feed
\* even when the feed has no price.
BorrowPrice(p, a) ==
  LET source == categories[p.eMode].source
  IN IF p.eMode # 0 /\ source # None THEN price[source] ELSE price[a]

\* A mistake: the debt that is there already is left out.
NeededForLoanOnly(p, a, amount) ==
  PercentDiv((BorrowPrice(p, a) * amount) \div TOKEN_UNIT, AverageLtv(p))

CollateralNeeded(p, a, amount) ==
  PercentDiv(TotalDebt(p) + (BorrowPrice(p, a) * amount) \div TOKEN_UNIT, AverageLtv(p))

NotMostlySameCurrency(p, a, amount) ==
  ~UsesAsCollateral(p, a) \/ config[a].ltv = 0 \/ amount > p.aToken[a]

ValidateStableBorrow(p, a, amount) ==
  /\ config[a].stableBorrowing
  /\ NotMostlySameCurrency(p, a, amount)
  /\ amount <= PercentMul(liquidity[a], MAX_STABLE_PERCENT)

ValidateBorrow(p, a, amount, mode) ==
  /\ Active(a)
  /\ ~config[a].frozen
  /\ amount # 0
  /\ config[a].borrowing
  /\ sentinelUp
  /\ BelowCap(config[a].borrowCap, StableSupply(a) + VariableSupply(a) + amount)
  /\ ValidateIsolation(p, a, amount)
  /\ p.eMode # 0 => config[a].category = p.eMode
  /\ TotalCollateral(p) > 0
  /\ HealthAbove(p, HEALTH_FACTOR_LIQUIDATION_THRESHOLD)
  /\ CollateralNeeded(p, a, amount) <= TotalCollateral(p)
  /\ mode = "stable" => ValidateStableBorrow(p, a, amount)

\* The same-block check (VL_SAME_BLOCK_BORROW_REPAY) is about time, which the
\* module Reserve has.
ValidateRepay(p, a, amount, mode) ==
  /\ Active(a)
  /\ amount > 0
  /\ p[mode][a] > 0

ValidateSwapRateMode(p, a, mode) ==
  /\ Active(a)
  /\ ~config[a].frozen
  /\ p[mode][a] > 0
  /\ mode = "variable" =>
       config[a].stableBorrowing /\ NotMostlySameCurrency(p, a, DebtOf(p, a))

ValidateSetUseReserveAsCollateral(p, a) == Active(a) /\ p.aToken[a] > 0

\* validateHFAndLtv for a position p that has given up some of asset a.
HealthAndLtv(p, a) == Healthy(p) /\ (config[a].ltv = 0 \/ ~HasZeroLtvCollateral(p))

\* A mistake: aTokens may be sent while the reserve is paused.
TransferWhilePaused(a) == reserve[a].listed

\* validateTransfer; the caller being the aToken, the reserve exists.
ValidateTransfer(a) == reserve[a].listed /\ ~config[a].paused

ValidateLiquidationCall(p, collateralAsset, debtAsset) ==
  /\ Active(collateralAsset)
  /\ Active(debtAsset)
  /\ config[collateralAsset].lt > 0
  /\ UsesAsCollateral(p, collateralAsset)
  /\ DebtOf(p, debtAsset) > 0
  /\ sentinelUp \/ ~HealthAtLeast(p, MINIMUM_HEALTH_FACTOR_LIQUIDATION_THRESHOLD)
  /\ ~Healthy(p)

\* A totalSupply() of zero: no account has a balance.
NobodyHolds(a) == \A x \in Accounts : account[x].aToken[a] = 0
NobodyOwes(a)  == \A x \in Accounts : account[x].stable[a] = 0 /\ account[x].variable[a] = 0

\* Mistakes: neither debts nor balances, or only the debts, are looked at.
DropUnchecked(a)    == reserve[a].listed
DropWithBalances(a) == reserve[a].listed /\ NobodyOwes(a)

ValidateDropReserve(a) == reserve[a].listed /\ NobodyOwes(a) /\ NobodyHolds(a)

\* An empty slot of the list reads the configuration of address(0): category 0.
SlotCategory(i) ==
  IF reservesList[i] = None THEN 0 ELSE config[reservesList[i]].category

\* Mistakes: the debts of the user, or whether the category exists, are not looked at.
EModeWithAnyDebt(p, c)  == c = 0 \/ categories[c].lt > 0
EModeNotConfigured(p, c) ==
  c > 0 => \A i \in p.borrowing \cap 0 .. reservesCount - 1 : SlotCategory(i) = c

ValidateSetUserEMode(p, c) ==
  /\ c = 0 \/ categories[c].lt > 0
  /\ c > 0 => \A i \in p.borrowing \cap 0 .. reservesCount - 1 : SlotCategory(i) = c
=============================================================================
