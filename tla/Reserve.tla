------------------------------ MODULE Reserve -------------------------------
(***************************************************************************)
(* One reserve in time: its indexes and rates (ReserveLogic.sol), scaled   *)
(* balances of aTokens and variable debt (AToken.sol,                      *)
(* VariableDebtToken.sol), stable debt, the accrual to the treasury and    *)
(* flash loans (FlashLoanLogic.sol).                                       *)
(*                                                                         *)
(* This is the other half of the Pool: the module Pool has the accounts,   *)
(* with many reserves and no indexes, this one has the indexes of one      *)
(* reserve.  What depends on a user's other reserves (health, isolation,   *)
(* eMode) and on the switches of the configuration is not repeated here:   *)
(* the reserve is active, and every user may borrow.                       *)
(***************************************************************************)
EXTENDS InterestRateStrategy, StableDebt, FiniteSetsExt

CONSTANTS
  Treasury,
  RESERVE_FACTOR,
  MAX_STABLE_PERCENT,     \* _maxStableRateBorrowSizePercent
  FLASHLOAN_PREMIUM_TOTAL, FLASHLOAN_PREMIUM_TO_PROTOCOL,
  BRIDGE_PROTOCOL_FEE,
  UnbackedMintCap         \* what bridges may mint is below it; 0 forbids them

ASSUME ReserveAssumption ==
  /\ IsFiniteSet(Users) /\ Treasury \notin Users
  /\ RESERVE_FACTOR \in 0 .. PERCENTAGE_FACTOR
  /\ MAX_STABLE_PERCENT \in Nat
  /\ FLASHLOAN_PREMIUM_TOTAL \in Nat
  /\ FLASHLOAN_PREMIUM_TO_PROTOCOL \in 0 .. FLASHLOAN_PREMIUM_TOTAL
  /\ BRIDGE_PROTOCOL_FEE \in 0 .. PERCENTAGE_FACTOR
  /\ UnbackedMintCap \in Nat

Accounts == Users \cup {Treasury}

VARIABLES
  reserve,     \* ReserveData: indexes, rates, accruedToTreasury, lastUpdateTimestamp
  aToken,      \* scaled balances of the aToken
  variable,    \* scaled balances of variable debt and the index each was last updated at
  stable,      \* the stable debt token
  liquidity,   \* underlying in the aToken
  now,         \* block.timestamp
  loan         \* the flash loan whose receiver is being called

reserveVars == <<reserve, aToken, variable, stable, liquidity, now, loan>>

ReserveData ==
  [liquidityIndex : Nat, variableBorrowIndex : Nat,
   currentLiquidityRate : Nat, currentVariableBorrowRate : Nat,
   currentStableBorrowRate : Nat, accruedToTreasury : Nat, lastUpdateTimestamp : Nat,
   unbacked : Nat]

VariableToken == [scaled : [Users -> Nat], previousIndex : [Users -> Nat]]

NoLoan == [amount |-> 0, premium |-> 0, toProtocol |-> 0]
Loan   == [amount : Nat, premium : Nat, toProtocol : Nat]

\* ReserveLogic.init, in a block after the epoch.
ReserveInit ==
  /\ reserve = [liquidityIndex |-> RAY, variableBorrowIndex |-> RAY,
                currentLiquidityRate |-> 0, currentVariableBorrowRate |-> 0,
                currentStableBorrowRate |-> 0, accruedToTreasury |-> 0,
                lastUpdateTimestamp |-> 0, unbacked |-> 0]
  /\ aToken = [x \in Accounts |-> 0]
  /\ variable = [scaled |-> [u \in Users |-> 0], previousIndex |-> [u \in Users |-> 0]]
  /\ stable = NoStableDebt
  /\ liquidity = 0
  /\ now = 1
  /\ loan = NoLoan

-----------------------------------------------------------------------------
(* The views: what balances are worth at this moment.                      *)

ScaledSupply         == SumFunction(aToken)
ScaledVariableSupply == SumFunction(variable.scaled)
Elapsed              == now - reserve.lastUpdateTimestamp

NormalizedIncome ==
  RayMul(CalculateLinearInterest(reserve.currentLiquidityRate, Elapsed),
         reserve.liquidityIndex)
NormalizedDebt ==
  RayMul(CalculateCompoundedInterest(reserve.currentVariableBorrowRate, Elapsed),
         reserve.variableBorrowIndex)

ATokenBalance(x)   == RayMul(aToken[x], NormalizedIncome)
VariableBalance(u) == RayMul(variable.scaled[u], NormalizedDebt)
StableBalance(u)   == StableBalanceOf(stable, u, now)
DebtOf(u)          == VariableBalance(u) + StableBalance(u)

\* What depositors and the treasury could claim, and what it is claimed from.
Claims  == MapThenSumSet(ATokenBalance, Accounts)
             + RayMul(reserve.accruedToTreasury, NormalizedIncome)
Backing == liquidity + loan.amount + MapThenSumSet(DebtOf, Users) + reserve.unbacked

-----------------------------------------------------------------------------
(* ReserveLogic.updateState: the reserve every operation starts from.      *)

\* A mistake: suppliers earn only while there is variable debt.
IncomeOfVariableDebt ==
  IF reserve.currentLiquidityRate > 0 /\ ScaledVariableSupply # 0
  THEN NormalizedIncome ELSE reserve.liquidityIndex

NextLiquidityIndex ==
  IF reserve.currentLiquidityRate > 0 THEN NormalizedIncome ELSE reserve.liquidityIndex

NextVariableBorrowIndex ==
  IF reserve.currentLiquidityRate > 0 /\ ScaledVariableSupply # 0
  THEN NormalizedDebt ELSE reserve.variableBorrowIndex

\* What the debts have grown by since the last update.
DebtAccrued ==
  RayMul(ScaledVariableSupply, NextVariableBorrowIndex)
    + StableTotalSupply(stable, now)
    - RayMul(ScaledVariableSupply, reserve.variableBorrowIndex)
    - StableTotalSupply(stable, reserve.lastUpdateTimestamp)

Updated ==
  [reserve EXCEPT
     !.liquidityIndex      = NextLiquidityIndex,
     !.variableBorrowIndex = NextVariableBorrowIndex,
     !.accruedToTreasury   =
        @ + RayDiv(PercentMul(DebtAccrued, RESERVE_FACTOR), NextLiquidityIndex),
     !.lastUpdateTimestamp = now]

\* ReserveLogic.updateInterestRates: r with the rates for the debts of the
\* cache, and for the liquidity before the transfer of the operation.
WithRates(r, debt, added, taken) ==
  LET rates == CalculateInterestRates(
                 [stable |-> debt.supply, averageStableRate |-> debt.avgStableRate,
                  variable |-> RayMul(debt.scaled, r.variableBorrowIndex)],
                 liquidity + added - taken, r.unbacked, RESERVE_FACTOR)
  IN [r EXCEPT !.currentLiquidityRate      = rates.liquidity,
               !.currentVariableBorrowRate = rates.variable,
               !.currentStableBorrowRate   = rates.stable]

\* The debts of the cache: as they are, or after a mint or burn.
SameDebt == [supply |-> StableTotalSupply(stable, now),
             avgStableRate |-> stable.avgStableRate,
             scaled |-> ScaledVariableSupply]
WithStable(debt, change) ==
  [debt EXCEPT !.supply = change.supply, !.avgStableRate = change.avgStableRate]
WithScaled(debt, scaled) == [debt EXCEPT !.scaled = scaled]

-----------------------------------------------------------------------------
(* The scaled tokens: amounts become scaled at the index of the moment.    *)

\* Burning more scaled units than an account has reverts, and so does an amount
\* of no scaled unit.
MayBurn(scaledBalance, amount, index) == RayDiv(amount, index) \in 1 .. scaledBalance
MayMint(amount, index)                == RayDiv(amount, index) # 0

\* A mistake: a new debt keeps the index of the user's last one.
VariableMintedKeepingIndex(u, amount, index) ==
  [scaled        |-> [variable.scaled EXCEPT ![u] = @ + RayDiv(amount, index)],
   previousIndex |-> variable.previousIndex]

VariableMinted(u, amount, index) ==
  [scaled        |-> [variable.scaled EXCEPT ![u] = @ + RayDiv(amount, index)],
   previousIndex |-> [variable.previousIndex EXCEPT ![u] = index]]
VariableBurnt(u, amount, index) ==
  [scaled        |-> [variable.scaled EXCEPT ![u] = @ - RayDiv(amount, index)],
   previousIndex |-> [variable.previousIndex EXCEPT ![u] = index]]

-----------------------------------------------------------------------------
(* Supply side.                                                            *)

Supply(u, amount) ==
  /\ amount > 0
  /\ MayMint(amount, NextLiquidityIndex)
  /\ reserve' = WithRates(Updated, SameDebt, amount, 0)
  /\ aToken' = [aToken EXCEPT ![u] = @ + RayDiv(amount, NextLiquidityIndex)]
  /\ liquidity' = liquidity + amount
  /\ UNCHANGED <<variable, stable, now, loan>>

\* asked: an amount, or all of the balance (type(uint256).max).
Withdraw(u, asked, all) ==
  LET balance == RayMul(aToken[u], NextLiquidityIndex)
      amount  == IF all THEN balance ELSE asked
  IN /\ amount \in 1 .. balance
     /\ amount <= liquidity
     /\ MayBurn(aToken[u], amount, NextLiquidityIndex)
     /\ reserve' = WithRates(Updated, SameDebt, 0, amount)
     /\ aToken' = [aToken EXCEPT ![u] = @ - RayDiv(amount, NextLiquidityIndex)]
     /\ liquidity' = liquidity - amount
     /\ UNCHANGED <<variable, stable, now, loan>>

\* AToken._transfer: at the index of the view, and the state is not updated.
Transfer(u, to, amount) ==
  LET scaled == RayDiv(amount, NormalizedIncome)
  IN /\ scaled <= aToken[u]
     /\ aToken' = [x \in Accounts |->
                     aToken[x] + (IF x = to THEN scaled ELSE 0)
                               - (IF x = u THEN scaled ELSE 0)]
     /\ UNCHANGED <<reserve, variable, stable, liquidity, now, loan>>

\* A mistake: what is minted to the treasury stays accrued.
MintAndKeepAccrued ==
  LET amount == RayMul(reserve.accruedToTreasury, NormalizedIncome)
  IN /\ reserve.accruedToTreasury # 0
     /\ amount = 0 \/ MayMint(amount, NormalizedIncome)
     /\ aToken' = [aToken EXCEPT ![Treasury] = @ + RayDiv(amount, NormalizedIncome)]
     /\ UNCHANGED <<reserve, variable, stable, liquidity, now, loan>>

\* Pool.mintToTreasury: at the index of the view, and the state is not updated.
MintToTreasury ==
  LET amount == RayMul(reserve.accruedToTreasury, NormalizedIncome)
  IN /\ reserve.accruedToTreasury # 0
     /\ amount = 0 \/ MayMint(amount, NormalizedIncome)
     /\ reserve' = [reserve EXCEPT !.accruedToTreasury = 0]
     /\ aToken' = [aToken EXCEPT ![Treasury] = @ + RayDiv(amount, NormalizedIncome)]
     /\ UNCHANGED <<variable, stable, liquidity, now, loan>>

-----------------------------------------------------------------------------
(* Borrow side.                                                            *)

\* executeBorrow; the underlying is released, except when the borrow keeps the
\* amount of a flash loan.
BorrowVariable(u, amount, released) ==
  /\ MayMint(amount, NextVariableBorrowIndex)
  /\ variable' = VariableMinted(u, amount, NextVariableBorrowIndex)
  /\ reserve' = WithRates(Updated,
                  WithScaled(SameDebt, ScaledVariableSupply
                                         + RayDiv(amount, NextVariableBorrowIndex)),
                  0, released)
  /\ UNCHANGED stable

BorrowStable(u, amount, released) ==
  LET change == StableMint(stable, u, amount, reserve.currentStableBorrowRate, now)
  IN /\ amount <= PercentMul(liquidity, MAX_STABLE_PERCENT)
     /\ stable' = change.token
     /\ reserve' = WithRates(Updated, WithStable(SameDebt, change), 0, released)
     /\ UNCHANGED variable

Released(amount) ==
  /\ amount \in 1 .. liquidity
  /\ liquidity' = liquidity - amount
  /\ UNCHANGED <<aToken, now, loan>>

Borrow(u, amount) ==
  /\ Released(amount)
  /\ BorrowVariable(u, amount, amount) \/ BorrowStable(u, amount, amount)

\* How the payback of executeRepay is paid: with underlying of the payer, or by
\* burning the payer's aTokens.
PaidWith(payer, payback, useATokens) ==
  IF useATokens
  THEN /\ MayBurn(aToken[payer], payback, NextLiquidityIndex)
       /\ aToken' = [aToken EXCEPT ![payer] = @ - RayDiv(payback, NextLiquidityIndex)]
       /\ UNCHANGED liquidity
  ELSE /\ liquidity' = liquidity + payback
       /\ UNCHANGED aToken

\* The rates take the payback as liquidity added, however it is paid.
RepayVariable(u, payer, amount, useATokens) ==
  LET debt    == RayMul(variable.scaled[u], NextVariableBorrowIndex)
      payback == Min({amount, debt})
  IN /\ amount > 0 /\ debt > 0
     /\ variable.previousIndex[u] < NextVariableBorrowIndex
     /\ MayBurn(variable.scaled[u], payback, NextVariableBorrowIndex)
     /\ variable' = VariableBurnt(u, payback, NextVariableBorrowIndex)
     /\ reserve' = WithRates(Updated,
                     WithScaled(SameDebt, ScaledVariableSupply
                                            - RayDiv(payback, NextVariableBorrowIndex)),
                     payback, 0)
     /\ PaidWith(payer, payback, useATokens)
     /\ UNCHANGED <<stable, now, loan>>

RepayStable(u, payer, amount, useATokens) ==
  LET debt    == StableBalance(u)
      payback == Min({amount, debt})
      change  == StableBurn(stable, u, payback, now)
  IN /\ amount > 0 /\ debt > 0
     /\ stable.timestamp[u] < now
     /\ stable' = change.token
     /\ reserve' = WithRates(Updated, WithStable(SameDebt, change), payback, 0)
     /\ PaidWith(payer, payback, useATokens)
     /\ UNCHANGED <<variable, now, loan>>

\* swapBorrowRateMode, to the rate as it was before the operation.
SwapToVariable(u) ==
  LET debt   == StableBalance(u)
      change == StableBurn(stable, u, debt, now)
  IN /\ debt > 0
     /\ MayMint(debt, NextVariableBorrowIndex)
     /\ stable' = change.token
     /\ variable' = VariableMinted(u, debt, NextVariableBorrowIndex)
     /\ reserve' = WithRates(Updated,
                     WithScaled(WithStable(SameDebt, change),
                                ScaledVariableSupply + RayDiv(debt, NextVariableBorrowIndex)),
                     0, 0)
     /\ UNCHANGED <<aToken, liquidity, now, loan>>

SwapToStable(u) ==
  LET debt   == RayMul(variable.scaled[u], NextVariableBorrowIndex)
      change == StableMint(stable, u, debt, reserve.currentStableBorrowRate, now)
  IN /\ debt > 0
     /\ MayBurn(variable.scaled[u], debt, NextVariableBorrowIndex)
     /\ stable' = change.token
     /\ variable' = VariableBurnt(u, debt, NextVariableBorrowIndex)
     /\ reserve' = WithRates(Updated,
                     WithScaled(WithStable(SameDebt, change),
                                ScaledVariableSupply - RayDiv(debt, NextVariableBorrowIndex)),
                     0, 0)
     /\ UNCHANGED <<aToken, liquidity, now, loan>>

REBALANCE_UP_USAGE_RATIO_THRESHOLD    == (95 * RAY) \div 100
REBALANCE_UP_LIQUIDITY_RATE_THRESHOLD == (40 * PERCENTAGE_FACTOR) \div 100

\* Anyone may move a user's stable debt to the current stable rate when the
\* reserve is nearly empty and its suppliers earn little.
RebalanceStableBorrowRate(u) ==
  LET totalDebt == StableTotalSupply(stable, now)
                     + RayMul(ScaledVariableSupply, NextVariableBorrowIndex)
      debt   == StableBalance(u)
      burnt  == StableBurn(stable, u, debt, now)
      change == StableMint(burnt.token, u, debt, reserve.currentStableBorrowRate, now)
  IN /\ RayDiv(totalDebt, liquidity + totalDebt) >= REBALANCE_UP_USAGE_RATIO_THRESHOLD
     /\ reserve.currentLiquidityRate <=
          PercentMul(MaxVariableBorrowRate, REBALANCE_UP_LIQUIDITY_RATE_THRESHOLD)
     /\ stable' = change.token
     /\ reserve' = WithRates(Updated, WithStable(SameDebt, change), 0, 0)
     /\ UNCHANGED <<aToken, variable, liquidity, now, loan>>

-----------------------------------------------------------------------------
(* Flash loans: the underlying leaves, the receiver is called and may call  *)
(* the Pool in its turn, and then the loan is paid back or kept as a debt.  *)
(* Nothing is cached across the call of the receiver but the premiums.      *)

FlashLoan(amount, isAuthorized) ==
  /\ loan = NoLoan
  /\ amount \in 1 .. liquidity
  /\ loan' = IF isAuthorized THEN [NoLoan EXCEPT !.amount = amount]
             ELSE [amount     |-> amount,
                   premium    |-> PercentMul(amount, FLASHLOAN_PREMIUM_TOTAL),
                   toProtocol |-> PercentMul(amount, FLASHLOAN_PREMIUM_TO_PROTOCOL)]
  /\ liquidity' = liquidity - amount
  /\ UNCHANGED <<reserve, aToken, variable, stable, now>>

\* ReserveLogic.cumulateToLiquidityIndex: an income for those who supply now.
\* supply is totalSupply() of the aToken, which has no accruedToTreasury.
CumulateToLiquidityIndex(r, supply, income) ==
  [r EXCEPT !.liquidityIndex =
     RayMul(RayDiv(WadToRay(income), WadToRay(supply)) + RAY, @)]

\* A mistake: rates are taken from the amount of the loan without its premium.
RepayFlashLoanWithoutPremium ==
  LET r == CumulateToLiquidityIndex(Updated, RayMul(ScaledSupply, NextLiquidityIndex),
                                    loan.premium - loan.toProtocol)
  IN /\ loan # NoLoan
     /\ reserve' = WithRates([r EXCEPT !.accruedToTreasury =
                                @ + RayDiv(loan.toProtocol, r.liquidityIndex)],
                             SameDebt, loan.amount, 0)
     /\ liquidity' = liquidity + loan.amount + loan.premium
     /\ loan' = NoLoan
     /\ UNCHANGED <<aToken, variable, stable, now>>

RepayFlashLoan ==
  LET r == CumulateToLiquidityIndex(Updated, RayMul(ScaledSupply, NextLiquidityIndex),
                                    loan.premium - loan.toProtocol)
      paid == loan.amount + loan.premium
  IN /\ loan # NoLoan
     /\ reserve' = WithRates([r EXCEPT !.accruedToTreasury =
                                @ + RayDiv(loan.toProtocol, r.liquidityIndex)],
                             SameDebt, paid, 0)
     /\ liquidity' = liquidity + paid
     /\ loan' = NoLoan
     /\ UNCHANGED <<aToken, variable, stable, now>>

\* The receiver keeps the amount: it becomes a debt of u and no premium is paid.
BorrowFlashLoan(u) ==
  /\ loan # NoLoan
  /\ BorrowVariable(u, loan.amount, 0) \/ BorrowStable(u, loan.amount, 0)
  /\ loan' = NoLoan
  /\ UNCHANGED <<aToken, liquidity, now>>

-----------------------------------------------------------------------------
(* Bridges (BridgeLogic.sol): aTokens of underlying that is still to arrive. *)

\* A mistake: what is minted for a bridge is not counted as unbacked.
MintUnbackedUncounted(u, amount) ==
  /\ amount > 0
  /\ MayMint(amount, NextLiquidityIndex)
  /\ reserve.unbacked + amount < UnbackedMintCap
  /\ reserve' = WithRates(Updated, SameDebt, 0, 0)
  /\ aToken' = [aToken EXCEPT ![u] = @ + RayDiv(amount, NextLiquidityIndex)]
  /\ UNCHANGED <<variable, stable, liquidity, now, loan>>

MintUnbacked(u, amount) ==
  /\ amount > 0
  /\ MayMint(amount, NextLiquidityIndex)
  /\ reserve.unbacked + amount < UnbackedMintCap
  /\ reserve' = WithRates([Updated EXCEPT !.unbacked = @ + amount], SameDebt, 0, 0)
  /\ aToken' = [aToken EXCEPT ![u] = @ + RayDiv(amount, NextLiquidityIndex)]
  /\ UNCHANGED <<variable, stable, liquidity, now, loan>>

\* The suppliers' part of the fee raises the index; with no supply to spread it
\* over, the ratio is 0 and the part stays in the reserve, claimed by nobody.
BackUnbacked(amount, fee) ==
  LET backing    == Min({amount, reserve.unbacked})
      toProtocol == PercentMul(fee, BRIDGE_PROTOCOL_FEE)
      r == CumulateToLiquidityIndex(Updated, RayMul(ScaledSupply, NextLiquidityIndex),
                                    fee - toProtocol)
  IN /\ reserve' = WithRates([r EXCEPT !.accruedToTreasury =
                                 @ + RayDiv(toProtocol, r.liquidityIndex),
                               !.unbacked = @ - backing],
                             SameDebt, backing + fee, 0)
     /\ liquidity' = liquidity + backing + fee
     /\ UNCHANGED <<aToken, variable, stable, now, loan>>

-----------------------------------------------------------------------------
\* Time passes between transactions, never within a flash loan.
Tick(seconds) ==
  /\ loan = NoLoan
  /\ now' = now + seconds
  /\ UNCHANGED <<reserve, aToken, variable, stable, liquidity, loan>>
=============================================================================
