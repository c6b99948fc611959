-------------------------------- MODULE Pool --------------------------------
(***************************************************************************)
(* The operations of Pool.sol, one action each: SupplyLogic, BorrowLogic,  *)
(* LiquidationLogic, BridgeLogic, EModeLogic and IsolationModeLogic, with  *)
(* the mint and burn calls they make on the three tokens of a reserve.  A  *)
(* transaction is atomic: one action is one call that did not revert.      *)
(*                                                                         *)
(* u is the account operated on (onBehalfOf); who pays or receives the     *)
(* underlying outside the protocol is left out.                            *)
(***************************************************************************)
EXTENDS PoolValidation

CONSTANTS
  Amounts,    \* the amounts a call may ask for
  MaxSupply,  \* bound: no action raises the aToken supply of a reserve above it
  Prices      \* the answers the oracle may give

ASSUME InputsAssumption ==
  /\ Amounts \subseteq Nat
  /\ MaxSupply \in Nat
  /\ Prices \subseteq Nat

Modes == {"stable", "variable"}

unchangedConfig == UNCHANGED <<config, reservesList, reservesCount, categories>>
unchangedMarket == UNCHANGED <<price, sentinelUp>>

MintAToken(p, a, amount) == [p EXCEPT !.aToken[a] = @ + amount]
BurnAToken(p, a, amount) == [p EXCEPT !.aToken[a] = @ - amount]
MintDebt(p, a, amount, mode) ==
  IF mode = "stable" THEN [p EXCEPT !.stable[a] = @ + amount]
                     ELSE [p EXCEPT !.variable[a] = @ + amount]
BurnDebt(p, a, amount, mode) ==
  IF mode = "stable" THEN [p EXCEPT !.stable[a] = @ - amount]
                     ELSE [p EXCEPT !.variable[a] = @ - amount]

-----------------------------------------------------------------------------
(* SupplyLogic.sol                                                          *)

\* A first supply becomes collateral unless isolation mode forbids it.
CollateralOnSupply(p, a) ==
  /\ p.aToken[a] = 0
  /\ (IsolationAsset(p) = None /\ config[a].ceiling = 0) \/ p.collateral = {}

SupplyTo(p, a, amount) ==
  LET q == MintAToken(p, a, amount)
  IN IF CollateralOnSupply(p, a) THEN SetUsingAsCollateral(q, a, TRUE) ELSE q

Supply(u, a, amount) ==
  /\ ATokenSupply(a) + amount <= MaxSupply
  /\ ValidateSupply(a, amount)
  /\ account' = [account EXCEPT ![u] = SupplyTo(@, a, amount)]
  /\ liquidity' = [liquidity EXCEPT ![a] = @ + amount]
  /\ UNCHANGED reserve /\ unchangedConfig /\ unchangedMarket

\* A mistake: the health is that of before the burn.
MayGiveUpHealthyBefore(p, a, amount) ==
  UsesAsCollateral(p, a) /\ p.borrowing # {} => HealthAndLtv(p, a)

\* Giving up aTokens that back a loan must leave the position healthy, and an
\* asset with an LTV may not be taken out before one without.
MayGiveUp(p, a, amount) ==
  UsesAsCollateral(p, a) /\ p.borrowing # {} =>
    HealthAndLtv(BurnAToken(p, a, amount), a)

\* A mistake: the flag stays when the whole balance goes.
GiveUpKeepingFlag(p, a, amount) == BurnAToken(p, a, amount)

GiveUp(p, a, amount) ==
  LET q == BurnAToken(p, a, amount)
  IN IF amount = p.aToken[a] THEN SetUsingAsCollateral(q, a, FALSE) ELSE q

Withdraw(u, a, amount) ==
  /\ ValidateWithdraw(account[u], a, amount)
  /\ amount <= liquidity[a]
  /\ MayGiveUp(account[u], a, amount)
  /\ account' = [account EXCEPT ![u] = GiveUp(@, a, amount)]
  /\ liquidity' = [liquidity EXCEPT ![a] = @ - amount]
  /\ UNCHANGED reserve /\ unchangedConfig /\ unchangedMarket

\* The receiver of a transfer, who is not asked.
ReceiveTransfer(p, a, amount) ==
  LET q == MintAToken(p, a, amount)
  IN IF p.aToken[a] = 0 /\ amount # 0 /\ IsolationAsset(p) = None
     THEN SetUsingAsCollateral(q, a, TRUE) ELSE q

\* AToken._transfer with finalizeTransfer.
Transfer(from, to, a, amount) ==
  /\ from # to
  /\ amount <= account[from].aToken[a]
  /\ ValidateTransfer(a)
  /\ MayGiveUp(account[from], a, amount)
  /\ account' = [account EXCEPT ![from] = GiveUp(@, a, amount),
                                ![to] = ReceiveTransfer(@, a, amount)]
  /\ UNCHANGED <<reserve, liquidity>> /\ unchangedConfig /\ unchangedMarket

SetUserUseReserveAsCollateral(u, a, use) ==
  LET p == account[u]
      q == SetUsingAsCollateral(p, a, use)
  IN /\ ValidateSetUseReserveAsCollateral(p, a)
     /\ IF use THEN /\ IsolationAsset(p) = None
                    /\ config[a].ceiling = 0 \/ p.collateral = {}
               ELSE HealthAndLtv(q, a)
     /\ account' = [account EXCEPT ![u] = q]
     /\ UNCHANGED <<reserve, liquidity>> /\ unchangedConfig /\ unchangedMarket

-----------------------------------------------------------------------------
(* BorrowLogic.sol                                                          *)

\* A mistake: the flag goes with the first variable debt only.
BorrowForFlagless(p, a, amount, mode) ==
  LET q == MintDebt(p, a, amount, mode)
  IN IF mode = "variable" /\ p.variable[a] = 0 THEN SetBorrowing(q, a, TRUE) ELSE q

BorrowFor(p, a, amount, mode) ==
  LET q == MintDebt(p, a, amount, mode)
  IN IF p[mode][a] = 0 THEN SetBorrowing(q, a, TRUE) ELSE q

\* The collateral of a position in isolation mode is charged with its loans.
ChargeIsolation(p, amount) ==
  LET c == IsolationAsset(p)
  IN IF c = None THEN reserve
     ELSE [reserve EXCEPT ![c].isolationDebt = @ + CeilingAmount(amount)]

Borrow(u, a, amount, mode) ==
  /\ ValidateBorrow(account[u], a, amount, mode)
  /\ amount <= liquidity[a]
  /\ account' = [account EXCEPT ![u] = BorrowFor(@, a, amount, mode)]
  /\ reserve' = ChargeIsolation(account[u], amount)
  /\ liquidity' = [liquidity EXCEPT ![a] = @ - amount]
  /\ unchangedConfig /\ unchangedMarket

\* A mistake: the flag stays when all of the debt is of one mode.
RepayKeepingFlag(p, a, payback, mode) ==
  LET q == BurnDebt(p, a, payback, mode)
  IN IF p.stable[a] > 0 /\ p.variable[a] > 0 /\ DebtOf(p, a) = payback
     THEN SetBorrowing(q, a, FALSE) ELSE q

RepayOf(p, a, payback, mode) ==
  LET q == BurnDebt(p, a, payback, mode)
  IN IF DebtOf(p, a) = payback THEN SetBorrowing(q, a, FALSE) ELSE q

\* Mistakes: the saturating subtraction the wrong way round, and none at all.
ReleaseReversed(p, amount) ==
  LET c == IsolationAsset(p)
      repaid == CeilingAmount(amount)
  IN IF c = None THEN reserve
     ELSE [reserve EXCEPT ![c].isolationDebt = IF @ >= repaid THEN 0 ELSE repaid - @]
ReleaseNothing(p, amount) == reserve

\* updateIsolatedDebtIfIsolated: saturates, interest is not in the counter.
ReleaseIsolation(p, amount) ==
  LET c == IsolationAsset(p)
      repaid == CeilingAmount(amount)
  IN IF c = None THEN reserve
     ELSE [reserve EXCEPT ![c].isolationDebt = IF @ <= repaid THEN 0 ELSE @ - repaid]

\* A mistake: more than the debt is taken.
PaybackAll(p, a, amount, mode) == amount

Payback(p, a, amount, mode) == Least(amount, p[mode][a])

Repay(u, a, amount, mode) ==
  LET payback == Payback(account[u], a, amount, mode)
  IN /\ ValidateRepay(account[u], a, amount, mode)
     /\ account' = [account EXCEPT ![u] = RepayOf(@, a, payback, mode)]
     /\ reserve' = ReleaseIsolation(account[u], payback)
     /\ liquidity' = [liquidity EXCEPT ![a] = @ + payback]
     /\ unchangedConfig /\ unchangedMarket

\* The sender burns his own aTokens, whose flag and health are not looked at.
RepayWithATokens(sender, u, a, amount, mode) ==
  LET payback == Payback(account[u], a, amount, mode)
      repaid  == [account EXCEPT ![u] = RepayOf(@, a, payback, mode)]
  IN /\ ValidateRepay(account[u], a, amount, mode)
     /\ payback <= account[sender].aToken[a]
     /\ account' = [repaid EXCEPT ![sender] = BurnAToken(@, a, payback)]
     /\ reserve' = ReleaseIsolation(account[u], payback)
     /\ UNCHANGED liquidity /\ unchangedConfig /\ unchangedMarket

OtherMode(mode) == IF mode = "stable" THEN "variable" ELSE "stable"

\* rateMode names the mode the debt is in, not the one to swap to.
SwapBorrowRateMode(u, a, mode) ==
  LET debt == account[u][mode][a]
  IN /\ ValidateSwapRateMode(account[u], a, mode)
     /\ account' = [account EXCEPT ![u] =
                      MintDebt(BurnDebt(@, a, debt, mode), a, debt, OtherMode(mode))]
     /\ UNCHANGED <<reserve, liquidity>> /\ unchangedConfig /\ unchangedMarket

-----------------------------------------------------------------------------
(* LiquidationLogic.sol                                                     *)

DEFAULT_LIQUIDATION_CLOSE_FACTOR == PERCENTAGE_FACTOR \div 2
MAX_LIQUIDATION_CLOSE_FACTOR == PERCENTAGE_FACTOR
CLOSE_FACTOR_HF_THRESHOLD == (95 * WAD) \div 100

CloseFactor(p) ==
  IF HealthFactor(p) > CLOSE_FACTOR_HF_THRESHOLD THEN DEFAULT_LIQUIDATION_CLOSE_FACTOR
                                                 ELSE MAX_LIQUIDATION_CLOSE_FACTOR

\* The bonus of the user's category whatever the category of the collateral.
LiquidationBonus(p, collateralAsset) ==
  IF p.eMode = 0 THEN config[collateralAsset].bonus ELSE categories[p.eMode].bonus

\* The terms of a liquidation: the collateral seized, the fee taken from it and
\* the debt paid, which the close factor and the collateral limit.
Terms(p, collateralAsset, debtAsset, debtToCover) ==
  LiquidationTerms(
    [collateralPrice |-> price[collateralAsset], debtPrice |-> price[debtAsset],
     fee |-> config[collateralAsset].fee,
     debtToCover |-> Least(debtToCover, PercentMul(DebtOf(p, debtAsset), CloseFactor(p))),
     balance |-> p.aToken[collateralAsset],
     bonus |-> LiquidationBonus(p, collateralAsset)])

\* A division by a price of zero reverts.
PricesAllow(collateralAsset, debtAsset) == price[collateralAsset] > 0 /\ price[debtAsset] > 0

\* A mistake: what the variable debt does not cover is forgotten.
BurnVariableOnly(p, a, amount) == BurnDebt(p, a, Least(amount, p.variable[a]), "variable")

\* Variable debt first, then stable; the borrowing flag stays.
BurnLiquidated(p, a, amount) ==
  LET variable == Least(amount, p.variable[a])
  IN BurnDebt(BurnDebt(p, a, variable, "variable"), a, amount - variable, "stable")

\* Mistakes: the borrowing flag is cleared though debt is left, and the fee is
\* minted to the treasury instead of taken from the position.
LiquidatedAndUnflagged(p, collateralAsset, debtAsset, terms, all) ==
  LET q == BurnAToken(BurnLiquidated(p, debtAsset, terms.debt), collateralAsset, terms.seized)
  IN SetBorrowing(q, debtAsset, FALSE)
LiquidatedWithoutFee(p, collateralAsset, debtAsset, terms, all) ==
  LET q == BurnAToken(BurnLiquidated(p, debtAsset, terms.debt), collateralAsset,
                      terms.seized - terms.fee)
  IN IF all THEN SetUsingAsCollateral(q, collateralAsset, FALSE) ELSE q

LiquidatedPosition(p, collateralAsset, debtAsset, terms, all) ==
  LET q == BurnAToken(BurnLiquidated(p, debtAsset, terms.debt), collateralAsset, terms.seized)
  IN IF all THEN SetUsingAsCollateral(q, collateralAsset, FALSE) ELSE q

\* transferOnLiquidation to the liquidator, who may be in isolation mode.
ReceiveLiquidated(p, a, amount, first) ==
  LET q == MintAToken(p, a, amount)
  IN IF first THEN SetUsingAsCollateral(q, a, TRUE) ELSE q

LiquidationCall(liquidator, u, collateralAsset, debtAsset, debtToCover, receiveAToken) ==
  LET p     == account[u]
      terms == Terms(p, collateralAsset, debtAsset, debtToCover)
      toLiquidator == terms.seized - terms.fee
      first == account[liquidator].aToken[collateralAsset] = 0
      all   == toLiquidator = p.aToken[collateralAsset]
      \* the liquidator, who may be u himself, receives before u's flag is cleared
      received ==
        IF receiveAToken
        THEN [account EXCEPT ![liquidator] = ReceiveLiquidated(@, collateralAsset, toLiquidator, first)]
        ELSE account
      taken  ==
        [received EXCEPT ![u] = LiquidatedPosition(@, collateralAsset, debtAsset, terms, all)]
      paidIn == [liquidity EXCEPT ![debtAsset] = @ + terms.debt]
  IN /\ ValidateLiquidationCall(p, collateralAsset, debtAsset)
     /\ PricesAllow(collateralAsset, debtAsset)
     /\ terms.debt > 0                \* debt tokens revert on burning zero
     /\ terms.debt <= DebtOf(p, debtAsset)
     /\ terms.fee <= terms.seized     \* checked subtraction
     /\ reserve' = ReleaseIsolation(p, terms.debt)
     /\ account' = [taken EXCEPT ![Treasury] = MintAToken(@, collateralAsset, terms.fee)]
     /\ IF receiveAToken
        THEN liquidity' = paidIn
        ELSE /\ 0 < toLiquidator /\ toLiquidator <= liquidity[collateralAsset]
             /\ liquidity' = [paidIn EXCEPT ![collateralAsset] = @ - toLiquidator]
     /\ unchangedConfig /\ unchangedMarket

-----------------------------------------------------------------------------
(* BridgeLogic.sol                                                          *)

MintUnbackedTo(p, a, amount) ==
  LET q == MintAToken(p, a, amount)
  IN IF p.aToken[a] = 0 THEN SetUsingAsCollateral(q, a, TRUE) ELSE q

MintUnbacked(u, a, amount) ==
  /\ ATokenSupply(a) + amount <= MaxSupply
  /\ ValidateSupply(a, amount)
  /\ config[a].unbackedCap > 0
  /\ (reserve[a].unbacked + amount) \div TOKEN_UNIT < config[a].unbackedCap
  /\ account' = [account EXCEPT ![u] = MintUnbackedTo(@, a, amount)]
  /\ reserve' = [reserve EXCEPT ![a].unbacked = @ + amount]
  /\ UNCHANGED liquidity /\ unchangedConfig /\ unchangedMarket

\* Who an income of the reserve may go to: its suppliers, by the growth of the
\* liquidity index, and the treasury.
Earners(a) == {x \in Accounts : x = Treasury \/ account[x].aToken[a] > 0}

\* A mistake: the amount is taken in full when less is left to back.
BackMoreThanMinted(a, amount, fee, x) ==
  LET backing == Least(amount, reserve[a].unbacked)
  IN /\ ATokenSupply(a) + fee <= MaxSupply
     /\ fee = 0 \/ ATokenSupply(a) > 0
     /\ reserve[a].listed
     /\ x \in Earners(a)
     /\ account' = [account EXCEPT ![x] = MintAToken(@, a, fee)]
     /\ reserve' = [reserve EXCEPT ![a].unbacked = @ - backing]
     /\ liquidity' = [liquidity EXCEPT ![a] = @ + amount + fee]
     /\ unchangedConfig /\ unchangedMarket

\* The fee goes to an earner x (a fee paid while nobody supplies, which the
\* index cannot distribute, is left out).  No flag of the reserve is looked at.
BackUnbacked(a, amount, fee, x) ==
  LET backing == Least(amount, reserve[a].unbacked)
  IN /\ ATokenSupply(a) + fee <= MaxSupply
     /\ fee = 0 \/ ATokenSupply(a) > 0
     /\ reserve[a].listed
     /\ x \in Earners(a)
     /\ account' = [account EXCEPT ![x] = MintAToken(@, a, fee)]
     /\ reserve' = [reserve EXCEPT ![a].unbacked = @ - backing]
     /\ liquidity' = [liquidity EXCEPT ![a] = @ + backing + fee]
     /\ unchangedConfig /\ unchangedMarket

-----------------------------------------------------------------------------
(* EModeLogic.sol                                                           *)

SetUserEMode(u, c) ==
  LET p == account[u]
      q == [p EXCEPT !.eMode = c]
  IN /\ ValidateSetUserEMode(p, c)
     /\ p.eMode # 0 /\ c = 0 => Healthy(q)
     /\ account' = [account EXCEPT ![u] = q]
     /\ UNCHANGED <<reserve, liquidity>> /\ unchangedConfig /\ unchangedMarket

-----------------------------------------------------------------------------
(* What happens between the calls: time, and the oracle.                    *)

\* One unit of interest: the debt of u grows, and an earner x has it.
Accrue(u, x, a, mode) ==
  /\ ATokenSupply(a) < MaxSupply
  /\ account[u][mode][a] > 0
  /\ x \in Earners(a)
  /\ LET owing == [account EXCEPT ![u] = MintDebt(@, a, 1, mode)]
     IN account' = [owing EXCEPT ![x] = MintAToken(@, a, 1)]
  /\ UNCHANGED <<reserve, liquidity>> /\ unchangedConfig /\ unchangedMarket

SetPrice(a, value) ==
  /\ price' = [price EXCEPT ![a] = value]
  /\ UNCHANGED <<reserve, account, liquidity, sentinelUp>> /\ unchangedConfig

ToggleSentinel ==
  /\ sentinelUp' = ~sentinelUp
  /\ UNCHANGED <<reserve, account, liquidity, price>> /\ unchangedConfig
=============================================================================
