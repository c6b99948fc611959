--------------------------- MODULE ScenarioEngine ----------------------------
(***************************************************************************)
(* The stories of the test suite (scenario-engine.ts, actions.ts): a       *)
(* sequence of calls on one reserve.  For each call the suite reads the    *)
(* reserve and the user it is about, sends the transaction, reads them     *)
(* again, and compares the second reading with what calculations.ts makes  *)
(* of the first.  Time passes between the two: each transaction is mined   *)
(* in a later block than the reading, and some calls let months pass,      *)
(* before the transaction (repay) or after it (borrow).  A story ends at a *)
(* call that reverts when it should not; the calls that are expected to    *)
(* revert change nothing, and are left out.                                *)
(*                                                                         *)
(* The contracts are the module Reserve, with what the suite reads besides: *)
(* the collateral flag of the reserve, wallets and allowances.  The calls  *)
(* of bridge-logic.spec.ts, which is checked in the same way, are added.   *)
(***************************************************************************)
EXTENDS ProtocolData, Calculations

CONSTANT APPROVAL   \* what approve allows the Pool to take: more than there is

RateModes == {"stable", "variable"}

VARIABLES
  usingAsCollateral,  \* the flag of this reserve in each user's configuration
  wallet,             \* underlying of each user
  allowance,          \* underlying that the Pool may take of each user
  borrowAllowance,    \* [mode][delegator][delegatee] of the debt tokens
  action,             \* the call that is being checked
  phase,              \* "idle", "sent" or "mined"
  before,             \* the reading before the transaction
  txTimestamp         \* when it was mined

accountVars == <<usingAsCollateral, wallet, allowance, borrowAllowance>>
storyVars   == <<action, phase, before, txTimestamp>>
engineVars  == <<reserveVars, accountVars, storyVars>>

NoAction == [name |-> "none", user |-> CHOOSE u \in Users : TRUE]
NotRead  == [reserve |-> 0, user |-> 0]

\* funds: what was minted and approved before the story.
EngineInit(funds) ==
  /\ ReserveInit
  /\ usingAsCollateral = [u \in Users |-> FALSE]
  /\ wallet = funds
  /\ allowance = [u \in Users |-> IF funds[u] = 0 THEN 0 ELSE APPROVAL]
  /\ borrowAllowance = [m \in RateModes |-> [u \in Users |-> [v \in Users |-> 0]]]
  /\ action = NoAction /\ phase = "idle" /\ before = NotRead /\ txTimestamp = 0

-----------------------------------------------------------------------------
(* The reading and the sending of a call.                                  *)

GetContractsData(u, sender) ==
  [reserve |-> GetReserveData, user |-> GetUserData(u, usingAsCollateral[u], wallet[sender])]

\* The user a call is about, and the one whose wallet is read: of repay, the
\* debtor's.
Subject(a)     == IF "onBehalfOf" \in DOMAIN a THEN a.onBehalfOf ELSE a.user
WalletOwner(a) == IF a.name \in {"repay", "rebalance"} THEN Subject(a) ELSE a.user

\* Read, and let the time pass until the block of the transaction.
Send(a, seconds) ==
  /\ phase # "sent"
  /\ action' = a
  /\ before' = GetContractsData(Subject(a), WalletOwner(a))
  /\ phase' = "sent"
  /\ Tick(seconds)
  /\ UNCHANGED <<accountVars, txTimestamp>>

Mined ==
  /\ phase = "sent"
  /\ phase' = "mined"
  /\ txTimestamp' = now
  /\ UNCHANGED <<action, before>>

\* Time passes between the block of a borrow and the second reading.
Travel(seconds) ==
  /\ phase = "mined" /\ action.name = "borrow" /\ now = txTimestamp
  /\ Tick(seconds)
  /\ UNCHANGED <<accountVars, storyVars>>

-----------------------------------------------------------------------------
(* The transactions.                                                       *)

\* safeTransferFrom of the Pool.  A permit sets the allowance to the amount of
\* the call first, whatever it was.
Pays(payer, amount, permit) ==
  LET allowed == IF permit THEN action.amount ELSE allowance[payer]
  IN /\ amount <= wallet[payer] /\ amount <= allowed
     /\ wallet' = [wallet EXCEPT ![payer] = @ - amount]
     /\ allowance' = [allowance EXCEPT ![payer] = allowed - amount]

Receives(u, amount) ==
  /\ wallet' = [wallet EXCEPT ![u] = @ + amount]
  /\ UNCHANGED allowance

IsCall(name) == Mined /\ action.name = name

Supplied ==
  /\ Supply(action.onBehalfOf, action.amount)
  /\ Pays(action.user, action.amount, action.permit)
  /\ usingAsCollateral' = [usingAsCollateral EXCEPT
                             ![action.onBehalfOf] = @ \/ aToken[action.onBehalfOf] = 0]
  /\ UNCHANGED borrowAllowance

Deposit          == IsCall("deposit") /\ ~action.permit /\ Supplied
SupplyWithPermit == IsCall("deposit") /\ action.permit /\ Supplied

WithdrawCall ==
  LET u == action.user
  IN /\ IsCall("withdraw")
     /\ Withdraw(u, action.amount, action.amount = MAX_UINT_AMOUNT)
     /\ Receives(u, liquidity - liquidity')
     /\ usingAsCollateral' = [usingAsCollateral EXCEPT
          ![u] = @ /\ liquidity - liquidity' # RayMul(aToken[u], NextLiquidityIndex)]
     /\ UNCHANGED borrowAllowance

\* No stable debt on what is the user's collateral, unless the debt is larger.
MayOweStable(u, amount) ==
  usingAsCollateral[u] => amount > RayMul(aToken[u], NextLiquidityIndex)

\* A mistake: what is borrowed for another is not taken off the allowance.
CreditKept(mode, delegator, delegatee, amount) ==
  /\ delegator # delegatee => amount <= borrowAllowance[mode][delegator][delegatee]
  /\ UNCHANGED borrowAllowance

\* DebtTokenBase._decreaseBorrowAllowance, for a debt of another.
CreditDrawn(mode, delegator, delegatee, amount) ==
  IF delegator = delegatee THEN UNCHANGED borrowAllowance
  ELSE /\ amount <= borrowAllowance[mode][delegator][delegatee]
       /\ borrowAllowance' = [borrowAllowance EXCEPT ![mode][delegator][delegatee] = @ - amount]

BorrowCall ==
  LET u == action.onBehalfOf
  IN /\ IsCall("borrow")
     /\ Released(action.amount)
     /\ IF action.rateMode = "stable"
        THEN MayOweStable(u, action.amount) /\ BorrowStable(u, action.amount, action.amount)
        ELSE BorrowVariable(u, action.amount, action.amount)
     /\ CreditDrawn(action.rateMode, u, action.user, action.amount)
     /\ Receives(action.user, action.amount)
     /\ UNCHANGED usingAsCollateral

\* All of a debt can be asked for by the debtor alone.
Repaid ==
  /\ action.amount = MAX_UINT_AMOUNT => action.user = action.onBehalfOf
  /\ IF action.rateMode = "stable"
     THEN RepayStable(action.onBehalfOf, action.user, action.amount, FALSE)
     ELSE RepayVariable(action.onBehalfOf, action.user, action.amount, FALSE)
  /\ Pays(action.user, liquidity' - liquidity, action.permit)
  /\ UNCHANGED <<usingAsCollateral, borrowAllowance>>

RepayCall       == IsCall("repay") /\ ~action.permit /\ Repaid
RepayWithPermit == IsCall("repay") /\ action.permit /\ Repaid

SetUseAsCollateral ==
  /\ IsCall("setUseAsCollateral")
  /\ aToken[action.user] # 0
  /\ usingAsCollateral' = [usingAsCollateral EXCEPT ![action.user] = action.useAsCollateral]
  /\ UNCHANGED <<reserveVars, wallet, allowance, borrowAllowance>>

\* rateMode is the mode to leave.
SwapBorrowRateMode ==
  LET u == action.user
  IN /\ IsCall("swapBorrowRateMode")
     /\ IF action.rateMode = "stable" THEN SwapToVariable(u)
        ELSE /\ SwapToStable(u)
             /\ MayOweStable(u, StableBalance(u)
                                  + RayMul(variable.scaled[u], NextVariableBorrowIndex))
     /\ UNCHANGED accountVars

Rebalance ==
  /\ IsCall("rebalance")
  /\ RebalanceStableBorrowRate(action.onBehalfOf)
  /\ UNCHANGED accountVars

\* The calls of a bridge; only the reserve is compared.
MintUnbackedCall ==
  /\ IsCall("mintUnbacked")
  /\ MintUnbacked(action.user, action.amount)
  /\ usingAsCollateral' = [usingAsCollateral EXCEPT ![action.user] = @ \/ aToken[action.user] = 0]
  /\ UNCHANGED <<wallet, allowance, borrowAllowance>>

BackUnbackedCall ==
  /\ IsCall("backUnbacked")
  /\ BackUnbacked(action.amount, action.fee)
  /\ Pays(action.user, liquidity' - liquidity, FALSE)
  /\ UNCHANGED <<usingAsCollateral, borrowAllowance>>

ExecuteAction ==
  \/ Deposit \/ SupplyWithPermit \/ WithdrawCall \/ BorrowCall \/ RepayCall \/ RepayWithPermit
  \/ SetUseAsCollateral \/ SwapBorrowRateMode \/ Rebalance
  \/ MintUnbackedCall \/ BackUnbackedCall

-----------------------------------------------------------------------------
\* delegateBorrowAllowance: approveDelegation of a debt token, with nothing to
\* compare.
DelegateBorrowAllowance(u, to, mode, amount) ==
  /\ phase # "sent"
  /\ phase' = "idle"
  /\ action' = NoAction /\ before' = NotRead /\ txTimestamp' = 0
  /\ borrowAllowance' = [borrowAllowance EXCEPT ![mode][u][to] = amount]
  /\ UNCHANGED <<reserveVars, usingAsCollateral, wallet, allowance>>

-----------------------------------------------------------------------------
(* The comparison.                                                         *)

\* Not compared, by almostEqualOrEqual.
AccessoryData == {"lastUpdateTimestamp", "marketStableRate", "totalStableDebtLastUpdated"}

AlmostEqualOrEqual(expected, actual) ==
  \A key \in DOMAIN actual \ AccessoryData :
    IF key = "usageAsCollateralEnabled" THEN actual[key] = expected[key]
    ELSE actual[key] - expected[key] \in -3 .. 3

ExpectedReserveData ==
  LET r == before.reserve
  IN CASE action.name = "deposit" ->
            CalcExpectedReserveDataAfterDeposit(action.amount, r, txTimestamp)
       [] action.name = "withdraw" ->
            CalcExpectedReserveDataAfterWithdraw(action.amount, r, before.user, txTimestamp)
       [] action.name = "borrow" ->
            CalcExpectedReserveDataAfterBorrow(action.amount, action.rateMode, r,
                                               txTimestamp, now)
       [] action.name = "repay" ->
            CalcExpectedReserveDataAfterRepay(action.amount, action.rateMode, r, before.user,
                                              txTimestamp)
       [] action.name = "swapBorrowRateMode" ->
            CalcExpectedReserveDataAfterSwapRateMode(r, before.user, action.rateMode,
                                                     txTimestamp)
       [] action.name = "rebalance" ->
            CalcExpectedReserveDataAfterStableRateRebalance(r, before.user, txTimestamp)
       [] action.name = "mintUnbacked" ->
            CalcExpectedReserveDataAfterMintUnbacked(action.amount, r, txTimestamp)
       [] action.name = "backUnbacked" ->
            CalcExpectedReserveDataAfterBackUnbacked(ScaledSupply, action.amount, action.fee,
                                                     BRIDGE_PROTOCOL_FEE, r, txTimestamp)

ExpectedUserData(expected) ==
  LET r == before.reserve
      u == before.user
  IN CASE action.name = "deposit" ->
            CalcExpectedUserDataAfterDeposit(action.amount, r, expected, u,
                                             txTimestamp)
       [] action.name = "withdraw" ->
            CalcExpectedUserDataAfterWithdraw(action.amount, r, expected, u,
                                              txTimestamp)
       [] action.name = "borrow" ->
            CalcExpectedUserDataAfterBorrow(action.amount, action.rateMode, r,
                                            expected, u, txTimestamp, now)
       [] action.name = "repay" ->
            CalcExpectedUserDataAfterRepay(action.amount, action.rateMode, r,
                                           expected, u, action.user = action.onBehalfOf,
                                           txTimestamp, now)
       [] action.name = "setUseAsCollateral" ->
            CalcExpectedUserDataAfterSetUseAsCollateral(action.useAsCollateral, u)
       [] action.name = "swapBorrowRateMode" ->
            CalcExpectedUserDataAfterSwapRateMode(r, expected, u, action.rateMode,
                                                  txTimestamp)
       [] action.name = "rebalance" ->
            CalcExpectedUserDataAfterStableRateRebalance(r, expected, u,
                                                         txTimestamp)
=============================================================================
