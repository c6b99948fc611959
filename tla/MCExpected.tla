----------------------------- MODULE MCExpected ------------------------------
(***************************************************************************)
(* Stories of a few calls on one reserve by two users, one of whom has     *)
(* underlying from the start; the other has what he borrows, and pays with *)
(* permits.  Calls that would revert for want of a debt or of a deposit    *)
(* are not sent.                                                           *)
(***************************************************************************)
EXTENDS ScenarioEngine

CONSTANTS
  Depositor, Borrower, Funds,
  DepositAmounts, WithdrawAmounts, BorrowAmounts, RepayAmounts, BridgeAmounts, BridgeFees,
  CreditAmounts,
  BlockTime, TravelTime, MaxCalls, MaxTime

ASSUME BoundsAssumption ==
  /\ Users = {Depositor, Borrower}
  /\ {BlockTime, TravelTime, MaxCalls, MaxTime, Funds} \subseteq Nat \ {0}

VARIABLES
  calls,      \* how many were sent, on which rounding errors depend
  unearned    \* scaled: what fees of bridges gave the treasury beyond its part

allVars == <<engineVars, calls, unearned>>

MCInit ==
  /\ EngineInit([u \in Users |-> IF u = Depositor THEN Funds ELSE 0])
  /\ calls = 0 /\ unearned = 0

Permit(u) == u # Depositor

\* The first deposit is for the depositor; one who has nothing may get one later.
MayReceive(u) == u = Depositor \/ (aToken[u] = 0 /\ aToken[Depositor] > 0)
Deposits ==
  {[name |-> "deposit", user |-> u, onBehalfOf |-> v, amount |-> amount, permit |-> Permit(u)] :
     u \in {x \in Users : wallet[x] > 0}, v \in {x \in Users : MayReceive(x)},
     amount \in DepositAmounts}
Withdrawals ==
  {[name |-> "withdraw", user |-> u, amount |-> amount] :
     u \in {x \in Users : aToken[x] > 0}, amount \in WithdrawAmounts \cup {MAX_UINT_AMOUNT}}
MayBorrowFor(u, v, mode) == u = v \/ borrowAllowance[mode][v][u] > 0
Borrows ==
  UNION {{[name |-> "borrow", user |-> w[1], onBehalfOf |-> w[2], amount |-> amount,
           rateMode |-> mode] :
            w \in {x \in Users \X Users : MayBorrowFor(x[1], x[2], mode)},
            amount \in {x \in BorrowAmounts : x <= liquidity}} :
         mode \in RateModes}
InMode(mode) ==
  {u \in Users : IF mode = "stable" THEN stable.balance[u] > 0 ELSE variable.scaled[u] > 0}
Repayments ==
  UNION {{[name |-> "repay", user |-> u, onBehalfOf |-> v, amount |-> amount,
           rateMode |-> mode, permit |-> Permit(u)] :
            u \in Users, v \in InMode(mode), amount \in RepayAmounts \cup {MAX_UINT_AMOUNT}} :
         mode \in RateModes}
Switches ==
  {[name |-> "setUseAsCollateral", user |-> u, useAsCollateral |-> ~usingAsCollateral[u]] :
     u \in {x \in Users : aToken[x] > 0 /\ action.name # "setUseAsCollateral"}}
Swaps ==
  UNION {{[name |-> "swapBorrowRateMode", user |-> u, rateMode |-> mode] : u \in InMode(mode)} :
         mode \in RateModes}
Rebalances ==
  {[name |-> "rebalance", user |-> Depositor, onBehalfOf |-> u] : u \in InMode("stable")}
BridgeCalls ==
  {[name |-> "mintUnbacked", user |-> Depositor, amount |-> amount] : amount \in BridgeAmounts}
  \cup {[name |-> "backUnbacked", user |-> Depositor, amount |-> amount, fee |-> fee] :
          amount \in BridgeAmounts, fee \in BridgeFees}

Calls ==
  Deposits \cup Withdrawals \cup Borrows \cup Repayments \cup Switches \cup Swaps
    \cup Rebalances \cup BridgeCalls

SendOne ==
  /\ calls < MaxCalls
  /\ \E a \in Calls, travel \in {0, TravelTime} :
       /\ travel > 0 => /\ a.name = "repay" /\ a.user = a.onBehalfOf
                        /\ a.amount = MAX_UINT_AMOUNT
       /\ a.name = "repay" /\ a.amount = MAX_UINT_AMOUNT => a.user = a.onBehalfOf
       /\ now + BlockTime + travel <= MaxTime
       /\ Send(a, BlockTime + travel)
  /\ calls' = calls + 1 /\ UNCHANGED unearned

Delegate ==
  /\ calls < MaxCalls - 1
  /\ \E mode \in RateModes, amount \in CreditAmounts :
       /\ borrowAllowance[mode][Borrower][Depositor] = 0
       /\ DelegateBorrowAllowance(Borrower, Depositor, mode, amount)
  /\ calls' = calls + 1 /\ UNCHANGED unearned

\* The part of a fee that is for suppliers raises the index by what makes it whole
\* for the aTokens alone, and what has accrued to the treasury gets it too.
Execute ==
  /\ ExecuteAction
  /\ unearned' =
       IF action.name # "backUnbacked" THEN unearned
       ELSE unearned + RayDiv(RayMul(Updated.accruedToTreasury,
                                     reserve'.liquidityIndex - NextLiquidityIndex),
                              reserve'.liquidityIndex)
  /\ UNCHANGED calls

MCNext ==
  \/ SendOne
  \/ Delegate
  \/ Execute
  \/ now + TravelTime <= MaxTime /\ Travel(TravelTime) /\ UNCHANGED <<calls, unearned>>

MCSpec == MCInit /\ [][MCNext]_allVars

-----------------------------------------------------------------------------
(* Where calculations.ts does not say what the contracts do.               *)

Is(name)         == action.name = name
InVariableMode   == action.rateMode = "variable"
ReadDebt         == IF InVariableMode THEN before.user.currentVariableDebt
                    ELSE before.user.currentStableDebt

\* An amount of repay is not capped by the debt.
Overpaid         == Is("repay") /\ action.amount # MAX_UINT_AMOUNT /\ action.amount > ReadDebt

\* A fee that no aToken shares divides by zero, which a BigNumber cannot.
SharedByNobody   == Is("backUnbacked") /\ ScaledSupply = 0

\* With unbacked aTokens the two utilizations that the rates are computed with
\* differ, and if they have different numbers of digits then the larger string is
\* the smaller number.
MissortedStrings ==
  LET debt     == StableTotalSupply(stable, txTimestamp)
                    + RayMul(ScaledVariableSupply, reserve.variableBorrowIndex)
      borrowed == BnRayDiv(debt, liquidity + debt)
      supplied == BnRayDiv(debt, liquidity + reserve.unbacked + debt)
  IN debt > 0 /\ StringGreater(supplied, borrowed)

\* The average is that of the stable debts as they were read, without the
\* interest until the transaction.
StaleStableDebt  == Is("swapBorrowRateMode") /\ InVariableMode
                      /\ before.reserve.totalStableDebt > 0

\* The average adds an amount in ray to a debt in wad: right for the only debtor.
OtherStableDebts == Is("rebalance")
                      /\ before.user.principalStableDebt # before.reserve.principalStableDebt

ReserveKnown ==
  ~(Overpaid \/ SharedByNobody \/ MissortedStrings \/ StaleStableDebt \/ OtherStableDebts)

OwesInStable == before.user.principalStableDebt > 0
Owes         == OwesInStable \/ before.user.scaledVariableDebt > 0

\* deposit sets the stable principal to the variable debt; repay exchanges the
\* stable principal and balance; swapBorrowRateMode takes the stable balance
\* before its interest; borrow gives the user the variable debt of the reserve;
\* setUseAsCollateral expects no interest.
UserKnown ==
  /\ ReserveKnown
  /\ Is("deposit") => ~Owes
  /\ (Is("repay") \/ Is("swapBorrowRateMode")) /\ InVariableMode => ~OwesInStable
  /\ Is("borrow") /\ InVariableMode =>
       before.user.scaledVariableDebt = before.reserve.scaledVariableDebt
  /\ Is("setUseAsCollateral") => ~Owes /\ before.user.liquidityRate = 0

-----------------------------------------------------------------------------
\* expectEqual of the reserve: after each call, and after the time that a borrow
\* lets pass, every figure of the reserve is the one that calculations.ts derives
\* from the reading before the call, up to 3 units; but for the calls above.
ReserveAsExpected ==
  phase = "mined" /\ ~Is("setUseAsCollateral") /\ ReserveKnown
    => AlmostEqualOrEqual(ExpectedReserveData, GetReserveData)

\* expectEqual of the user: the same for the balances, the debts, the rate, the
\* collateral flag and the wallet of the user the call is about.
UserAsExpected ==
  phase = "mined" /\ ~Is("mintUnbacked") /\ ~Is("backUnbacked") /\ UserKnown
    => AlmostEqualOrEqual(ExpectedUserData(ExpectedReserveData),
                          GetContractsData(Subject(action), WalletOwner(action)).user)

\* With bridges too, what depositors and the treasury could claim is in the
\* reserve, owed to it, or still to arrive, up to a unit of rounding per call: what
\* is minted unbacked is counted until it is backed, whatever becomes of the
\* aTokens in the meantime.  cumulateToLiquidityIndex promises a fee once to the
\* aTokens and again to what has accrued to the treasury: exactly that is missing.
BridgedClaimsCovered == Claims <= Backing + calls + RayMul(unearned, NormalizedIncome)

\* Nobody's debt grows by the call of another, however it is made and in
\* whatever mode, but by what he delegated to the caller in that mode, which
\* shrinks as much (up to the rounding of a balance).
DebtsOfOthersAreDelegated ==
  [][\A u \in Users : \A mode \in RateModes :
       LET debt  == IF mode = "stable" THEN StableBalance(u) ELSE VariableBalance(u)
           grown == debt' - debt
       IN /\ now' = now /\ phase' = "mined" /\ action.user # u
          /\ ~Is("rebalance")
          /\ grown > 1
          => borrowAllowance[mode][u][action.user]
               - borrowAllowance'[mode][u][action.user] \in grown - 1 .. grown + 1]_allVars
=============================================================================
