------------------------------ MODULE Protocol ------------------------------
(***************************************************************************)
(* The Pool with its users, its administration and its market: the calls   *)
(* in every order, each one atomic, and the properties that make the       *)
(* protocol correct.                                                       *)
(***************************************************************************)
EXTENDS PoolConfigurator

\* The storage of a freshly deployed Pool.
Init ==
  /\ reserve = [a \in Assets |-> NoReserve]
  /\ config = [a \in Assets |-> NoConfig]
  /\ reservesList = [i \in Ids |-> None]
  /\ reservesCount = 0
  /\ categories = [c \in Categories \cup {0} |-> NoCategory]
  /\ account = [x \in Accounts |-> NoPosition]
  /\ liquidity = [a \in Assets |-> 0]
  /\ price \in [Assets \cup Feeds -> Prices]
  /\ sentinelUp = TRUE

-----------------------------------------------------------------------------

SupplySide ==
  \E u \in Users, a \in Assets :
    \/ \E n \in Amounts : Supply(u, a, n)
    \/ \E n \in Amounts \cup {account[u].aToken[a]} : Withdraw(u, a, n)
    \/ \E to \in Accounts, n \in Amounts \cup {account[u].aToken[a]} : Transfer(u, to, a, n)
    \/ \E use \in BOOLEAN : SetUserUseReserveAsCollateral(u, a, use)

DebtSide ==
  \E u \in Users, a \in Assets, mode \in Modes :
    \/ \E n \in Amounts : Borrow(u, a, n, mode)
    \/ \E n \in Amounts \cup {account[u][mode][a]} : Repay(u, a, n, mode)
    \/ \E sender \in Users, n \in Amounts \cup {account[u][mode][a]} :
         RepayWithATokens(sender, u, a, n, mode)
    \/ SwapBorrowRateMode(u, a, mode)

Liquidations ==
  \E l \in Users, u \in Users, c \in Assets, d \in Assets, n \in Amounts, receive \in BOOLEAN :
    LiquidationCall(l, u, c, d, n, receive)

UnbackedMints == \E u \in Users, a \in Assets, n \in Amounts : MintUnbacked(u, a, n)

Backing ==
  \E a \in Assets, n \in Amounts, fee \in Amounts \cup {0}, x \in Accounts :
    BackUnbacked(a, n, fee, x)

EfficiencyMode == \E u \in Users, c \in Categories \cup {0} : SetUserEMode(u, c)

Interest == \E u \in Users, x \in Accounts, a \in Assets, mode \in Modes : Accrue(u, x, a, mode)

Market == (\E f \in Assets \cup Feeds, v \in Prices : SetPrice(f, v)) \/ ToggleSentinel

UserNext == SupplySide \/ DebtSide \/ Liquidations \/ UnbackedMints \/ Backing \/ EfficiencyMode

Listing == \E a \in Assets : InitReserve(a) \/ DropReserve(a)

CollateralParameters(a) ==
  \E ltv, lt, bonus \in Percentages : ConfigureReserveAsCollateral(a, ltv, lt, bonus)

LimitParameters(a) ==
  \/ \E n \in Limits, on \in BOOLEAN : EnableBorrowingOnReserve(a, n, on)
  \/ \E n \in Limits : \/ SetDebtCeiling(a, n)
                       \/ SetBorrowCap(a, n)
                       \/ SetSupplyCap(a, n)
                       \/ SetUnbackedMintCap(a, n)
  \/ \E on \in BOOLEAN : SetReserveStableRate(a, on) \/ SetBorrowableInIsolation(a, on)

FeeParameters(a) == \E n \in Percentages : SetLiquidationProtocolFee(a, n)

RiskParameters ==
  \E a \in Assets : CollateralParameters(a) \/ LimitParameters(a) \/ FeeParameters(a)

Switches ==
  \/ \E a \in Assets :
       \/ ActivateReserve(a) \/ DeactivateReserve(a) \/ DisableBorrowingOnReserve(a)
       \/ \E on \in BOOLEAN : SetReserveFreeze(a, on) \/ SetReservePause(a, on)
  \/ \E on \in BOOLEAN : SetPoolPause(on)

CategoryParameters ==
  \/ \E c \in Categories, ltv, lt, bonus \in Percentages, f \in Feeds \cup {None} :
       SetEModeCategory(c, ltv, lt, bonus, f)
  \/ \E a \in Assets, c \in Categories \cup {0} : SetAssetEModeCategory(a, c)

AdminNext == Listing \/ RiskParameters \/ Switches \/ CategoryParameters

Next == UserNext \/ Interest \/ Market \/ AdminNext

Spec == Init /\ [][Next]_vars

-----------------------------------------------------------------------------
(* The books of the reserves, and the ledger they implement.                *)

Books ==
  [a \in Assets |-> [cash |-> liquidity[a], claims |-> ATokenSupply(a),
                     owed |-> StableSupply(a) + VariableSupply(a),
                     unbacked |-> reserve[a].unbacked]]

Ledger == INSTANCE ReserveLedger WITH Reserves <- Assets, book <- Books

\* The Pool implements the ledger: every call, however many accounts, modes and
\* reserves it touches, is a balanced entry in the book of each reserve.
LedgerSpec == Ledger!Spec

-----------------------------------------------------------------------------
(* Invariants                                                               *)

\* The storage keeps its shape: balances are natural numbers (no operation
\* burns what is not there), flags are positions of the reserves list, ids fit
\* in it, and a category slot is never written by an asset's configuration.
TypeOK ==
  /\ reserve \in [Assets -> ReserveData]
  /\ config \in [Assets -> ReserveConfig]
  /\ reservesList \in [Ids -> Assets \cup {None}]
  /\ reservesCount \in 0 .. MAX_RESERVES_COUNT
  /\ categories \in [Categories \cup {0} -> Category]
  /\ account \in [Accounts -> Account]
  /\ liquidity \in [Assets -> Nat]
  /\ price \in [Assets \cup Feeds -> Nat]
  /\ sentinelUp \in BOOLEAN

\* The list of reserves stays consistent through any sequence of listings and
\* drops: every reserve stands in the list at the position its id says, so that
\* no two reserves share an id and the loops over the list meet them all; the
\* positions from reservesCount on are empty, and a reserve that does not exist
\* has no counters and no debt ceiling left of an earlier one.
ListedAtOwnId ==
  /\ \A a \in Assets :
       IF reserve[a].listed THEN Id(a) \in 0 .. reservesCount - 1 /\ reservesList[Id(a)] = a
                            ELSE reserve[a] = NoReserve /\ config[a].ceiling = 0
  /\ \A i \in Ids : i >= reservesCount => reservesList[i] = None

\* No debt escapes the health factor: an account that owes an asset, in either
\* mode, has the borrowing flag of a reserve that exists, so
\* calculateUserAccountData adds the debt up.
DebtsFlagged(p) ==
  \A a \in Assets : DebtOf(p, a) > 0 => reserve[a].listed /\ Id(a) \in p.borrowing
DebtIsFlagged == \A x \in Accounts : DebtsFlagged(account[x])

\* The aTokens of a reserve are covered: by the underlying it holds, by what is
\* owed to it and by what the bridges still have to back.
Solvent ==
  \A a \in Assets :
    ATokenSupply(a) =
      liquidity[a] + StableSupply(a) + VariableSupply(a) + reserve[a].unbacked

\* A reserve that has been deactivated, or that does not exist, holds nobody's
\* money and nobody's debt: deactivateReserve only looks at the aTokens.
InactiveIsEmpty ==
  \A a \in Assets : ~(reserve[a].listed /\ config[a].active) =>
    NobodyHolds(a) /\ NobodyOwes(a)

\* Every liquidation has a bonus to pay: whatever the administration does to the
\* collateral and to the categories while users are in them, the bonus that a
\* liquidation of a collateral, or of a user in a category, applies is above
\* 100%.  (A bonus below it would make the subtraction of
\* _calculateAvailableCollateralToLiquidate revert, and no liquidation go through.)
BonusIsPremium ==
  /\ \A a \in Assets : config[a].lt > 0 => config[a].bonus > PERCENTAGE_FACTOR
  /\ \A c \in Categories : categories[c].lt > 0 => categories[c].bonus > PERCENTAGE_FACTOR
  /\ \A x \in Accounts : account[x].eMode # 0 =>
       categories[account[x].eMode].bonus > PERCENTAGE_FACTOR

\* No position's collateral or debt is counted through two flags: of the slots
\* that hold one asset, an account has at most one flag of each kind.
CountedOnce ==
  \A x \in Accounts : \A i, j \in ListedSlots :
    reservesList[i] = reservesList[j] /\ i # j =>
      /\ ~({i, j} \subseteq account[x].collateral)
      /\ ~({i, j} \subseteq account[x].borrowing)

\* What a position owes, in whole ceiling units, and what the users who are
\* isolated on c owe together.
Exposure(p) == SumFunction([a \in Assets |-> CeilingAmount(DebtOf(p, a))])
IsolatedOn(c) == {u \in Users : IsolationAsset(account[u]) = c}
IsolatedExposure(c) == SumFunction([u \in IsolatedOn(c) |-> Exposure(account[u])])

\* The debt of the users isolated on a collateral is accumulated in the total
\* debt exposure of that collateral.
ExposureIsCounted ==
  \A c \in Assets : IsolatedExposure(c) <= reserve[c].isolationDebt

\* The users isolated on an asset never owe more than its ceiling together.
CeilingHolds ==
  \A c \in Assets : config[c].ceiling > 0 => IsolatedExposure(c) <= config[c].ceiling

\* The counter of the isolated debt is back to zero when nothing is owed any more.
IsolationCounterClears ==
  (\A u \in Users, a \in Assets : DebtOf(account[u], a) = 0) =>
    \A c \in Assets : reserve[c].isolationDebt = 0

\* A borrowing flag stands for a debt: it is true while the user is borrowing the
\* reserve, and false otherwise.
BorrowingFlagIsOwed ==
  \A x \in Accounts, a \in Assets :
    reserve[a].listed /\ Id(a) \in account[x].borrowing => DebtOf(account[x], a) > 0

\* A collateral flag stands for a balance: when all of a collateral has gone, the
\* asset is not used as collateral any more.
CollateralFlagIsBacked ==
  \A x \in Accounts, a \in Assets :
    reserve[a].listed /\ UsesAsCollateral(account[x], a) => account[x].aToken[a] > 0

-----------------------------------------------------------------------------
(* Action properties                                                        *)

\* No call of any user takes a healthy position below health factor 1, his own
\* or another's: only prices, interest and the administration do.
HealthPreserved ==
  [][\A u \in Users : Healthy(account[u]) /\ ~Healthy(account[u])' =>
       Market \/ Interest \/ AdminNext]_vars

\* A user in an efficiency mode owes only assets of his category, whose price and
\* thresholds his position is valued with: no call of a user, in whatever order he
\* borrows, repays and changes modes, ends that.  Only the administration can, by
\* moving an asset to another category.
OwesInCategory(p) ==
  p.eMode # 0 => \A a \in Assets : DebtOf(p, a) > 0 => config[a].category = p.eMode
EModeDebtsInCategory ==
  [][\A u \in Users : OwesInCategory(account[u]) /\ ~OwesInCategory(account[u])' =>
       config' # config]_vars

\* A step in which u takes underlying from a reserve as a loan.
LoanTaken(u) ==
  \E a \in Assets : /\ DebtOf(account'[u], a) > DebtOf(account[u], a)
                    /\ liquidity'[a] < liquidity[a]

\* At the moment a loan is taken there is enough collateral available to cover
\* the liquidation bonus, whichever collateral of the borrower is seized.
LoanCoversBonus ==
  [][\A u \in Users : LoanTaken(u) =>
       \A c \in Assets : UsesAsCollateral(account[u], c) =>
         TotalCollateral(account[u])' >=
           PercentMul(TotalDebt(account[u])', LiquidationBonus(account[u], c))]_vars

\* A loan never leaves its borrower open to liquidation.
LoanIsHealthy == [][\A u \in Users : LoanTaken(u) => Healthy(account[u])']_vars

Full(cap, total) == cap > 0 /\ total >= cap * TOKEN_UNIT

\* No call fills a reserve up to its caps: whatever raises the aTokens or the
\* debt of a reserve leaves them below the cap, but for interest and the fees of
\* bridges.
CapsRespected ==
  [][\A a \in Assets :
       \/ /\ ATokenSupply(a)' > ATokenSupply(a)
          /\ Full(config[a].supplyCap, ATokenSupply(a)')
       \/ /\ (StableSupply(a) + VariableSupply(a))' > StableSupply(a) + VariableSupply(a)
          /\ Full(config[a].borrowCap, (StableSupply(a) + VariableSupply(a))')
       => Interest \/ Backing]_vars

\* A liquidation does not dig a hole: a position whose collateral pays for all of
\* its debt with the bonus still does once it has been liquidated, up to the
\* rounding of one unit of the collateral.
Covered(p, c, slack) ==
  TotalCollateral(p) + slack >= PercentMul(TotalDebt(p), LiquidationBonus(p, c))
LiquidationKeepsCover ==
  [][\A u \in Users, c \in Assets :
       /\ account'[u].aToken[c] < account[u].aToken[c]
       /\ \E d \in Assets : DebtOf(account'[u], d) < DebtOf(account[u], d)
       /\ Covered(account[u], c, 0)
       => Covered(account[u], c, price[c])']_vars

\* In a paused reserve nothing moves, not a balance, not a debt, not the
\* underlying, but by interest and by the backing of unbacked mints.
PausedIsStill ==
  [][\A a \in Assets : config[a].paused /\ ~Interest /\ ~Backing =>
       /\ liquidity'[a] = liquidity[a]
       /\ \A x \in Accounts :
            /\ account'[x].aToken[a] = account[x].aToken[a]
            /\ account'[x].stable[a] = account[x].stable[a]
            /\ account'[x].variable[a] = account[x].variable[a]]_vars

\* A frozen reserve takes no new money and gives no new loan: what it holds and
\* what it is owed only fall, but for interest and the fees of bridges.
FrozenTakesNothing ==
  [][\A a \in Assets :
       /\ config[a].frozen
       /\ \/ ATokenSupply(a)' > ATokenSupply(a)
          \/ (StableSupply(a) + VariableSupply(a))' > StableSupply(a) + VariableSupply(a)
       => Interest \/ Backing]_vars
=============================================================================
