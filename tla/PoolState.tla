----------------------------- MODULE PoolState ------------------------------
(***************************************************************************)
(* The storage of the Pool (PoolStorage.sol) with the balances of its      *)
(* tokens, and what the libraries UserConfiguration and GenericLogic read  *)
(* from it: the flags of a user, his isolation mode and his account data   *)
(* (collateral, debt, average thresholds and health factor).               *)
(*                                                                         *)
(* Balances are amounts of underlying.  The index a scaled balance is      *)
(* multiplied by is abstracted: interest shows as the Accrue step of the   *)
(* module Pool (see Reserve for the indexes).                              *)
(***************************************************************************)
EXTENDS LiquidationMath, FiniteSets, FiniteSetsExt

CONSTANTS
  Users,                \* the accounts that call the Pool
  Treasury,             \* RESERVE_TREASURY_ADDRESS of the aTokens
  Assets,               \* the underlying assets a reserve may exist for
  Feeds,                \* price sources of eMode categories
  None,                 \* address(0)
  Categories,           \* the eMode categories; category 0 is "no eMode"
  MAX_RESERVES_COUNT,   \* size of the reserves list
  WAD,                  \* health factor 1
  TOKEN_UNIT,           \* one whole token, the unit of the caps
  CEILING_UNIT,         \* 10 ** (decimals - DEBT_CEILING_DECIMALS)
  MAX_STABLE_PERCENT    \* _maxStableRateBorrowSizePercent

ASSUME AddressesAssumption ==
  /\ Treasury \notin Users
  /\ None \notin Assets \cup Feeds
  /\ IsFiniteSet(Users) /\ IsFiniteSet(Assets)

ASSUME UnitsAssumption ==
  /\ {WAD, TOKEN_UNIT, CEILING_UNIT} \subseteq Nat \ {0}
  /\ MAX_STABLE_PERCENT \in Nat
  /\ MAX_RESERVES_COUNT \in Nat
  /\ Categories \subseteq Nat \ {0}

Accounts == Users \cup {Treasury}
Ids      == 0 .. MAX_RESERVES_COUNT - 1

VARIABLES
  reserve,        \* _reserves: is the reserve initialized, its id, its counters
  config,         \* the ReserveConfigurationMap of each reserve, one field per bit range
  reservesList,   \* _reservesList: the asset at each position
  reservesCount,  \* _reservesCount
  categories,     \* _eModeCategories
  account,        \* per account: _usersConfig, _usersEModeCategory, token balances
  liquidity,      \* underlying held by the aToken of each reserve
  price,          \* what the oracle answers for a whole token of an asset, or for a feed
  sentinelUp      \* the PriceOracleSentinel allows borrowing and liquidating

vars == <<reserve, config, reservesList, reservesCount, categories, account,
          liquidity, price, sentinelUp>>

ReserveData == [listed : BOOLEAN, id : Nat, isolationDebt : Nat, unbacked : Nat]

ReserveConfig ==
  [active : BOOLEAN, frozen : BOOLEAN, paused : BOOLEAN, borrowing : BOOLEAN,
   stableBorrowing : BOOLEAN, isolationBorrowable : BOOLEAN,
   ltv : Nat, lt : Nat, bonus : Nat, fee : Nat, ceiling : Nat,
   supplyCap : Nat, borrowCap : Nat, unbackedCap : Nat, category : Nat]

Category == [ltv : Nat, lt : Nat, bonus : Nat, source : Feeds \cup {None}]

Account ==
  [collateral : SUBSET Ids, borrowing : SUBSET Ids, eMode : Categories \cup {0},
   aToken : [Assets -> Nat], stable : [Assets -> Nat], variable : [Assets -> Nat]]

\* A deleted ReserveData: every bit of its configuration is zero.
NoReserve == [listed |-> FALSE, id |-> 0, isolationDebt |-> 0, unbacked |-> 0]
NoConfig  ==
  [active |-> FALSE, frozen |-> FALSE, paused |-> FALSE, borrowing |-> FALSE,
   stableBorrowing |-> FALSE, isolationBorrowable |-> FALSE,
   ltv |-> 0, lt |-> 0, bonus |-> 0, fee |-> 0, ceiling |-> 0,
   supplyCap |-> 0, borrowCap |-> 0, unbackedCap |-> 0, category |-> 0]
NoCategory == [ltv |-> 0, lt |-> 0, bonus |-> 0, source |-> None]
NoPosition ==
  [collateral |-> {}, borrowing |-> {}, eMode |-> 0,
   aToken |-> [a \in Assets |-> 0], stable |-> [a \in Assets |-> 0],
   variable |-> [a \in Assets |-> 0]]

-----------------------------------------------------------------------------
(* Sums over the accounts: the totalSupply of the tokens.                   *)

ATokenSupply(a)   == SumFunction([x \in Accounts |-> account[x].aToken[a]])
StableSupply(a)   == SumFunction([x \in Accounts |-> account[x].stable[a]])
VariableSupply(a) == SumFunction([x \in Accounts |-> account[x].variable[a]])
DebtOf(p, a)     == p.stable[a] + p.variable[a]

-----------------------------------------------------------------------------
(* UserConfiguration.sol over the flags of a position p.                    *)

Id(a) == reserve[a].id
UsesAsCollateral(p, a) == Id(a) \in p.collateral

SetUsingAsCollateral(p, a, on) ==
  [p EXCEPT !.collateral = IF on THEN @ \cup {Id(a)} ELSE @ \ {Id(a)}]
SetBorrowing(p, a, on) ==
  [p EXCEPT !.borrowing = IF on THEN @ \cup {Id(a)} ELSE @ \ {Id(a)}]

\* The only collateral of p when that asset has a debt ceiling, None when p is
\* not in isolation mode.
IsolationAsset(p) ==
  IF Cardinality(p.collateral) # 1 THEN None
  ELSE LET a == reservesList[CHOOSE i \in p.collateral : TRUE]
       IN IF a # None /\ config[a].ceiling > 0 THEN a ELSE None

-----------------------------------------------------------------------------
(* GenericLogic.calculateUserAccountData for a position p.                  *)

ListedSlots == {i \in 0 .. reservesCount - 1 : reservesList[i] # None}

InCategory(p, a) == p.eMode # 0 /\ config[a].category = p.eMode

PriceFor(p, a) ==
  LET source == categories[p.eMode].source
  IN IF InCategory(p, a) /\ source # None /\ price[source] > 0
     THEN price[source] ELSE price[a]

CollateralSlots(p) ==
  {i \in p.collateral \cap ListedSlots : config[reservesList[i]].lt # 0}

CollateralValue(p, i) ==
  LET a == reservesList[i] IN (PriceFor(p, a) * p.aToken[a]) \div TOKEN_UNIT

DebtValue(p, i) ==
  LET a == reservesList[i] IN (PriceFor(p, a) * DebtOf(p, a)) \div TOKEN_UNIT

TotalCollateral(p) == SumFunction([i \in CollateralSlots(p) |-> CollateralValue(p, i)])
TotalDebt(p) == SumFunction([i \in p.borrowing \cap ListedSlots |-> DebtValue(p, i)])

\* A collateral at an asset's own percentage, or at that of the user's category.
Weight(p, i, own, ofCategory) ==
  LET a == reservesList[i]
  IN CollateralValue(p, i) * (IF InCategory(p, a) THEN ofCategory ELSE own[a])

\* The average over the collateral, truncated as the code's division is.
Average(p, own, ofCategory) ==
  LET weighed == {i \in CollateralSlots(p) : own[reservesList[i]] > 0}
      total   == TotalCollateral(p)
  IN IF total = 0 THEN 0
     ELSE SumFunction([i \in weighed |-> Weight(p, i, own, ofCategory)]) \div total

AverageLtv(p) == Average(p, [a \in Assets |-> config[a].ltv], categories[p.eMode].ltv)
AverageThreshold(p) == Average(p, [a \in Assets |-> config[a].lt], categories[p.eMode].lt)

HasZeroLtvCollateral(p) ==
  \E i \in CollateralSlots(p) : config[reservesList[i]].ltv = 0

\* Meaningful for a position that owes something; without debt the code
\* answers type(uint256).max, which the comparisons below treat apart.
HealthFactor(p) ==
  DivHalfUp(PercentMul(TotalCollateral(p), AverageThreshold(p)), TotalDebt(p), WAD)

HealthAtLeast(p, threshold) == TotalDebt(p) = 0 \/ HealthFactor(p) >= threshold
HealthAbove(p, threshold)   == TotalDebt(p) = 0 \/ HealthFactor(p) > threshold

HEALTH_FACTOR_LIQUIDATION_THRESHOLD == WAD
MINIMUM_HEALTH_FACTOR_LIQUIDATION_THRESHOLD == (95 * WAD) \div 100

Healthy(p) == HealthAtLeast(p, HEALTH_FACTOR_LIQUIDATION_THRESHOLD)
=============================================================================
