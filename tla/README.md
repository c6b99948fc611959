# A verification project for the Aave v3 protocol contracts

TLA+ models of the contracts under `src/contracts/protocol` and of the oracle of
their test suite under `src/test-suites/helpers`, model-checked with
TLC on small instances, with theorems about them that TLAPS checks for every
value of the constants.  File names below are relative to `src/contracts/`, or to
`src/test-suites/helpers/` where they end in `.ts`;
"the Pool" is `protocol/pool/Pool.sol` with the libraries it delegates to.

## 1. The system

A reserve is an underlying asset with three tokens (aToken, stable debt,
variable debt), a configuration word, interest indexes and an id, its position
in the Pool's list.  Users supply an asset for aTokens, use aTokens as
collateral, and borrow other assets against them.  A position is worth what
`GenericLogic.calculateUserAccountData` says: the sum over the reserves whose
flag the user has set, at the oracle's prices, weighted with each reserve's
threshold.  Under a health factor of 1 anyone may repay part of the debt and
take collateral at a bonus.

| Component | State it keeps | Operations | Talks to |
|---|---|---|---|
| Supply side (`SupplyLogic`, `AToken`) | scaled balances, collateral flags | supply, withdraw, transfer, collateral switch | validation, reserve state, underlying token; the aToken calls back `finalizeTransfer` |
| Borrow side (`BorrowLogic`, debt tokens) | two debts per reserve, borrowing flags | borrow, repay (with underlying or aTokens), swap mode, rebalance | validation, isolation counter, aToken (`transferUnderlyingTo`) |
| Account data and validation (`GenericLogic`, `ValidationLogic`, `UserConfiguration`) | none of its own | health factor, every guard | all storage, the oracle |
| Liquidation (`LiquidationLogic`) | none of its own | liquidationCall | both tokens of the debt, the collateral aToken, treasury |
| Isolation mode (`IsolationModeLogic`) | debt counter of each isolated asset | charged by borrow, released by repay and liquidation | configuration (ceiling) |
| Efficiency mode (`EModeLogic`) | categories, category of each user | setUserEMode | account data, oracle feeds |
| Bridge (`BridgeLogic`) | unbacked counter | mintUnbacked, backUnbacked | index, supply cap |
| Administration (`PoolConfigurator`, `ConfiguratorLogic`, list in `Pool`) | configuration words, reserves list, categories | list, drop, switches, risk parameters, caps | Pool |
| Interest (`ReserveLogic`, `MathUtils`, rate strategy) | indexes, rates, timestamp, treasury accrual | updateState, updateInterestRates | every operation above, before and after it |
| Flash loans (`FlashLoanLogic`) | none | flashLoan, flashLoanSimple | the receiver's contract, in the middle of the operation |
| Oracles (`AaveOracle`, `PriceOracleSentinel`) | sources, grace period | getAssetPrice, isBorrowAllowed | price feeds |
| Addresses and proxies (`PoolAddressesProvider`, `ConfiguratorLogic`, `aave-upgradeability`) | addresses, code and last revision of each proxy, premiums of flash loans | set an address or an implementation, make and upgrade tokens, initialize | everything, by address |
| Roles (`ACLManager`) | who has which role | grant, revoke | administration, bridges |
| Test oracle (`utils/calculations.ts`, `utils/helpers.ts`) | none | what a call should make of a reserve and of a user, from a reading before it | the data provider's readings |
| Scenario engine (`scenario-engine.ts`, `actions.ts`) | the story being told, the readings around a call | read, send, let time pass, read again, compare | Pool, tokens, underlying, debt tokens' allowances |

Calls are atomic: a transaction that reverts leaves no trace.  So the behaviours
that are hard are not thread interleavings but **sequences**: calls of several
users, of the administration, of bridges and liquidators, in an order nobody
wrote a test for, with prices and interest moving in between.  What makes them
hard here:

* two records of one fact kept apart: a flag and a balance, an id and a list
  position, a counter of isolated debt and the debts, a category of an asset and
  of a user, the aTokens and the cash;
* values read before an effect and used after it (`LiquidationLogic` compares a
  balance read before the transfers; `dropReserve` leaves the flags of users);
* rounding: every percentage and every index multiplication rounds half up, unit
  conversions truncate, and a division by zero written in assembly gives zero;
* parameters changed under positions that were opened with other ones;
* contracts that remember each other's address, and are replaced one by one;
* and, for the tests, an expectation that is computed from readings older than the
  transaction it is about.

The full list, with lines, is under `hazards` in `PROJECT.json`.

What makes each component correct is stated as properties in `Protocol.tla`
(section 4), for the abstract view of the money in `ReserveLedger.tla`, for
indexes and rates in `MCReserve.tla`, for contracts that are replaced in
`Governance.tla`, and for what the test suite expects in `MCExpected.tla`.

## 2. Modules

```
FixedPoint -> PercentageMath -> LiquidationMath -> PoolState -> PoolValidation
   -> Pool -> PoolConfigurator -> Protocol -> MCMarket -> MC...
                                     |
                                     +-- INSTANCE ReserveLedger  (abstract)
PercentageMath -> MathUtils -> InterestRateStrategy, StableDebt
   -> Reserve -> MCReserve
Reserve -> ProtocolData, FixedPoint -> BigNumbers -> Calculations
   -> ScenarioEngine -> MCExpected
PercentageMath -> Governance -> MCAdministration (with MCMarket)
LiquidationMath -> ArithmeticProofs
   Protocol -> ProtocolProofs -> LedgerProofs -> LimitProofs -> PositionProofs
   MCLiquidationMath -> LiquidationMathProofs
   MCReserve -> ReserveProofs
Governance -> GovernanceProofs
```

The code is modelled from two sides.  `Protocol` has many reserves, users and the
administration, and no indexes; `Reserve` has one reserve with its indexes, rates,
tokens and time, and neither health nor configuration.  The Pool calls the second
from every operation of the first: cache, updateState, operation,
updateInterestRates.  `Protocol` sees of it the step `Accrue`.

The tests are a third description of the second side: `calculations.ts` says again,
in another language, what every call does to a reserve and to a user.
`ScenarioEngine` runs the two next to each other, as `actions.ts` does, with all
short stories in place of the written ones.  `Governance` is the level below both:
which code runs at which address.

| Module | Models | How it corresponds |
|---|---|---|
| `FixedPoint`, `PercentageMath` | `WadRayMath`, `PercentageMath` | half-up multiplication and division in a unit; division by zero gives 0 as in the EVM. Units are constants, so small ones can be checked. |
| `LiquidationMath` | `_calculateAvailableCollateralToLiquidate` | one operator from a record of inputs to what is seized, the fee in it and the debt paid |
| `PoolState` | `PoolStorage`, `UserConfiguration`, `GenericLogic` | storage as functions; a position is a record (flags as sets of ids, category, balances), so that the account data of a position that is about to be stored can be computed |
| `PoolValidation` | `ValidationLogic` | one operator for each `validate...` function, FALSE where it reverts |
| `Pool` | `SupplyLogic`, `BorrowLogic`, `LiquidationLogic`, `BridgeLogic`, `EModeLogic`, `IsolationModeLogic` and the tokens' mint, burn and transfer | one action for each external operation; it is enabled when the call does not revert |
| `PoolConfigurator` | `PoolConfigurator`, the list in `Pool` | one action for each setter |
| `Protocol` | the contracts together | `Init`, `Next`, `Spec`, the refinement of the ledger and the properties |
| `ReserveLedger` | what the Pool promises about money | a book (cash, claims, owed, unbacked) for each reserve and seven kinds of balanced entry |
| `MathUtils`, `InterestRateStrategy` | `MathUtils`, `DefaultReserveInterestRateStrategy` | pure operators with the code's rounding; the contract's immutables are constants |
| `StableDebt` | `StableDebtToken` | the token as a record; what `burn` stores and what it returns are kept apart |
| `Reserve` | `ReserveLogic` and one reserve's share of `SupplyLogic`, `BorrowLogic`, `BridgeLogic`, `FlashLoanLogic`, `AToken`, `VariableDebtToken` | `Updated` is updateState, `WithRates` is updateInterestRates; a flash loan is two steps, and what the receiver does lies between them |
| `MCReserve` | an instance of it | a bounded number of calls, and history variables |
| `BigNumbers` | `utils/wadraymath.ts` | the rounding of `rayMul`, `rayDiv`, `wadMul`, `percentMul` and of a `BigNumber`'s division, and the order of numbers that are compared as strings |
| `Calculations` | `utils/calculations.ts` | one operator for each exported function and helper, from readings (records) to the expected reading |
| `ProtocolData` | `AaveProtocolDataProvider`, `utils/helpers.ts` | the reading of a reserve and of a user as a record with the suite's field names |
| `ScenarioEngine` | `scenario-engine.ts`, `actions.ts` | `Send` reads and lets time pass until the block, one action for each kind of call executes it in `Reserve`, `Travel` lets time pass before the second reading; wallets, allowances, permits, credit delegation and the collateral flag are kept here |
| `MCExpected` | the stories | which calls are sent, and the cases in which the oracle is known to be wrong |
| `Governance` | `PoolAddressesProvider`, `VersionedInitializable`, the proxies, `ConfiguratorLogic` and the parts of `Pool` and `PoolConfigurator` that hold addresses and premiums | a proxy is a record (who commands it, its code, the last revision it was initialized for); `Revision` is a constant; an upgrade runs initialize in the same step |
| `MCMarket`, `MCLending`, `MCLiquidation`, `MCModes`, `MCAdministration`, `MCLiquidationMath` | instances | starting markets and the calls made in them |

Operators introduced by a comment "A mistake" are variants of the definition that
follows them, with a bug that could plausibly be made there.  No specification
uses them; each is listed in `PROJECT.json` under `mutants` with the property
that notices it.

### Abstractions

* **Balances are amounts of underlying.**  The code stores scaled balances and
  multiplies by an index; here interest is the step `Accrue`, one unit of debt for
  one user and one unit of claim for one earner, between any two calls.  What the
  indexes themselves can get wrong is the subject of `Reserve`.
* **Prices, the sentinel** are inputs that change between any two calls.
* **One decimals setting.**  `TOKEN_UNIT` base units make a whole token of every
  asset.  `CEILING_UNIT` is the unit of debt ceilings.
* **Who may call** an administrative function is left out: every administrative
  step is an authorised one, and so is every call of a bridge.  Which contract
  obeys which is modelled (`Governance`).
* **In `Reserve`** the reserve is active, nobody's health is looked at and nobody
  uses the reserve as collateral, which leaves every call possible; liquidations
  are absent, the reserve factor is constant, and one flash loan of
  one asset is out at a time.  `ScenarioEngine` adds the collateral flag and what
  it forbids to stable loans, since the suite compares it.
* **Calls that revert** change nothing and are left out of `ScenarioEngine`, like
  the stories that expect one.
* **Credit delegation and permits** are in `ScenarioEngine` only: elsewhere they do
  not change a position.  A permit is an allowance set in the call; its signature is
  left out.  Rewards are external.
* **In `Governance`** a token stands for the three of its reserve, which are made
  and upgraded alike, and the implementations behind an address are contracts of
  the kind it names.
* **256-bit overflow** is left out of the arithmetic; amounts in the code are
  bounded by token supplies, far below 2^128, which the casts enforce.

## 3. Runs

The runs of markets (`lending`, `liquidation`, `modes`, `administration`) have
two assets and two users (and the treasury), with the users symmetric. Two of
each are enough for what the properties relate: a collateral and a debt, the
caller and somebody else, a list with a hole in it. A percentage is in units of
one hundredth (`PERCENTAGE_FACTOR = 100`), and a health factor of 1 is `WAD =
100`. `MaxSupply` bounds the aTokens of a reserve and with them all of the
state; `Amounts` are what a call may ask for, besides a user's whole balance.

| Run | Question | Bounds |
|---|---|---|
| `lending` | Can any sequence of calls of two users, with a moving price, lose a debt from sight, leave a flag without a debt, hurt a healthy user or unbalance the books? | amounts 1, 2; supply up to 3; prices 1, 2 |
| `liquidation` | Can liquidations, of covered and of uncovered positions, with fee, interest and sentinel, drive a balance below zero, unbalance the books, hide a debt or dig a hole? | amounts 1, 3; supply up to 3; three prices chosen so that health factors of 0.6, 0.96 and above 1 occur, hence both close factors |
| `liquidation_math` | Does a liquidation ever take more than the bonus allows, and does asking for more ever pay? | every price up to 12, balance and offer up to 14, three bonuses, three fees |
| `modes` | Does isolation keep its ceiling and its counter? Do debts stay in the user's category, whatever the order of calls and of administrative changes? | three scenarios; ceiling 2, amounts up to 4 |
| `administration` | Do the list, the switches, the risk parameters, the caps and the bridges keep their promises while users act? Do upgrades leave every contract initialized, commanded by whom it should, and at the Pool it should administer? | five scenarios; list of 3, which is enough to list two reserves, drop one, list it into two slots at once and fill the list; among the switches only the pauses for the collateral, and all but the end of borrowing for the asset that is lent; caps of 0 or 1 token of 2 units; four proxies, two implementations of each kind with revisions 1 and 2, one asset, premiums 0, 12 and the 9 of an initialization |
| `expected` | Do the contracts do what `calculations.ts` expects of every call, and are claims covered with unbacked aTokens, and debts of others within what they delegated? | one reserve, two users; 5 calls; blocks of 1 and leaps of 4 units of time up to 14, 4 units a year; the same ray and rates as `interest`, a wad of 200; one deposit amount, two loans, one repayment or all, one bridge mint of 2800 under a cap of 3000 |
| `interest` | Do indexes, rates, both debt tokens, the treasury's share and flash loans stay consistent through any sequence of calls and any passage of time? | one reserve; 6 calls; time 1 to 7 in steps of 3, with 2 units of time a year; a ray is 10^4 and a wad 10^3; supply 2400, borrow 600, repay 300 or all, flash loans of 400 and 1800 |

`interest` takes units of time so long that a few calls see years of interest at
rates up to 42%, which magnifies what linear, compounded and stable interest
disagree about.  The amounts are chosen so that the first stable loan fits the
limit of 25% and the second does not, and so that the larger flash loan takes all
liquidity after one borrow, which is what allows a rebalance.  Six calls are enough
for supply, borrow, swap, a flash loan with a call inside it, and a repayment.
Rounding errors add up with the calls, so `ClaimsCovered` allows one unit of
underlying for each call; a unit is 1/2400 of the deposit here and 1 wei in the
code.

`expected` compares up to 3 units, as the suite does up to 3 wei.  Its 5 calls are
enough for a deposit, two loans in different modes or by a delegate, and two calls
about them; time passes before every transaction, since each is mined in a later
block than the reading, and by more than half a year before some repayments and
after some loans, as the suite's stories do.  Loan amounts are such that the
smaller fits the limit of stable loans and both together bring the utilization
above its optimum; the bridge mints more than the deposit, which is what makes the
two utilizations differ in their number of digits.

`upgrades`, the scenario of `administration` about contracts, leaves the market
alone: no call of a user reads which code runs.  Four proxies are enough for a Pool, a
configurator, a second one of either, and a token.

A scenario is a starting market and the calls made in it (`MCModes`,
`MCAdministration`); it is chosen in the initial state and does not change.  The
starting markets are what the administration leaves after listing and configuring
two reserves: states of `Spec`, reached in one step.

The runs whose name starts with `finding_` show where the code does not do what a
comment, an interface or a test of the repository says; each violates one
property (section 5).

**No deadlock is reported** and none is expected: some call is always possible.
The exceptions stop at a bound: `liquidation_math` when its liquidator has asked
for `MaxAmount`, `interest` and `expected` at their last call and last unit of time.

**No fairness and no liveness.**  The Pool has no scheduler: nobody is obliged to
call it, so nothing must eventually happen.  The nearest questions, whether a
position can always be liquidated and whether a reserve can always be emptied,
are stated as safety (`BonusIsPremium`, `InactiveIsEmpty`).

## 4. Properties

Invariants: `TypeOK` (above all: no balance below zero), `ListedAtOwnId`,
`DebtIsFlagged`, `BorrowingFlagIsOwed`, `CountedOnce`, `Solvent`,
`InactiveIsEmpty`, `BonusIsPremium`, `ExposureIsCounted`, `CeilingHolds`,
`IsolationCounterClears`, `SeizedWithinBonus`.

About steps: `HealthPreserved` (no user's call makes a healthy position
unhealthy), `LoanIsHealthy`, `LoanCoversBonus` (at the moment a loan is taken),
`LiquidationKeepsCover`, `EModeDebtsInCategory`, `CapsRespected`,
`PausedIsStill`, `FrozenTakesNothing`, `AskingMorePaysMore`.

Of a reserve in time: `ClaimsCovered` (interest paid out never outruns interest
charged), `BalancesOnlyGrow` (nothing others do or time does shrinks an untouched
balance, though views and updates compute the index under different conditions),
`NoSameBlockRepay` (the index comparison of `validateRepay` means what its error
says), `RatesAreFresh` (whatever happened in the block, a receiver's calls
included, the rates are those of the books), `BridgedClaimsCovered` (the first with
bridges: unbacked aTokens are counted until they are backed, and what is missing is
exactly what the fees of bridges promise twice, see section 5).

Of the tests: `ReserveAsExpected` and `UserAsExpected` (for each call, all figures
the suite compares are what `calculations.ts` derives from the reading before it)
and `DebtsOfOthersAreDelegated` (nobody's debt grows by another's call but by what
he delegated in that mode, which shrinks as much).  The first two hold outside the
cases `ReserveKnown` and `UserKnown` name, in which the oracle is wrong and not the
contracts; a story of the suite that met one may fail.

Of contracts that are replaced: `InitializedForItsCode` (every proxy has been
initialized for the code it runs, so nobody else can do it), `TokensStayUpgradable`
(the tokens of listed reserves obey the registered configurator, through all
upgrades of either), `ConfiguratorAtThePool` (no configurator administers another
Pool than the registered one, though it asks once) and `PremiumsSplit` (the
protocol's part of a premium is never more than the premium).  The second and third
are about histories without `setAddress` on the id, which the history variable
`replaced` records: with it they fail, as the comment of
`IPoolAddressesProvider.setAddress` warns.

Refinement: `LedgerSpec`.  The Pool's state maps to a book for each reserve, and
every call, whatever it does to flags, modes and several accounts, changes each
book by one balanced entry: a deposit, a loan, a settlement, an offset, interest,
an unbacked mint or its backing.

Two properties hold only for the calls their runs make, and the reason is in the
code.  `HealthPreserved` is checked with repayments of one's *own* debt with
aTokens: `repayWithATokens` looks neither at the health nor at the collateral flag
of the sender, who may pay another's debt with what backs his own.
`ExposureIsCounted` and `CeilingHolds` are checked without transfers of aTokens
(see below), liquidations and bridges.

## 5. Where code and words differ

* `finding_zero_ltv`: the collateral needed for a loan is divided by the average
  LTV, and `percentDiv` by zero gives zero.  Against collateral whose LTV has been
  set to zero but whose threshold is positive, any amount may be borrowed.
* `finding_capped_fee`: when the balance caps a liquidation, the protocol fee is
  taken as a share of the collateral without the bonus instead of the bonus, and
  the liquidator receives less than the debt he pays is worth.
* `finding_dropped_in_list`: `_addReserveToList` fills every empty slot; a dropped
  reserve may stay in the list.
* `finding_stale_rates`: a repayment with aTokens brings no underlying, but the
  rates are computed as if it did; they are off until the next call.
* `finding_collateral_flag`: with a protocol fee, a collateral that is all seized
  keeps its flag.

Others were met and are not kept as runs: `finalizeTransfer` enables an asset with
a debt ceiling as collateral of a receiver who has debts, which its counter then
lacks (`SupplyLogic.sol:176`); the income of a premium or a bridge fee is divided by
the supply of aTokens, but the index it raises also multiplies what has accrued to
the treasury (`ReserveLogic.sol:107-125`, called at `FlashLoanLogic.sol:121` and `:220`
and `BridgeLogic.sol:111`), so that a little more is promised than came in; an upgrade of
the Pool resets its premiums to 0.09% and 0 (`Pool.sol:96`); the bonus of a category applies to
collateral outside it (`LiquidationLogic.sol:137`), which then need not cover the
bonus when the loan is taken; `StableDebtToken.burn` may reset the total while
another user still owes, and returns a supply that is not the one it has just set
to zero (`StableDebtToken.sol:192-200`), which `RatesAreFresh` leaves out; a
liquidation that pays all of a debt leaves the borrowing flag
(`LiquidationLogic.sol:164`), while `BorrowingFlagIsOwed` shows in the lending run
that no other call does; a loan repaid in parts smaller than
`CEILING_UNIT` stays in the isolation counter (`IsolationModeLogic.sol:40`), which
is why `IsolationCounterClears` is checked with a unit of 1; and
`swapBorrowRateMode` takes the mode the debt is in, where `IPool.sol:378` says the
one to swap to.

In the tests, `calculations.ts` differs from the contracts in these cases, each a
definition of `MCExpected`: a repayment of more than the debt is not capped
(`Overpaid`); a bridge fee with no aTokens to share it divides by zero
(`SharedByNobody`); the two utilizations are compared as strings
(`MissortedStrings`); a swap to stable averages stable debts without the interest
since the last update (`StaleStableDebt`); a rebalance with other stable debtors
adds a ray to a wad (`OtherStableDebts`); and, for the user alone (`UserKnown`),
stable and variable principals are exchanged after a deposit, a repayment and a
swap, a borrower gets the variable debt of the whole reserve, and switching the
collateral flag expects no interest.

## 6. Proofs

`ProtocolProofs` proves, for every set of users, assets and categories, every
unit, list size, amount and price, that

    IndInv == TypeOK /\ ListedAtOwnId /\ DebtIsFlagged /\ BonusIsPremium

is an invariant of `Spec` (theorem `Invariance`), hence its four conjuncts
(`TypeCorrect`, `ReservesListedAtOwnId`, `DebtsStayFlagged`, `BonusStaysPremium`).
None is inductive alone:

* that a liquidation takes no more collateral than there is, and no fee above
  what it takes, needs a bonus above 100% (`BonusIsPremium`);
* that a repayment of *one* asset may clear its flag without unflagging another
  debt needs that no two reserves share an id (`ListedAtOwnId`);
* that dropping a reserve leaves no debt unflagged needs that nobody owes it, and
  that a listing does not give a user's old flag a new meaning needs
  `ListedAtOwnId` again;
* everything needs the types.

The proof has one lemma for each action (`SupplyStep`, `BorrowStep`, ...), with a
step for each conjunct the action can disturb, and lemmas for the setters of the
configuration, which all go through `SetConfig`.

`LedgerProofs` proves `Solvent` (`ReservesStaySolvent`) and the refinement
(`ImplementsLedger`).  Both rest on one fact about each action: what it does to the
book of every reserve is one balanced entry there, and nothing in the others
(`Entered`).  Most calls touch one account; a transfer and a liquidation touch two
or three, the treasury among them, so the entry is composed from the changes of
single accounts in the order in which the code makes them.  The refinement needs
`Solvent` in one place, a drop: `validateDropReserve` asks that there are no aTokens
and no debts, and that the book is then empty, unbacked mints included, is what
solvency says.

`LimitProofs` draws the consequences for the limits.  aTokens rise only by a deposit
or an unbacked mint, debts only by a loan, and each of these asks for an active
reserve that is not frozen and for room under the cap; whatever else raises them is
interest or a bridge's fee (`CapsAreRespected`, `FrozenReservesTakeNothing`).
`InactiveIsEmpty` is not inductive: `setReserveActive` asks for no aTokens and does
not look at debts.  Solvency closes the gap (cash and debts are what aTokens claim,
so without claims there is neither), in `IdleReservesAreEmpty`.

The counter of isolated debt is a limit that counts badly, and `LimitProofs` says
exactly when it does not.  Every step of the protocol is shown to be a loan, a payment,
interest, or a step that moves nobody's debt (`EveryStepOwes`), and the exposure of
`IsolatedExposure` is a sum over users of sums over assets of whole ceiling units
(`ExposureStep`).  Under the hypotheses that debts are whole units (`NoDust`; the code
divides each loan and each payment down) and that interest spares the isolated
(`NoIsolatedInterest`; the counter leaves interest out):

* `IsolatedDebtIsCounted`: the counter is at least the exposure, if nobody becomes
  isolated who owes already (`IsolatedWithoutDebt`).  A transfer of aTokens, or the
  aTokens a liquidator chooses to take, enable a collateral for somebody with debts,
  and a liquidation may leave somebody with the isolated one of two collaterals;
* `DebtCeilingHolds`: the exposure then stays below the ceiling, if the risk admin
  lowers a ceiling only to what covers it (`CeilingsCover`; `setDebtCeiling` does not
  look).  `ExposureIsCounted` is what makes it inductive: `executeBorrow` compares the
  counter with the ceiling and not the debts;
* `IsolatedDebtClears`: the counter *is* the exposure, so that the saturation in
  `updateIsolatedDebtIfIsolated` never happens and the counter is zero when nobody
  owes, if nobody who owes leaves isolation either (`IsolationKept`): a borrower does
  when his collateral is all seized or its ceiling is set to zero.

TLC finds that the run `modes` stays within all four hypotheses, and that the first
property fails with the transfers of the scenario `transfers`.

`PositionProofs` follows positions through calls.

* `PausedReservesAreStill`: a call moves the balances of the assets it is about and
  of no others (`Within`), and asks each of them not to be paused; a liquidation is
  about two.
* `UnflaggedDropsCountOnce`: a reserve may be given several slots of the list, but
  only one can ever be flagged, its own, as long as no reserve is dropped while
  somebody has its flag (`FlagsListed` is the invariant).  Without that hypothesis
  `CountedOnce` is not claimed: stale flags are what liquidations with a fee and
  repayments with aTokens leave behind.  The runs check it without the hypothesis,
  in the orders of calls they make.
* `FlagsAreOwedButForLiquidations`: every call that ends a debt clears its flag,
  except a liquidation.  `BorrowingFlagIsOwed` is claimed of behaviours without
  liquidations, as the run `lending` checks it.
* `EModeDebtsStay`: all calls but two leave everybody's mode alone and nobody with
  debt in an asset he did not owe before (`NothingNew`); a loan is checked against
  the category of its asset; and `setUserEMode`, which looks at the borrowing flags
  and not at debts, is right because every debt is flagged (`DebtIsFlagged`) and the
  flag leads through the list to the asset that is owed (`ListedAtOwnId`).
* `HealthIsLostByRiskOnly`: the account data are written as sums over the slots of
  the list, and each change of a position is compared through the average, the two
  products and the quotient of the health factor.  A debt or a worthless collateral
  that goes leaves it no lower (`RelievedIsHealthy`), nor does collateral at no less
  than the average threshold (`EnrichedIsHealthy`); taking collateral out is followed
  by a look at the health (`GiveUpIsHealthy`).  What remains is `TakesRisk(u)`: u
  borrows; u enters a category, which is not followed by such a look; u pays with his
  aTokens, whose health `repayWithATokens` does not look at; or collateral is added
  for u *below* his average threshold.  The last is rounding: the exact health factor
  would grow, but the average is truncated to a hundredth of a percent (here to a
  unit of `PERCENTAGE_FACTOR`) of all the collateral, and the added dust may be
  anybody's transfer.  The theorem needs `DropsUnflagged` again: over a stale flag at
  another slot of a relisted asset, its aTokens count as collateral and
  `validateHFAndLtv` is skipped when they are withdrawn.  `NobodyElseTakesHealth` is
  the property of the runs, while users are exposed to none of these risks.
* `LoansAreHealthyButForThree` and `LoansCoverBonusWithinLtv` are about what
  `validateBorrow` can promise.  It divides debt and loan by the average LTV and
  compares with the collateral; the health factor multiplies the collateral with the
  average threshold.  `RiskOrdered` is the invariant behind both: the LTV of every
  reserve and category is at most its threshold, and that at most 100%, as the
  configurator's check of threshold times bonus implies for a bonus above 100%; so it
  is of the averages (`AveragesOrdered`).  What is checked is the debt plus the loan,
  each truncated; what is owed is their sum, truncated once, and up to one unit more
  (`LoanIsJudged`).  Hence the borrower is left healthy, but in three cases,
  `Misjudged`: the average LTV is zero, and the division by it gives zero
  (`finding_zero_ltv`); the feed of the borrower's category has no price, so that the
  loan is taken to be worth nothing while the debt has the price of its asset; or LTV and
  threshold are less than one unit of account apart at this collateral and the old debt
  in the asset was truncated.  The last is real: with both at 80%, a collateral
  of 10, a debt worth 1.5 that counts as 1 and a loan worth 7.5 that counts as 7,
  8 is within the LTV, 9 is owed, and the health factor is 89%.
* The bonus is not looked at by a loan at all.  A loan leaves at most the largest debt
  that the LTV allows (`LoanStaysWithinLtv`, with the exact bound), so a bonus is
  covered unless that debt at the bonus is more than the collateral (`Oversized`).
  The configurator keeps threshold times bonus of each reserve within 100%, which says
  nothing of the average LTV of a mixed collateral together with the bonus of one of
  its assets: of two equal halves with threshold and LTV 80% and 90%, and bonus 125%
  and 110%, 85% may be borrowed, and 106% of the collateral would be due at the higher
  bonus.
  `JudgedLoansAreHealthy` and `SizedLoansCoverBonus` are the properties of the runs
  `modes` and `administration`, while no loan is one of these cases.  TLC
  finds that none is in either run.
* `LiquidationsKeepCoverUpToRounding`: a step that takes aTokens and debt from the same
  user is a liquidation or his payment with aTokens (`SettledByCall`), and what it takes
  of the one is worth what it takes of the other, with the bonus, up to two units of the
  debt and one of the collateral (`TermsWithinBonus` of the arithmetic).  This covers a
  liquidator who takes the aTokens of his own position, who only loses the fee, the cap
  by the balance, and the part of a debt in each mode.  Valued and truncated, what went
  leaves a covered position covered up to `Rounding`: the bonus on those three units
  and on one unit of account, and two more.  Positions in a category with a feed are
  left out, as a liquidation is priced by the assets' own feeds.  The property of the
  run, with the slack of one unit of the collateral, is
  `FineLiquidationsKeepCover`, while no step is `Coarse`: with tokens of many units the
  rounding is a few units of account, and a unit of collateral priced with many
  decimals is more.  The run `liquidation` has a token of one unit, and its liquidations
  are coarse; there TLC checks what the theorem does not claim.  With a unit of 10
  and the bonus and prices of that run the rounding is at most 39, and never more than
  the price of the collateral, so that none would be.

`ArithmeticProofs` has the facts about operators: results of the fixed-point
operations are natural, monotone in each operand, and within half a unit of the
exact quotient; and the laws of sums over a finite set (a sum of natural numbers is
one, it moves by what one term moves by, it is at least any of its terms, it grows
with them, and terms that are zero may be left out).  For the health factor: a rounded
ratio that is at least one stays so when its numerator grows and its denominator
shrinks (`RatioStaysAboveOne`), and a truncated weighted average does not fall when
something at no less than it is added (`AverageStays`).  For loans: what a division by
the LTV lets through is what the LTV allows (`LoanIsWithin`), which the threshold covers
(`LoanIsCovered`), and an average of percentages is at most 100% (`AverageAtMost`).  For
liquidations: what collateral and debt lose together, and what truncation costs
(`CoverLeft`, `RoundingCovers`).  A sum is
a fold over a set, so these laws cry for induction over the set, which the
provers cannot use in the library's form; they are proved by a counterexample with the smallest
domain instead, which exists because strict inclusion is well-founded on finite sets.
`LiquidationMathProofs` uses the bounds for `SeizedStaysWithinBonus` and
`AskingMoreNeverPaysLess`, for every input.  The second is about a case distinction:
an offer is paid in full until the balance caps it, and then the debt is computed
backwards from the collateral, so the proof compares the two formulas where they meet.

`ReserveProofs` is about one reserve in time, for any strategy, reserve factor,
premium and unit, and any number of users.  Every call is shown to be of one of two
kinds: an `Operation`, which brings the reserve to the present, moves the debts of
some users and sets the rates from what it cached, or a step that lets the reserve
`Rest`; the passage of time is the third kind of step.  `ReserveInv` says that no
clock is ahead of the present, that indexes are at least a ray and that the
protocol's part of a premium is at most the premium.  From it:

* `AccrualNeverUnderflows` and `IndexesNeverFall`, for `ReserveSpec`, which takes every
  natural number as amount, bridges included;
* `NoRepayInOpeningBlock`: the contract compares an index or a timestamp of the user
  with the reserve's.  `OpenedInv` says that a history variable, the block of the
  user's last loan, and that comparison agree;
* `RatesStayFresh`: the rates are those of the books after each step, whatever a
  receiver of a flash loan did in between;
* `UntouchedBalancesGrow`, under the hypothesis that suppliers earn whenever there is
  variable debt (`SuppliersEarn`, an invariant of the run `interest`).  Without it the
  claim is false: with a reserve factor of 100%, or a liquidity rate that rounds to
  0, `_updateIndexes` skips the variable index though `balanceOf` compounds it.

`GovernanceProofs` proves the four invariants of `Governance` for every number of
proxies, implementations, revisions and assets (`GovernanceInvariance` and its
corollaries `ProxiesAreInitialized`, `TokensObeyTheConfigurator`,
`ConfiguratorsFollowThePool`, `PremiumsStaySplit`).  Two of them are not inductive:
that a token obeys the configurator needs that it has been deployed
(`ListedIsDeployed`), or the next proxy made could be a listed token, and that
whatever is deployed was made by somebody (`DeployedHasAdmin`), or the first
configurator registered could change who that should be.  `replaced` is a history variable: no guard
reads it.

The assumptions on constants are the named `ASSUME`s of the modules that declare
them; TLC evaluates them in every run.

Only model-checked:

* `HealthPreserved` for three of the four risks that its theorem sets apart (a loan has
  its own theorem): entering a category, paying with aTokens, and collateral below the
  average threshold, whose truncation the run's numbers do not show.
* `LiquidationKeepsCover` where tokens have few units, as in its run.
* `ClaimsCovered`, `BridgedClaimsCovered` and `DebtsOfOthersAreDelegated`: their slack
  stands for rounding errors that add up with the calls, and grows with the indexes.
* `ReserveAsExpected` and `UserAsExpected`: equality, up to 3 units, of two programs
  that round at different places.
* `CountedOnce`, `BorrowingFlagIsOwed` and `BalancesOnlyGrow` without the hypotheses of
  their theorems.  `ExposureIsCounted`, `CeilingHolds` and `IsolationCounterClears` are
  false without those of theirs.

There is no liveness to prove (section 3).

## 7. What is left, in order

1. `StableDebt` on its own: the total and the average rate against the sum of the
   debts, and when they drift apart.
2. The rate strategy and the compounding approximation over boxes of inputs:
   monotone in the utilization, and never above the exact compound interest.
3. `Reserve` with liquidations, `setReserveFactor` between updates, and several
   assets and nested loans in one flash loan.
4. Isolation mode with liquidations and bridges, as a scenario of `MCModes`.
5. Bit layouts of the configuration words, as sets of positions, against the
   records used here.
6. Roles (`ACLManager`), the grace period of the sentinel.

### Not modelled

* Vendored OpenZeppelin and WETH9, mocks, deployment scripts and the suite's
  set-up (`make-suite.ts`): they run before or below what is described here.
* The incentives controller, which is external; the tokens' calls to it change no
  state of the protocol.
* Of the data provider, what the suite does not read.
* `types.ts` and `contracts-helpers.ts`: declarations and connections to contracts,
  without behaviour of their own.
* The sentinel's clock (`PriceOracleSentinel.sol:47`): whether borrowing is allowed
  is an input.
