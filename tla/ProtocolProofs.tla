--------------------------- MODULE ProtocolProofs ---------------------------
(***************************************************************************)
(* Proofs, for every number of users, assets and reserves, every amount    *)
(* and every configuration, of the invariants that tie the flags of the    *)
(* accounts to the balances and to the list of reserves.                   *)
(***************************************************************************)
EXTENDS Protocol, ArithmeticProofs, FiniteSetTheorems

\* The inductive invariant.  The flags of a debt are kept by a repayment only if
\* no two reserves share an id (ListedAtOwnId), and the balances stay natural
\* numbers in a liquidation only if it has a bonus to pay (BonusIsPremium).
IndInv == TypeOK /\ ListedAtOwnId /\ DebtIsFlagged /\ BonusIsPremium

\* A position of the right shape whose debts are all flagged and whose category,
\* if it has one, has a bonus to pay.
Premium(p) == p.eMode # 0 => categories[p.eMode].bonus > PERCENTAGE_FACTOR
Good(p)    == p \in Account /\ DebtsFlagged(p) /\ Premium(p)

\* q differs from p in its aTokens and its collateral flags only.
SameDebts(p, q) ==
  /\ q.stable = p.stable /\ q.variable = p.variable /\ q.borrowing = p.borrowing
  /\ q.eMode = p.eMode

-----------------------------------------------------------------------------
(* The reserves and their ids.                                              *)

\* The amount charged to a debt ceiling.
LEMMA CeilingAmountIsNat ==
  ASSUME NEW x \in Nat
  PROVE  CeilingAmount(x) \in Nat
  BY QuotientIsNat, UnitsAssumption DEF CeilingAmount

\* The id of a reserve is a position of the list, its own.
LEMMA ListedIds ==
  ASSUME TypeOK, ListedAtOwnId, NEW a \in Assets, reserve[a].listed
  PROVE  /\ Id(a) \in Ids
         /\ \A b \in Assets : reserve[b].listed /\ Id(b) = Id(a) => b = a
<1>1. reservesCount \in Nat /\ reservesCount <= MAX_RESERVES_COUNT
  BY UnitsAssumption DEF TypeOK
<1>2. Id(a) \in Ids
  BY <1>1, UnitsAssumption DEF ListedAtOwnId, Ids
<1>3. ASSUME NEW b \in Assets, reserve[b].listed, Id(b) = Id(a)
      PROVE  b = a
  BY <1>3 DEF ListedAtOwnId
<1>4. QED
  BY <1>2, <1>3

-----------------------------------------------------------------------------
(* The operations on a position.                                            *)

LEMMA SameDebtsStayGood ==
  ASSUME NEW p, Good(p), NEW q \in Account, SameDebts(p, q)
  PROVE  Good(q)
  BY DEF Good, SameDebts, DebtsFlagged, DebtOf, Premium

LEMMA MintATokenGood ==
  ASSUME NEW p, Good(p), NEW a \in Assets, NEW n \in Nat
  PROVE  Good(MintAToken(p, a, n))
<1> DEFINE q == MintAToken(p, a, n)
<1>1. q \in Account /\ SameDebts(p, q)
  BY DEF Good, Account, MintAToken, SameDebts
<1>2. QED
  BY <1>1, SameDebtsStayGood

LEMMA BurnATokenGood ==
  ASSUME NEW p, Good(p), NEW a \in Assets, NEW n \in 0 .. p.aToken[a]
  PROVE  Good(BurnAToken(p, a, n))
<1> DEFINE q == BurnAToken(p, a, n)
<1>1. p.aToken[a] - n \in Nat
  BY DEF Good, Account
<1>2. q \in Account /\ SameDebts(p, q)
  BY <1>1 DEF Good, Account, BurnAToken, SameDebts
<1>3. QED
  BY <1>2, SameDebtsStayGood

LEMMA CollateralFlagGood ==
  ASSUME NEW p, Good(p), NEW a \in Assets, NEW on \in BOOLEAN, on => Id(a) \in Ids
  PROVE  Good(SetUsingAsCollateral(p, a, on))
<1> DEFINE q == SetUsingAsCollateral(p, a, on)
<1>1. q \in Account /\ SameDebts(p, q)
  BY DEF Good, Account, SetUsingAsCollateral, SameDebts
<1>2. QED
  BY <1>1, SameDebtsStayGood

LEMMA EModeGood ==
  ASSUME NEW p, Good(p), NEW c \in Categories \cup {0},
         c # 0 => categories[c].bonus > PERCENTAGE_FACTOR
  PROVE  Good([p EXCEPT !.eMode = c])
<1> DEFINE q == [p EXCEPT !.eMode = c]
<1>1. /\ q \in Account /\ q.eMode = c
      /\ q.stable = p.stable /\ q.variable = p.variable /\ q.borrowing = p.borrowing
  BY DEF Good, Account
<1>2. QED
  BY <1>1 DEF Good, DebtsFlagged, DebtOf, Premium

\* New debt in a reserve whose flag is set, or is set with it.
LEMMA MintDebtGood ==
  ASSUME NEW p, Good(p), NEW a \in Assets, NEW n \in Nat, NEW mode \in Modes,
         reserve[a].listed, Id(a) \in p.borrowing
  PROVE  Good(MintDebt(p, a, n, mode))
<1> DEFINE q == MintDebt(p, a, n, mode)
<1>1. q \in Account /\ q.borrowing = p.borrowing /\ q.eMode = p.eMode
  BY DEF Good, Account, MintDebt, Modes
<1>2. \A b \in Assets : b # a => DebtOf(q, b) = DebtOf(p, b)
  BY DEF Good, Account, MintDebt, DebtOf, Modes
<1>3. DebtsFlagged(q)
  BY <1>1, <1>2 DEF Good, DebtsFlagged
<1>4. QED
  BY <1>1, <1>3 DEF Good, Premium

LEMMA BurnDebtGood ==
  ASSUME NEW p, Good(p), NEW a \in Assets, NEW mode \in Modes, NEW n \in 0 .. p[mode][a]
  PROVE  /\ Good(BurnDebt(p, a, n, mode))
         /\ BurnDebt(p, a, n, mode).aToken = p.aToken
         /\ DebtOf(BurnDebt(p, a, n, mode), a) = DebtOf(p, a) - n
<1> DEFINE q == BurnDebt(p, a, n, mode)
<1>1. n \in Nat /\ p[mode][a] - n \in Nat
  BY DEF Good, Account, Modes
<1>2. q \in Account /\ q.borrowing = p.borrowing /\ q.eMode = p.eMode /\ q.aToken = p.aToken
  BY <1>1 DEF Good, Account, BurnDebt, Modes
<1>3. \A b \in Assets : DebtOf(q, b) = IF b = a THEN DebtOf(p, b) - n ELSE DebtOf(p, b)
  BY <1>1 DEF Good, Account, BurnDebt, DebtOf, Modes
<1>4. \A b \in Assets : DebtOf(q, b) \in Nat /\ DebtOf(p, b) \in Nat
  BY <1>2 DEF Good, Account, DebtOf
<1>5. DebtsFlagged(q)
  BY <1>1, <1>2, <1>3, <1>4 DEF Good, DebtsFlagged
<1>6. QED
  BY <1>2, <1>3, <1>5 DEF Good, Premium

\* A loan flags the reserve, or finds it flagged by the debt that is there.
LEMMA BorrowForGood ==
  ASSUME NEW p, Good(p), NEW a \in Assets, NEW n \in Nat, NEW mode \in Modes,
         reserve[a].listed, Id(a) \in Ids
  PROVE  Good(BorrowFor(p, a, n, mode))
<1> DEFINE q == MintDebt(p, a, n, mode)
           r == BorrowFor(p, a, n, mode)
<1>1. CASE p[mode][a] = 0
  <2>1. q \in Account /\ q.borrowing = p.borrowing /\ q.eMode = p.eMode
    BY DEF Good, Account, MintDebt, Modes
  <2>2. r = SetBorrowing(q, a, TRUE)
    BY <1>1 DEF BorrowFor
  <2>3. /\ r \in Account
        /\ r.borrowing = p.borrowing \cup {Id(a)}
        /\ r.stable = q.stable /\ r.variable = q.variable /\ r.eMode = p.eMode
    BY <2>1, <2>2 DEF Account, SetBorrowing
  <2>4. \A b \in Assets : b # a => DebtOf(r, b) = DebtOf(p, b)
    BY <2>3 DEF Good, Account, MintDebt, DebtOf, Modes
  <2>5. DebtsFlagged(r)
    BY <2>3, <2>4 DEF Good, DebtsFlagged
  <2>6. QED
    BY <2>3, <2>5 DEF Good, Premium
<1>2. CASE p[mode][a] # 0
  <2>1. DebtOf(p, a) > 0
    BY <1>2 DEF Good, Account, DebtOf, Modes
  <2>2. Id(a) \in p.borrowing
    BY <2>1 DEF Good, DebtsFlagged
  <2>3. QED
    BY <1>2, <2>2, MintDebtGood DEF BorrowFor
<1>3. QED
  BY <1>1, <1>2

\* A repayment clears the flag only when nothing is owed in either mode, and it
\* is the flag of no other reserve.
LEMMA RepayOfGood ==
  ASSUME TypeOK, ListedAtOwnId,
         NEW p, Good(p), NEW a \in Assets, NEW mode \in Modes, NEW n \in 0 .. p[mode][a],
         reserve[a].listed
  PROVE  /\ Good(RepayOf(p, a, n, mode))
         /\ RepayOf(p, a, n, mode).aToken = p.aToken
<1> DEFINE q == BurnDebt(p, a, n, mode)
           r == RepayOf(p, a, n, mode)
<1>1. Good(q) /\ q.aToken = p.aToken /\ DebtOf(q, a) = DebtOf(p, a) - n
  BY BurnDebtGood
<1>2. CASE DebtOf(p, a) = n
  <2>1. r = SetBorrowing(q, a, FALSE)
    BY <1>2 DEF RepayOf
  <2>2. /\ r \in Account
        /\ r.borrowing = q.borrowing \ {Id(a)}
        /\ r.stable = q.stable /\ r.variable = q.variable
        /\ r.eMode = q.eMode /\ r.aToken = p.aToken
    BY <1>1, <2>1 DEF Good, Account, SetBorrowing
  <2>3. ASSUME NEW b \in Assets, DebtOf(r, b) > 0
        PROVE  reserve[b].listed /\ Id(b) \in r.borrowing
    <3>1. DebtOf(q, b) > 0
      BY <2>2, <2>3 DEF DebtOf
    <3>2. b # a
      BY <1>1, <1>2, <3>1 DEF Good, Account, DebtOf
    <3>3. reserve[b].listed /\ Id(b) \in q.borrowing
      BY <1>1, <3>1 DEF Good, DebtsFlagged
    <3>4. Id(b) # Id(a)
      BY <3>2, <3>3, ListedIds
    <3>5. QED
      BY <2>2, <3>3, <3>4
  <2>4. QED
    BY <1>1, <2>2, <2>3 DEF Good, DebtsFlagged, Premium
<1>3. CASE DebtOf(p, a) # n
  BY <1>1, <1>3 DEF RepayOf
<1>4. QED
  BY <1>2, <1>3

\* The debt of one mode moved to the other.
LEMMA SwapDebtGood ==
  ASSUME NEW p, Good(p), NEW a \in Assets, NEW mode \in Modes, p[mode][a] > 0
  PROVE  LET q == MintDebt(BurnDebt(p, a, p[mode][a], mode), a, p[mode][a], OtherMode(mode))
         IN Good(q)
<1> DEFINE n == p[mode][a]
           q == BurnDebt(p, a, n, mode)
<1>1. n \in Nat /\ DebtOf(p, a) > 0 /\ n \in 0 .. p[mode][a]
  BY DEF Good, Account, DebtOf, Modes
<1>2. Good(q)
  BY <1>1, BurnDebtGood
<1>3. reserve[a].listed /\ Id(a) \in p.borrowing
  BY <1>1 DEF Good, DebtsFlagged
<1>4. q.borrowing = p.borrowing
  BY DEF Good, Account, BurnDebt, Modes
<1>5. OtherMode(mode) \in Modes
  BY DEF OtherMode, Modes
<1>6. QED
  BY <1>1, <1>2, <1>3, <1>4, <1>5, MintDebtGood

\* A liquidation: debt burnt in both modes, collateral taken, the collateral flag
\* cleared when all of it went to the liquidator.
LEMMA LiquidatedPositionGood ==
  ASSUME NEW p, Good(p), NEW c \in Assets, NEW d \in Assets, NEW all \in BOOLEAN,
         NEW terms, terms.debt \in 0 .. DebtOf(p, d), terms.seized \in 0 .. p.aToken[c]
  PROVE  Good(LiquidatedPosition(p, c, d, terms, all))
<1> DEFINE n == Least(terms.debt, p.variable[d])
           m == terms.debt - n
           q == BurnDebt(p, d, n, "variable")
           r == BurnDebt(q, d, m, "stable")
           s == BurnAToken(r, c, terms.seized)
<1>1. /\ n \in 0 .. p["variable"][d] /\ m \in 0 .. p["stable"][d]
      /\ "variable" \in Modes /\ "stable" \in Modes
  BY DEF Least, Good, Account, DebtOf, Modes
<1>2. Good(q) /\ q.aToken = p.aToken
  BY <1>1, BurnDebtGood
<1>3. q["stable"] = p["stable"]
  BY DEF Good, Account, BurnDebt
<1>4. Good(r) /\ r.aToken = p.aToken
  BY <1>1, <1>2, <1>3, BurnDebtGood
<1>5. Good(s)
  BY <1>4, BurnATokenGood
<1>6. Good(SetUsingAsCollateral(s, c, FALSE))
  BY <1>5, CollateralFlagGood
<1>7. QED
  BY <1>5, <1>6 DEF LiquidatedPosition, BurnLiquidated

\* What an account becomes when it supplies, gives up or receives aTokens.
LEMMA SupplyToGood ==
  ASSUME NEW p, Good(p), NEW a \in Assets, NEW n \in Nat, Id(a) \in Ids
  PROVE  Good(SupplyTo(p, a, n))
  BY MintATokenGood, CollateralFlagGood DEF SupplyTo

LEMMA GiveUpGood ==
  ASSUME NEW p, Good(p), NEW a \in Assets, NEW n \in 0 .. p.aToken[a]
  PROVE  Good(GiveUp(p, a, n))
  BY BurnATokenGood, CollateralFlagGood DEF GiveUp

LEMMA ReceiveTransferGood ==
  ASSUME NEW p, Good(p), NEW a \in Assets, NEW n \in Nat, Id(a) \in Ids
  PROVE  Good(ReceiveTransfer(p, a, n))
  BY MintATokenGood, CollateralFlagGood DEF ReceiveTransfer

LEMMA ReceiveLiquidatedGood ==
  ASSUME NEW p, Good(p), NEW a \in Assets, NEW n \in Nat, NEW first \in BOOLEAN, Id(a) \in Ids
  PROVE  Good(ReceiveLiquidated(p, a, n, first))
  BY MintATokenGood, CollateralFlagGood DEF ReceiveLiquidated

LEMMA MintUnbackedToGood ==
  ASSUME NEW p, Good(p), NEW a \in Assets, NEW n \in Nat, Id(a) \in Ids
  PROVE  Good(MintUnbackedTo(p, a, n))
  BY MintATokenGood, CollateralFlagGood DEF MintUnbackedTo

\* The liquidator, if he is the liquidated user too, has the same debts after he
\* received aTokens, and no less of the collateral.
LEMMA ReceiveLiquidatedKeeps ==
  ASSUME NEW p, Good(p), NEW a \in Assets, NEW n \in Nat, NEW first \in BOOLEAN
  PROVE  LET q == ReceiveLiquidated(p, a, n, first)
         IN /\ q.stable = p.stable /\ q.variable = p.variable
            /\ q.aToken[a] = p.aToken[a] + n
<1> DEFINE q == MintAToken(p, a, n)
           r == SetUsingAsCollateral(q, a, TRUE)
<1>1. /\ q.stable = p.stable /\ q.variable = p.variable /\ q.aToken[a] = p.aToken[a] + n
      /\ q \in Account
  BY DEF Good, Account, MintAToken
<1> HIDE DEF q
<1>2. r.stable = q.stable /\ r.variable = q.variable /\ r.aToken = q.aToken
  BY <1>1 DEF Account, SetUsingAsCollateral
<1>3. ReceiveLiquidated(p, a, n, first) = IF first THEN r ELSE q
  BY DEF ReceiveLiquidated, q
<1> HIDE DEF r
<1>4. QED
  BY <1>1, <1>2, <1>3

-----------------------------------------------------------------------------
(* The isolation counters.                                                  *)

\* The asset a position is isolated on has a reserve: only a listed asset may
\* have a debt ceiling.
LEMMA IsolationAssetListed ==
  ASSUME TypeOK, ListedAtOwnId, NEW p \in Account, IsolationAsset(p) # None
  PROVE  IsolationAsset(p) \in Assets /\ reserve[IsolationAsset(p)].listed
<1> DEFINE i == CHOOSE i \in p.collateral : TRUE
           a == reservesList[i]
<1>1. Cardinality(p.collateral) = 1 /\ a # None /\ config[a].ceiling > 0
      /\ IsolationAsset(p) = a
  BY DEF IsolationAsset
<1>2. p.collateral # {}
  BY <1>1, FS_EmptySet
<1>3. i \in Ids
  BY <1>2 DEF Account
<1>4. a \in Assets
  BY <1>1, <1>3 DEF TypeOK
<1>5. reserve[a].listed
  BY <1>1, <1>4 DEF ListedAtOwnId
<1>6. QED
  BY <1>1, <1>4, <1>5

\* A step on the reserves that only moves counters of reserves that exist.
CountersOnly ==
  /\ reserve' \in [Assets -> ReserveData]
  /\ \A a \in Assets :
       /\ reserve'[a].listed = reserve[a].listed
       /\ reserve'[a].id = reserve[a].id
       /\ ~reserve[a].listed => reserve'[a] = reserve[a]

LEMMA ChargeIsolationCounts ==
  ASSUME TypeOK, ListedAtOwnId, NEW p \in Account, NEW n \in Nat,
         reserve' = ChargeIsolation(p, n)
  PROVE  CountersOnly
<1> DEFINE c == IsolationAsset(p)
<1>1. CASE c = None
  BY <1>1 DEF ChargeIsolation, CountersOnly, TypeOK
<1>2. CASE c # None
  <2>1. c \in Assets /\ reserve[c].listed
    BY <1>2, IsolationAssetListed
  <2> DEFINE m == CeilingAmount(n)
  <2>2. m \in Nat
    BY CeilingAmountIsNat
  <2> HIDE DEF c, m
  <2>3. reserve' = [reserve EXCEPT ![c].isolationDebt = @ + m]
    BY <1>2 DEF ChargeIsolation, c, m
  <2>4. QED
    BY <2>1, <2>2, <2>3 DEF CountersOnly, TypeOK, ReserveData
<1>3. QED
  BY <1>1, <1>2

LEMMA ReleaseIsolationCounts ==
  ASSUME TypeOK, ListedAtOwnId, NEW p \in Account, NEW n \in Nat,
         reserve' = ReleaseIsolation(p, n)
  PROVE  CountersOnly
<1> DEFINE c == IsolationAsset(p)
<1>1. CASE c = None
  BY <1>1 DEF ReleaseIsolation, CountersOnly, TypeOK
<1>2. CASE c # None
  <2>1. c \in Assets /\ reserve[c].listed
    BY <1>2, IsolationAssetListed
  <2> DEFINE m == CeilingAmount(n)
             left == IF reserve[c].isolationDebt <= m THEN 0 ELSE reserve[c].isolationDebt - m
  <2>2. m \in Nat /\ reserve[c].isolationDebt \in Nat
    BY <2>1, CeilingAmountIsNat DEF TypeOK, ReserveData
  <2>3. left \in Nat
    BY <2>2
  <2> HIDE DEF c, left
  <2>4. reserve' = [reserve EXCEPT ![c].isolationDebt = left]
    BY <1>2 DEF ReleaseIsolation, c, left
  <2>5. QED
    BY <2>1, <2>3, <2>4 DEF CountersOnly, TypeOK, ReserveData
<1>3. QED
  BY <1>1, <1>2

-----------------------------------------------------------------------------
(* The calls of users, one lemma for each.                                  *)

AllGood(accounts) ==
  accounts \in [Accounts -> Account] /\ \A x \in Accounts : Good(accounts[x])

LEMMA AccountsAreGood ==
  ASSUME IndInv
  PROVE  AllGood(account)
  BY DEF IndInv, TypeOK, DebtIsFlagged, BonusIsPremium, AllGood, Good, Premium

LEMMA OneMoreGood ==
  ASSUME NEW accounts, AllGood(accounts), NEW u \in Accounts, NEW q, Good(q)
  PROVE  AllGood([accounts EXCEPT ![u] = q])
<1>1. q \in Account
  BY DEF Good
<1>2. QED
  BY <1>1 DEF AllGood

\* A call that moves counters and balances, and leaves every position good,
\* preserves the invariant.
LEMMA CallStep ==
  ASSUME IndInv, CountersOnly, unchangedConfig, unchangedMarket,
         liquidity' \in [Assets -> Nat],
         AllGood(account')
  PROVE  IndInv'
<1> USE DEF unchangedConfig, unchangedMarket, AllGood
<1>1. TypeOK'
  BY DEF IndInv, TypeOK, CountersOnly, Good
<1>2. ListedAtOwnId'
  <2>1. ASSUME NEW a \in Assets
        PROVE  (IF reserve[a].listed THEN Id(a) \in 0 .. reservesCount - 1 /\ reservesList[Id(a)] = a
                                    ELSE reserve[a] = NoReserve /\ config[a].ceiling = 0)'
    <3>1. CASE reserve[a].listed
      BY <3>1 DEF IndInv, ListedAtOwnId, CountersOnly, Id
    <3>2. CASE ~reserve[a].listed
      BY <3>2 DEF IndInv, ListedAtOwnId, CountersOnly
    <3>3. QED
      BY <3>1, <3>2
  <2>2. QED
    BY <2>1 DEF IndInv, ListedAtOwnId
<1>3. DebtIsFlagged'
  <2>1. ASSUME NEW x \in Accounts, NEW a \in Assets, DebtOf(account[x], a)' > 0
        PROVE  reserve'[a].listed /\ Id(a)' \in account'[x].borrowing
    <3>1. DebtOf(account'[x], a) > 0
      BY <2>1 DEF DebtOf
    <3>2. reserve[a].listed /\ Id(a) \in account'[x].borrowing
      BY <3>1 DEF Good, DebtsFlagged
    <3>3. QED
      BY <3>2 DEF CountersOnly, Id
  <2>2. QED
    BY <2>1 DEF DebtIsFlagged, DebtsFlagged
<1>4. BonusIsPremium'
  BY DEF IndInv, BonusIsPremium, Good, Premium
<1>5. QED
  BY <1>1, <1>2, <1>3, <1>4 DEF IndInv

LEMMA NoCounters ==
  ASSUME TypeOK, UNCHANGED reserve
  PROVE  CountersOnly
  BY DEF CountersOnly, TypeOK

LEMMA Balances ==
  ASSUME IndInv, NEW x \in Accounts, NEW a \in Assets
  PROVE  /\ account[x].aToken[a] \in Nat /\ liquidity[a] \in Nat /\ DebtOf(account[x], a) \in Nat
         /\ \A mode \in Modes : account[x][mode][a] \in Nat
  BY DEF IndInv, TypeOK, Account, DebtOf, Modes

LEMMA SupplyStep ==
  ASSUME IndInv, NEW u \in Users, NEW a \in Assets, NEW n \in Amounts, Supply(u, a, n)
  PROVE  IndInv'
<1>1. n \in Nat /\ u \in Accounts
  BY InputsAssumption DEF Accounts
<1>2. Id(a) \in Ids
  BY ListedIds DEF Supply, ValidateSupply, Active, IndInv
<1>3. AllGood(account) /\ Good(account[u])
  BY <1>1, AccountsAreGood DEF AllGood
<1>4. Good(SupplyTo(account[u], a, n))
  BY <1>1, <1>2, <1>3, SupplyToGood
<1>5. AllGood(account')
  BY <1>1, <1>3, <1>4, OneMoreGood DEF Supply
<1>6. liquidity' \in [Assets -> Nat]
  BY <1>1 DEF Supply, IndInv, TypeOK
<1>7. QED
  BY <1>5, <1>6, CallStep, NoCounters DEF Supply, IndInv

LEMMA WithdrawStep ==
  ASSUME IndInv, NEW u \in Users, NEW a \in Assets, NEW n \in Amounts \cup {account[u].aToken[a]},
         Withdraw(u, a, n)
  PROVE  IndInv'
<1>1. u \in Accounts
  BY DEF Accounts
<1>2. n \in 0 .. account[u].aToken[a] /\ liquidity[a] - n \in Nat
  <2>1. account[u].aToken[a] \in Nat /\ liquidity[a] \in Nat
    BY <1>1, Balances
  <2>2. n \in Nat /\ n <= account[u].aToken[a] /\ n <= liquidity[a]
    BY <2>1, InputsAssumption DEF Withdraw, ValidateWithdraw
  <2>3. QED
    BY <2>1, <2>2
<1>3. AllGood(account) /\ Good(account[u])
  BY <1>1, AccountsAreGood DEF AllGood
<1>4. Good(GiveUp(account[u], a, n))
  BY <1>2, <1>3, GiveUpGood
<1>5. AllGood(account')
  BY <1>1, <1>3, <1>4, OneMoreGood DEF Withdraw
<1>6. liquidity' \in [Assets -> Nat]
  BY <1>2 DEF Withdraw, IndInv, TypeOK
<1>7. QED
  BY <1>5, <1>6, CallStep, NoCounters DEF Withdraw, IndInv

LEMMA TransferStep ==
  ASSUME IndInv, NEW u \in Users, NEW to \in Accounts, NEW a \in Assets,
         NEW n \in Amounts \cup {account[u].aToken[a]}, Transfer(u, to, a, n)
  PROVE  IndInv'
<1> DEFINE sender   == GiveUp(account[u], a, n)
           receiver == ReceiveTransfer(account[to], a, n)
           paid     == [account EXCEPT ![u] = sender]
<1>1. u \in Accounts /\ u # to
  BY DEF Accounts, Transfer
<1>2. n \in 0 .. account[u].aToken[a] /\ n \in Nat
  <2>1. account[u].aToken[a] \in Nat
    BY <1>1, Balances
  <2>2. n \in Nat /\ n <= account[u].aToken[a]
    BY <2>1, InputsAssumption DEF Transfer
  <2>3. QED
    BY <2>1, <2>2
<1>3. Id(a) \in Ids
  BY ListedIds DEF Transfer, ValidateTransfer, IndInv
<1>4. AllGood(account) /\ Good(account[u]) /\ Good(account[to])
  BY <1>1, AccountsAreGood DEF AllGood
<1>5. Good(sender) /\ Good(receiver)
  BY <1>2, <1>3, <1>4, GiveUpGood, ReceiveTransferGood
<1>6. AllGood(paid)
  BY <1>1, <1>4, <1>5, OneMoreGood
<1> HIDE DEF sender, receiver
<1>7. account' = [paid EXCEPT ![to] = receiver]
  <2>1. account' = [account EXCEPT ![u] = sender, ![to] = receiver]
    BY <1>1, <1>4 DEF Transfer, AllGood, sender, receiver
  <2>2. QED
    BY <2>1
<1>8. AllGood(account')
  BY <1>5, <1>6, <1>7, OneMoreGood
<1>9. liquidity' \in [Assets -> Nat]
  BY DEF Transfer, IndInv, TypeOK
<1>10. QED
  BY <1>8, <1>9, CallStep, NoCounters DEF Transfer, IndInv

LEMMA SetUserUseReserveAsCollateralStep ==
  ASSUME IndInv, NEW u \in Users, NEW a \in Assets, NEW use \in BOOLEAN,
         SetUserUseReserveAsCollateral(u, a, use)
  PROVE  IndInv'
<1>1. u \in Accounts
  BY DEF Accounts
<1>2. Id(a) \in Ids
  BY ListedIds
     DEF SetUserUseReserveAsCollateral, ValidateSetUseReserveAsCollateral, Active, IndInv
<1>3. AllGood(account) /\ Good(account[u])
  BY <1>1, AccountsAreGood DEF AllGood
<1>4. Good(SetUsingAsCollateral(account[u], a, use))
  BY <1>2, <1>3, CollateralFlagGood
<1>5. AllGood(account')
  BY <1>1, <1>3, <1>4, OneMoreGood DEF SetUserUseReserveAsCollateral
<1>6. liquidity' \in [Assets -> Nat]
  BY DEF SetUserUseReserveAsCollateral, IndInv, TypeOK
<1>7. QED
  BY <1>5, <1>6, CallStep, NoCounters DEF SetUserUseReserveAsCollateral, IndInv

LEMMA BorrowStep ==
  ASSUME IndInv, NEW u \in Users, NEW a \in Assets, NEW n \in Amounts, NEW mode \in Modes,
         Borrow(u, a, n, mode)
  PROVE  IndInv'
<1>1. u \in Accounts /\ n \in Nat
  BY InputsAssumption DEF Accounts
<1>2. reserve[a].listed /\ Id(a) \in Ids
  BY ListedIds DEF Borrow, ValidateBorrow, Active, IndInv
<1>3. AllGood(account) /\ Good(account[u]) /\ account[u] \in Account
  BY <1>1, AccountsAreGood DEF AllGood
<1>4. Good(BorrowFor(account[u], a, n, mode))
  BY <1>1, <1>2, <1>3, BorrowForGood
<1>5. AllGood(account')
  BY <1>1, <1>3, <1>4, OneMoreGood DEF Borrow
<1>6. CountersOnly
  BY <1>1, <1>3, ChargeIsolationCounts DEF Borrow, IndInv
<1>7. liquidity' \in [Assets -> Nat]
  <2>1. liquidity[a] \in Nat
    BY <1>1, Balances
  <2>2. liquidity[a] - n \in Nat
    BY <1>1, <2>1 DEF Borrow
  <2>3. QED
    BY <2>2 DEF Borrow, IndInv, TypeOK
<1>8. QED
  BY <1>5, <1>6, <1>7, CallStep DEF Borrow

\* What a repayment pays back is owed.
LEMMA PaybackIsOwed ==
  ASSUME IndInv, NEW u \in Accounts, NEW a \in Assets, NEW mode \in Modes,
         NEW n \in Amounts \cup {account[u][mode][a]}
  PROVE  /\ Payback(account[u], a, n, mode) \in Nat
         /\ Payback(account[u], a, n, mode) \in 0 .. account[u][mode][a]
<1>1. account[u][mode][a] \in Nat
  BY Balances
<1>2. n \in Nat
  BY <1>1, InputsAssumption
<1>3. QED
  BY <1>1, <1>2 DEF Payback, Least

LEMMA RepayStep ==
  ASSUME IndInv, NEW u \in Users, NEW a \in Assets, NEW mode \in Modes,
         NEW n \in Amounts \cup {account[u][mode][a]}, Repay(u, a, n, mode)
  PROVE  IndInv'
<1> DEFINE payback == Payback(account[u], a, n, mode)
<1>1. u \in Accounts
  BY DEF Accounts
<1>2. payback \in Nat /\ payback \in 0 .. account[u][mode][a]
  BY <1>1, PaybackIsOwed
<1>3. AllGood(account) /\ Good(account[u]) /\ account[u] \in Account
  BY <1>1, AccountsAreGood DEF AllGood
<1> HIDE DEF payback
<1>4. /\ reserve[a].listed
      /\ account' = [account EXCEPT ![u] = RepayOf(@, a, payback, mode)]
      /\ reserve' = ReleaseIsolation(account[u], payback)
      /\ liquidity' = [liquidity EXCEPT ![a] = @ + payback]
      /\ unchangedConfig /\ unchangedMarket
  BY DEF Repay, ValidateRepay, Active, payback
<1>5. Good(RepayOf(account[u], a, payback, mode))
  BY <1>2, <1>3, <1>4, RepayOfGood DEF IndInv
<1>6. AllGood(account')
  BY <1>1, <1>3, <1>4, <1>5, OneMoreGood
<1>7. CountersOnly
  BY <1>2, <1>3, <1>4, ReleaseIsolationCounts DEF IndInv
<1>8. liquidity' \in [Assets -> Nat]
  BY <1>2, <1>4 DEF IndInv, TypeOK
<1>9. QED
  BY <1>4, <1>6, <1>7, <1>8, CallStep

\* The sender of the aTokens may be the one whose debt they pay.
LEMMA RepayWithATokensStep ==
  ASSUME IndInv, NEW sender \in Users, NEW u \in Users, NEW a \in Assets, NEW mode \in Modes,
         NEW n \in Amounts \cup {account[u][mode][a]}, RepayWithATokens(sender, u, a, n, mode)
  PROVE  IndInv'
<1> DEFINE payback == Payback(account[u], a, n, mode)
           debtor  == RepayOf(account[u], a, payback, mode)
           repaid  == [account EXCEPT ![u] = debtor]
<1>1. u \in Accounts /\ sender \in Accounts
  BY DEF Accounts
<1>2. payback \in Nat /\ payback \in 0 .. account[u][mode][a]
  BY <1>1, PaybackIsOwed
<1>3. AllGood(account) /\ Good(account[u]) /\ account[u] \in Account
  BY <1>1, AccountsAreGood DEF AllGood
<1> HIDE DEF payback
<1>4. /\ reserve[a].listed
      /\ payback <= account[sender].aToken[a]
      /\ account' = [repaid EXCEPT ![sender] = BurnAToken(@, a, payback)]
      /\ reserve' = ReleaseIsolation(account[u], payback)
      /\ UNCHANGED liquidity /\ unchangedConfig /\ unchangedMarket
  BY DEF RepayWithATokens, ValidateRepay, Active, payback
<1>5. Good(debtor) /\ debtor.aToken = account[u].aToken
  BY <1>2, <1>3, <1>4, RepayOfGood DEF IndInv
<1>6. AllGood(repaid)
  BY <1>1, <1>3, <1>5, OneMoreGood
<1> HIDE DEF debtor
<1>7. payback \in 0 .. repaid[sender].aToken[a]
  <2>1. repaid[sender].aToken = account[sender].aToken
    BY <1>1, <1>3, <1>5 DEF AllGood
  <2>2. account[sender].aToken[a] \in Nat
    BY <1>1, Balances
  <2>3. QED
    BY <1>2, <1>4, <2>1, <2>2
<1> DEFINE paying == BurnAToken(repaid[sender], a, payback)
<1>8. Good(repaid[sender])
  BY <1>1, <1>6 DEF AllGood
<1>9. Good(paying)
  BY <1>7, <1>8, BurnATokenGood
<1>10. account' = [repaid EXCEPT ![sender] = paying]
  BY <1>4
<1>11. AllGood(account')
  BY <1>1, <1>6, <1>9, <1>10, OneMoreGood
<1>12. CountersOnly
  BY <1>2, <1>3, <1>4, ReleaseIsolationCounts DEF IndInv
<1>13. liquidity' \in [Assets -> Nat]
  BY <1>4 DEF IndInv, TypeOK
<1>14. QED
  BY <1>4, <1>11, <1>12, <1>13, CallStep

LEMMA SwapBorrowRateModeStep ==
  ASSUME IndInv, NEW u \in Users, NEW a \in Assets, NEW mode \in Modes,
         SwapBorrowRateMode(u, a, mode)
  PROVE  IndInv'
<1>1. u \in Accounts
  BY DEF Accounts
<1>2. AllGood(account) /\ Good(account[u])
  BY <1>1, AccountsAreGood DEF AllGood
<1> DEFINE debt == account[u][mode][a]
           q    == MintDebt(BurnDebt(account[u], a, debt, mode), a, debt, OtherMode(mode))
<1>3. Good(q)
  BY <1>2, SwapDebtGood DEF SwapBorrowRateMode, ValidateSwapRateMode
<1>4. account' = [account EXCEPT ![u] = q]
  BY DEF SwapBorrowRateMode
<1>5. AllGood(account')
  BY <1>1, <1>2, <1>3, <1>4, OneMoreGood
<1>6. liquidity' \in [Assets -> Nat]
  BY DEF SwapBorrowRateMode, IndInv, TypeOK
<1>7. QED
  BY <1>5, <1>6, CallStep, NoCounters DEF SwapBorrowRateMode, IndInv

-----------------------------------------------------------------------------
(* Liquidations.                                                            *)

\* A liquidation is given prices that are not zero and a bonus above 100%.
LEMMA LiquidationInputs ==
  ASSUME IndInv, NEW u \in Accounts, NEW c \in Assets, NEW d \in Assets, NEW n \in Nat,
         PricesAllow(c, d), config[c].lt > 0
  PROVE  LET terms == Terms(account[u], c, d, n)
         IN /\ terms.seized \in 0 .. account[u].aToken[c]
            /\ terms.fee \in Nat
            /\ terms.debt \in Nat
<1> DEFINE p     == account[u]
           cover == Least(n, PercentMul(DebtOf(p, d), CloseFactor(p)))
           bonus == LiquidationBonus(p, c)
           q     == [collateralPrice |-> price[c], debtPrice |-> price[d],
                     fee |-> config[c].fee, debtToCover |-> cover,
                     balance |-> p.aToken[c], bonus |-> bonus]
<1>1. CloseFactor(p) \in Nat
  BY PercentageAssumption, QuotientIsNat
     DEF CloseFactor, DEFAULT_LIQUIDATION_CLOSE_FACTOR, MAX_LIQUIDATION_CLOSE_FACTOR
<1>2. DebtOf(p, d) \in Nat /\ p.aToken[c] \in Nat
  BY Balances
<1>3. PercentMul(DebtOf(p, d), CloseFactor(p)) \in Nat
  BY <1>1, <1>2, PercentMulIsNat
<1>4. cover \in Nat
  BY <1>3 DEF Least
<1>5. bonus \in Nat /\ bonus > PERCENTAGE_FACTOR
  <2>1. CASE p.eMode = 0
    BY <2>1 DEF LiquidationBonus, IndInv, TypeOK, BonusIsPremium, ReserveConfig
  <2>2. CASE p.eMode # 0
    <3>1. p.eMode \in Categories \cup {0}
      BY DEF IndInv, TypeOK, Account
    <3>2. QED
      BY <2>2, <3>1 DEF LiquidationBonus, IndInv, TypeOK, BonusIsPremium, Category
  <2>3. QED
    BY <2>1, <2>2
<1>6. /\ price[c] \in Nat \ {0} /\ price[d] \in Nat \ {0}
      /\ config[c].fee \in Nat
  BY DEF PricesAllow, IndInv, TypeOK, ReserveConfig
<1> HIDE DEF p, cover, bonus
<1>7. q \in LiquidationInput /\ q.bonus >= PERCENTAGE_FACTOR
  BY <1>2, <1>4, <1>5, <1>6, PercentageAssumption DEF LiquidationInput
<1>8. Terms(p, c, d, n) = LiquidationTerms(q)
  BY DEF Terms, cover, bonus
<1>9. q.balance = p.aToken[c] /\ q.debtToCover = cover
  OBVIOUS
<1> HIDE DEF q
<1>10. /\ LiquidationTerms(q).seized \in 0 .. q.balance
       /\ LiquidationTerms(q).fee \in Nat
       /\ LiquidationTerms(q).debt \in 0 .. q.debtToCover
  BY <1>7, LiquidationTermsBounds
<1>11. QED
  BY <1>4, <1>8, <1>9, <1>10 DEF p

LEMMA LiquidationCallStep ==
  ASSUME IndInv, NEW l \in Users, NEW u \in Users, NEW c \in Assets, NEW d \in Assets,
         NEW n \in Amounts, NEW receive \in BOOLEAN, LiquidationCall(l, u, c, d, n, receive)
  PROVE  IndInv'
<1> DEFINE p     == account[u]
           terms == Terms(p, c, d, n)
           toLiquidator == terms.seized - terms.fee
           first == account[l].aToken[c] = 0
           all   == toLiquidator = p.aToken[c]
           received == IF receive
                       THEN [account EXCEPT ![l] = ReceiveLiquidated(@, c, toLiquidator, first)]
                       ELSE account
           taken  == [received EXCEPT ![u] = LiquidatedPosition(@, c, d, terms, all)]
           paidIn == [liquidity EXCEPT ![d] = @ + terms.debt]
<1>1. l \in Accounts /\ u \in Accounts /\ Treasury \in Accounts /\ n \in Nat
  BY InputsAssumption DEF Accounts
<1>2. /\ reserve[c].listed /\ reserve[d].listed /\ config[c].lt > 0 /\ PricesAllow(c, d)
      /\ terms.debt <= DebtOf(p, d) /\ terms.fee <= terms.seized
      /\ reserve' = ReleaseIsolation(p, terms.debt)
      /\ account' = [taken EXCEPT ![Treasury] = MintAToken(@, c, terms.fee)]
      /\ IF receive THEN liquidity' = paidIn
                    ELSE /\ toLiquidator <= liquidity[c]
                         /\ liquidity' = [paidIn EXCEPT ![c] = @ - toLiquidator]
      /\ unchangedConfig /\ unchangedMarket
  BY DEF LiquidationCall, ValidateLiquidationCall, Active
<1>3. AllGood(account) /\ Good(p) /\ Good(account[l]) /\ p \in Account
  BY <1>1, AccountsAreGood DEF AllGood
<1>4. terms.seized \in 0 .. p.aToken[c] /\ terms.fee \in Nat /\ terms.debt \in Nat
  BY <1>1, <1>2, LiquidationInputs
<1>5. p.aToken[c] \in Nat /\ DebtOf(p, d) \in Nat /\ liquidity[c] \in Nat
  BY <1>1, Balances
<1> HIDE DEF terms
<1>6. toLiquidator \in Nat
  BY <1>2, <1>4, <1>5
<1> HIDE DEF toLiquidator
<1>7. Id(c) \in Ids
  BY <1>2, ListedIds DEF IndInv
<1>8. first \in BOOLEAN /\ all \in BOOLEAN
  OBVIOUS
<1> HIDE DEF first, all
<1>9. Good(ReceiveLiquidated(account[l], c, toLiquidator, first))
  BY <1>3, <1>6, <1>7, <1>8, ReceiveLiquidatedGood
<1>10. AllGood(received)
  BY <1>1, <1>3, <1>9, OneMoreGood
<1>11. /\ received[u].stable = p.stable /\ received[u].variable = p.variable
       /\ received[u].aToken[c] >= p.aToken[c]
  <2>1. CASE ~receive \/ l # u
    <3>1. received[u] = p
      BY <1>1, <1>3, <2>1 DEF AllGood
    <3>2. QED
      BY <1>5, <3>1
  <2>2. CASE receive /\ l = u
    <3>1. received[u] = ReceiveLiquidated(p, c, toLiquidator, first)
      BY <1>1, <1>3, <2>2 DEF AllGood
    <3>2. /\ received[u].stable = p.stable /\ received[u].variable = p.variable
          /\ received[u].aToken[c] = p.aToken[c] + toLiquidator
      BY <1>3, <1>6, <1>8, <3>1, ReceiveLiquidatedKeeps
    <3>3. QED
      BY <1>5, <1>6, <3>2
  <2>3. QED
    BY <2>1, <2>2
<1> DEFINE r == received[u]
<1> HIDE DEF received
<1>12. Good(r) /\ r.aToken[c] \in Nat
  BY <1>1, <1>10 DEF AllGood, Account
<1>13. terms.debt \in 0 .. DebtOf(r, d) /\ terms.seized \in 0 .. r.aToken[c]
  <2>1. DebtOf(r, d) = DebtOf(p, d)
    BY <1>11 DEF DebtOf
  <2>2. QED
    BY <1>2, <1>4, <1>5, <1>11, <1>12, <2>1
<1>14. Good(LiquidatedPosition(r, c, d, terms, all))
  BY <1>8, <1>12, <1>13, LiquidatedPositionGood
<1>15. AllGood(taken)
  BY <1>1, <1>10, <1>14, OneMoreGood
<1> HIDE DEF taken
<1>16. Good(MintAToken(taken[Treasury], c, terms.fee))
  BY <1>1, <1>4, <1>15, MintATokenGood DEF AllGood
<1>17. AllGood(account')
  BY <1>1, <1>2, <1>15, <1>16, OneMoreGood
<1>18. CountersOnly
  BY <1>2, <1>3, <1>4, ReleaseIsolationCounts DEF IndInv
<1>19. liquidity' \in [Assets -> Nat]
  <2>1. paidIn \in [Assets -> Nat] /\ paidIn[c] >= liquidity[c]
    BY <1>4 DEF IndInv, TypeOK
  <2> HIDE DEF paidIn
  <2>2. ~receive => paidIn[c] - toLiquidator \in Nat
    BY <1>2, <1>5, <1>6, <2>1
  <2>3. QED
    BY <1>2, <2>1, <2>2
<1>20. QED
  BY <1>2, <1>17, <1>18, <1>19, CallStep

-----------------------------------------------------------------------------
(* Bridges, efficiency modes, interest and the market.                      *)

LEMMA MintUnbackedStep ==
  ASSUME IndInv, NEW u \in Users, NEW a \in Assets, NEW n \in Amounts, MintUnbacked(u, a, n)
  PROVE  IndInv'
<1>1. n \in Nat /\ u \in Accounts
  BY InputsAssumption DEF Accounts
<1>2. reserve[a].listed /\ Id(a) \in Ids
  BY ListedIds DEF MintUnbacked, ValidateSupply, Active, IndInv
<1>3. AllGood(account) /\ Good(account[u])
  BY <1>1, AccountsAreGood DEF AllGood
<1>4. Good(MintUnbackedTo(account[u], a, n))
  BY <1>1, <1>2, <1>3, MintUnbackedToGood
<1>5. AllGood(account')
  BY <1>1, <1>3, <1>4, OneMoreGood DEF MintUnbacked
<1>6. CountersOnly
  BY <1>1, <1>2 DEF MintUnbacked, CountersOnly, IndInv, TypeOK, ReserveData
<1>7. liquidity' \in [Assets -> Nat]
  BY DEF MintUnbacked, IndInv, TypeOK
<1>8. QED
  BY <1>5, <1>6, <1>7, CallStep DEF MintUnbacked

LEMMA BackUnbackedStep ==
  ASSUME IndInv, NEW a \in Assets, NEW n \in Amounts, NEW fee \in Amounts \cup {0},
         NEW x \in Accounts, BackUnbacked(a, n, fee, x)
  PROVE  IndInv'
<1> DEFINE backing == Least(n, reserve[a].unbacked)
<1>1. n \in Nat /\ fee \in Nat
  BY InputsAssumption
<1>2. reserve[a].unbacked \in Nat
  BY DEF IndInv, TypeOK, ReserveData
<1>3. backing \in Nat /\ reserve[a].unbacked - backing \in Nat
  BY <1>1, <1>2 DEF Least
<1> HIDE DEF backing
<1>4. /\ reserve[a].listed
      /\ account' = [account EXCEPT ![x] = MintAToken(@, a, fee)]
      /\ reserve' = [reserve EXCEPT ![a].unbacked = @ - backing]
      /\ liquidity' = [liquidity EXCEPT ![a] = @ + backing + fee]
      /\ unchangedConfig /\ unchangedMarket
  BY DEF BackUnbacked, backing
<1>5. AllGood(account) /\ Good(account[x])
  BY AccountsAreGood DEF AllGood
<1>6. AllGood(account')
  BY <1>1, <1>4, <1>5, MintATokenGood, OneMoreGood
<1>7. CountersOnly
  BY <1>3, <1>4 DEF CountersOnly, IndInv, TypeOK, ReserveData
<1>8. liquidity' \in [Assets -> Nat]
  BY <1>1, <1>3, <1>4 DEF IndInv, TypeOK
<1>9. QED
  BY <1>4, <1>6, <1>7, <1>8, CallStep

LEMMA SetUserEModeStep ==
  ASSUME IndInv, NEW u \in Users, NEW c \in Categories \cup {0}, SetUserEMode(u, c)
  PROVE  IndInv'
<1>1. u \in Accounts
  BY DEF Accounts
<1>2. AllGood(account) /\ Good(account[u])
  BY <1>1, AccountsAreGood DEF AllGood
<1>3. c # 0 => categories[c].bonus > PERCENTAGE_FACTOR
  BY DEF SetUserEMode, ValidateSetUserEMode, IndInv, BonusIsPremium
<1>4. Good([account[u] EXCEPT !.eMode = c])
  BY <1>2, <1>3, EModeGood
<1>5. AllGood(account')
  BY <1>1, <1>2, <1>4, OneMoreGood DEF SetUserEMode
<1>6. liquidity' \in [Assets -> Nat]
  BY DEF SetUserEMode, IndInv, TypeOK
<1>7. QED
  BY <1>5, <1>6, CallStep, NoCounters DEF SetUserEMode, IndInv

\* The debtor may earn the interest on his own debt.
LEMMA AccrueStep ==
  ASSUME IndInv, NEW u \in Users, NEW x \in Accounts, NEW a \in Assets, NEW mode \in Modes,
         Accrue(u, x, a, mode)
  PROVE  IndInv'
<1> DEFINE owing == [account EXCEPT ![u] = MintDebt(@, a, 1, mode)]
<1>1. u \in Accounts
  BY DEF Accounts
<1>2. AllGood(account) /\ Good(account[u])
  BY <1>1, AccountsAreGood DEF AllGood
<1>3. DebtOf(account[u], a) > 0
  BY <1>2 DEF Accrue, Good, Account, DebtOf, Modes
<1>4. reserve[a].listed /\ Id(a) \in account[u].borrowing
  BY <1>2, <1>3 DEF Good, DebtsFlagged
<1>5. Good(MintDebt(account[u], a, 1, mode))
  BY <1>2, <1>4, MintDebtGood
<1>6. AllGood(owing)
  BY <1>1, <1>2, <1>5, OneMoreGood
<1>7. account' = [owing EXCEPT ![x] = MintAToken(@, a, 1)]
  BY DEF Accrue
<1> HIDE DEF owing
<1>8. AllGood(account')
  BY <1>6, <1>7, MintATokenGood, OneMoreGood DEF AllGood
<1>9. liquidity' \in [Assets -> Nat]
  BY DEF Accrue, IndInv, TypeOK
<1>10. QED
  BY <1>8, <1>9, CallStep, NoCounters DEF Accrue, IndInv

\* A step that touches no storage of the Pool.
LEMMA MarketStep ==
  ASSUME IndInv, Market
  PROVE  IndInv'
<1>1. /\ UNCHANGED <<reserve, account, liquidity>> /\ unchangedConfig
      /\ price' \in [Assets \cup Feeds -> Nat] /\ sentinelUp' \in BOOLEAN
  BY InputsAssumption DEF Market, SetPrice, ToggleSentinel, IndInv, TypeOK
<1>2. TypeOK'
  BY <1>1 DEF IndInv, TypeOK, unchangedConfig
<1>3. ListedAtOwnId' /\ BonusIsPremium'
  BY <1>1 DEF IndInv, ListedAtOwnId, BonusIsPremium, unchangedConfig, Id
<1>4. DebtIsFlagged'
  BY <1>1 DEF IndInv, DebtIsFlagged, DebtsFlagged, DebtOf, Id
<1>5. QED
  BY <1>2, <1>3, <1>4 DEF IndInv

-----------------------------------------------------------------------------
(* The administration.                                                      *)

\* A new configuration preserves the invariant if a threshold comes with a bonus
\* and a debt ceiling only with a reserve.
LEMMA ConfigStep ==
  ASSUME IndInv, config' \in [Assets -> ReserveConfig],
         \A a \in Assets :
           /\ config'[a].lt > 0 => config'[a].bonus > PERCENTAGE_FACTOR
           /\ ~reserve[a].listed => config'[a].ceiling = 0,
         UNCHANGED <<reserve, reservesList, reservesCount, categories>>,
         unchangedPositions, unchangedMarket
  PROVE  IndInv'
<1> USE DEF unchangedPositions, unchangedMarket
<1>1. TypeOK'
  BY DEF IndInv, TypeOK
<1>2. ListedAtOwnId'
  BY DEF IndInv, ListedAtOwnId, Id
<1>3. DebtIsFlagged'
  BY DEF IndInv, DebtIsFlagged, DebtsFlagged, DebtOf, Id
<1>4. BonusIsPremium'
  BY DEF IndInv, BonusIsPremium
<1>5. QED
  BY <1>1, <1>2, <1>3, <1>4 DEF IndInv

LEMMA SetConfigStep ==
  ASSUME IndInv, NEW a \in Assets, NEW c \in ReserveConfig, SetConfig(a, c),
         c.lt > 0 => c.bonus > PERCENTAGE_FACTOR,
         ~reserve[a].listed => c.ceiling = 0
  PROVE  IndInv'
<1>1. config' = [config EXCEPT ![a] = c] /\ config \in [Assets -> ReserveConfig]
  BY DEF SetConfig, IndInv, TypeOK
<1>2. config' \in [Assets -> ReserveConfig]
  BY <1>1
<1>3. \A b \in Assets :
        /\ config'[b].lt > 0 => config'[b].bonus > PERCENTAGE_FACTOR
        /\ ~reserve[b].listed => config'[b].ceiling = 0
  BY <1>1 DEF IndInv, BonusIsPremium, ListedAtOwnId
<1>4. QED
  BY <1>2, <1>3, ConfigStep DEF SetConfig

\* The setters that leave the threshold, the bonus and the ceiling alone.
LEMMA PlainConfigStep ==
  ASSUME IndInv, NEW a \in Assets, NEW c \in ReserveConfig, SetConfig(a, c),
         c.lt = config[a].lt, c.bonus = config[a].bonus, c.ceiling = config[a].ceiling
  PROVE  IndInv'
<1>1. c.lt > 0 => c.bonus > PERCENTAGE_FACTOR
  BY DEF IndInv, BonusIsPremium
<1>2. ~reserve[a].listed => c.ceiling = 0
  BY DEF IndInv, ListedAtOwnId
<1>3. QED
  BY <1>1, <1>2, SetConfigStep

LEMMA CollateralParametersStep ==
  ASSUME IndInv, NEW a \in Assets, CollateralParameters(a)
  PROVE  IndInv'
<1>1. PICK ltv \in Percentages, lt \in Percentages, bonus \in Percentages :
        ConfigureReserveAsCollateral(a, ltv, lt, bonus)
  BY DEF CollateralParameters
<1> DEFINE c == [config[a] EXCEPT !.ltv = ltv, !.lt = lt, !.bonus = bonus]
<1>2. ltv \in Nat /\ lt \in Nat /\ bonus \in Nat
  BY ConfigInputsAssumption
<1>3. config[a] \in ReserveConfig
  BY DEF IndInv, TypeOK
<1>4. c \in ReserveConfig /\ c.lt = lt /\ c.bonus = bonus /\ c.ceiling = config[a].ceiling
  BY <1>2, <1>3 DEF ReserveConfig
<1>5. SetConfig(a, c) /\ (lt > 0 => bonus > PERCENTAGE_FACTOR)
  BY <1>1, <1>2 DEF ConfigureReserveAsCollateral
<1>6. ~reserve[a].listed => c.ceiling = 0
  BY <1>4 DEF IndInv, ListedAtOwnId
<1> HIDE DEF c
<1>7. QED
  BY <1>4, <1>5, <1>6, SetConfigStep

LEMMA LimitParametersStep ==
  ASSUME IndInv, NEW a \in Assets, LimitParameters(a)
  PROVE  IndInv'
<1> DEFINE c == config[a]
<1>1. c \in ReserveConfig
  BY DEF IndInv, TypeOK
<1>2. \A n \in Limits : n \in Nat
  BY ConfigInputsAssumption
<1>3. ASSUME NEW n \in Limits, NEW on \in BOOLEAN, EnableBorrowingOnReserve(a, n, on)
      PROVE  IndInv'
  <2> DEFINE d == [c EXCEPT !.borrowing = TRUE, !.borrowCap = n, !.stableBorrowing = on]
  <2>1. d \in ReserveConfig /\ d.lt = c.lt /\ d.bonus = c.bonus /\ d.ceiling = c.ceiling
    BY <1>1, <1>2 DEF ReserveConfig
  <2>2. SetConfig(a, d)
    BY <1>3 DEF EnableBorrowingOnReserve
  <2> HIDE DEF d
  <2>3. QED
    BY <2>1, <2>2, PlainConfigStep
<1>4. ASSUME NEW n \in Limits, SetDebtCeiling(a, n)
      PROVE  IndInv'
  <2> DEFINE d == [c EXCEPT !.ceiling = n]
  <2>1. d \in ReserveConfig /\ d.lt = c.lt /\ d.bonus = c.bonus
    BY <1>1, <1>2 DEF ReserveConfig
  <2>2. SetConfig(a, d)
    BY <1>4 DEF SetDebtCeiling
  <2>3. reserve[a].listed
    BY <1>4 DEF SetDebtCeiling, NoDepositors, IndInv, ListedAtOwnId
  <2>4. d.lt > 0 => d.bonus > PERCENTAGE_FACTOR
    BY <2>1 DEF IndInv, BonusIsPremium
  <2> HIDE DEF d
  <2>5. QED
    BY <2>1, <2>2, <2>3, <2>4, SetConfigStep
<1>5. ASSUME NEW n \in Limits, SetBorrowCap(a, n) PROVE IndInv'
  <2> DEFINE d == [c EXCEPT !.borrowCap = n]
  <2>1. d \in ReserveConfig /\ d.lt = c.lt /\ d.bonus = c.bonus /\ d.ceiling = c.ceiling
    BY <1>1, <1>2 DEF ReserveConfig
  <2>2. SetConfig(a, d)
    BY <1>5 DEF SetBorrowCap
  <2> HIDE DEF d
  <2>3. QED
    BY <2>1, <2>2, PlainConfigStep
<1>6. ASSUME NEW n \in Limits, SetSupplyCap(a, n) PROVE IndInv'
  <2> DEFINE d == [c EXCEPT !.supplyCap = n]
  <2>1. d \in ReserveConfig /\ d.lt = c.lt /\ d.bonus = c.bonus /\ d.ceiling = c.ceiling
    BY <1>1, <1>2 DEF ReserveConfig
  <2>2. SetConfig(a, d)
    BY <1>6 DEF SetSupplyCap
  <2> HIDE DEF d
  <2>3. QED
    BY <2>1, <2>2, PlainConfigStep
<1>7. ASSUME NEW n \in Limits, SetUnbackedMintCap(a, n) PROVE IndInv'
  <2> DEFINE d == [c EXCEPT !.unbackedCap = n]
  <2>1. d \in ReserveConfig /\ d.lt = c.lt /\ d.bonus = c.bonus /\ d.ceiling = c.ceiling
    BY <1>1, <1>2 DEF ReserveConfig
  <2>2. SetConfig(a, d)
    BY <1>7 DEF SetUnbackedMintCap
  <2> HIDE DEF d
  <2>3. QED
    BY <2>1, <2>2, PlainConfigStep
<1>8. ASSUME NEW on \in BOOLEAN, SetReserveStableRate(a, on) PROVE IndInv'
  <2> DEFINE d == [c EXCEPT !.stableBorrowing = on]
  <2>1. d \in ReserveConfig /\ d.lt = c.lt /\ d.bonus = c.bonus /\ d.ceiling = c.ceiling
    BY <1>1 DEF ReserveConfig
  <2>2. SetConfig(a, d)
    BY <1>8 DEF SetReserveStableRate
  <2> HIDE DEF d
  <2>3. QED
    BY <2>1, <2>2, PlainConfigStep
<1>9. ASSUME NEW on \in BOOLEAN, SetBorrowableInIsolation(a, on) PROVE IndInv'
  <2> DEFINE d == [c EXCEPT !.isolationBorrowable = on]
  <2>1. d \in ReserveConfig /\ d.lt = c.lt /\ d.bonus = c.bonus /\ d.ceiling = c.ceiling
    BY <1>1 DEF ReserveConfig
  <2>2. SetConfig(a, d)
    BY <1>9 DEF SetBorrowableInIsolation
  <2> HIDE DEF d
  <2>3. QED
    BY <2>1, <2>2, PlainConfigStep
<1>10. QED
  BY <1>3, <1>4, <1>5, <1>6, <1>7, <1>8, <1>9 DEF LimitParameters

LEMMA FeeParametersStep ==
  ASSUME IndInv, NEW a \in Assets, FeeParameters(a)
  PROVE  IndInv'
<1>1. PICK n \in Percentages : SetLiquidationProtocolFee(a, n)
  BY DEF FeeParameters
<1> DEFINE d == [config[a] EXCEPT !.fee = n]
<1>2. /\ d \in ReserveConfig /\ d.lt = config[a].lt
      /\ d.bonus = config[a].bonus /\ d.ceiling = config[a].ceiling
  BY ConfigInputsAssumption DEF IndInv, TypeOK, ReserveConfig
<1>3. SetConfig(a, d)
  BY <1>1 DEF SetLiquidationProtocolFee
<1> HIDE DEF d
<1>4. QED
  BY <1>2, <1>3, PlainConfigStep

LEMMA SwitchesStep ==
  ASSUME IndInv, Switches
  PROVE  IndInv'
<1>1. ASSUME NEW a \in Assets, NEW on \in BOOLEAN, NEW c,
             \/ c = [config[a] EXCEPT !.active = on] \/ c = [config[a] EXCEPT !.borrowing = on]
             \/ c = [config[a] EXCEPT !.frozen = on] \/ c = [config[a] EXCEPT !.paused = on],
             SetConfig(a, c)
      PROVE  IndInv'
  <2>1. config[a] \in ReserveConfig
    BY DEF IndInv, TypeOK
  <2>2. /\ c \in ReserveConfig /\ c.lt = config[a].lt
        /\ c.bonus = config[a].bonus /\ c.ceiling = config[a].ceiling
    BY <1>1, <2>1 DEF ReserveConfig
  <2>3. QED
    BY <1>1, <2>2, PlainConfigStep
<1>2. ASSUME NEW a \in Assets, ActivateReserve(a) \/ DeactivateReserve(a) \/ DisableBorrowingOnReserve(a)
      PROVE  IndInv'
  BY <1>1, <1>2 DEF ActivateReserve, DeactivateReserve, DisableBorrowingOnReserve
<1>3. ASSUME NEW a \in Assets, NEW on \in BOOLEAN, SetReserveFreeze(a, on) \/ SetReservePause(a, on)
      PROVE  IndInv'
  BY <1>1, <1>3 DEF SetReserveFreeze, SetReservePause
<1>4. ASSUME NEW on \in BOOLEAN, SetPoolPause(on)
      PROVE  IndInv'
  <2> DEFINE inList == {reservesList[i] : i \in ListedSlots}
  <2>1. config' = [a \in Assets |->
                     IF a \in inList THEN [config[a] EXCEPT !.paused = on] ELSE config[a]]
    BY <1>4 DEF SetPoolPause
  <2>2. config \in [Assets -> ReserveConfig]
    BY DEF IndInv, TypeOK
  <2> HIDE DEF inList
  <2>3. \A a \in Assets :
          /\ config'[a] \in ReserveConfig /\ config'[a].lt = config[a].lt
          /\ config'[a].bonus = config[a].bonus /\ config'[a].ceiling = config[a].ceiling
    BY <2>1, <2>2 DEF ReserveConfig
  <2>4. config' \in [Assets -> ReserveConfig]
    BY <2>1, <2>3
  <2>5. \A a \in Assets :
          /\ config'[a].lt > 0 => config'[a].bonus > PERCENTAGE_FACTOR
          /\ ~reserve[a].listed => config'[a].ceiling = 0
    BY <2>3 DEF IndInv, BonusIsPremium, ListedAtOwnId
  <2>6. QED
    BY <1>4, <2>4, <2>5, ConfigStep DEF SetPoolPause
<1>5. QED
  BY <1>2, <1>3, <1>4 DEF Switches

LEMMA CategoryParametersStep ==
  ASSUME IndInv, CategoryParameters
  PROVE  IndInv'
<1>1. ASSUME NEW c \in Categories, NEW ltv \in Percentages, NEW lt \in Percentages,
             NEW bonus \in Percentages, NEW f \in Feeds \cup {None},
             SetEModeCategory(c, ltv, lt, bonus, f)
      PROVE  IndInv'
  <2> DEFINE new == [ltv |-> ltv, lt |-> lt, bonus |-> bonus, source |-> f]
  <2>1. new \in Category /\ new.bonus = bonus
    BY ConfigInputsAssumption DEF Category
  <2>2. /\ categories' = [categories EXCEPT ![c] = new] /\ bonus > PERCENTAGE_FACTOR
        /\ UNCHANGED <<reserve, config, reservesList, reservesCount>>
        /\ unchangedPositions /\ unchangedMarket
    BY <1>1 DEF SetEModeCategory
  <2>3. categories \in [Categories \cup {0} -> Category]
    BY DEF IndInv, TypeOK
  <2> HIDE DEF new
  <2>4. categories' \in [Categories \cup {0} -> Category]
    BY <2>1, <2>2, <2>3
  <2>5. \A k \in Categories \cup {0} :
          categories'[k].bonus = IF k = c THEN bonus ELSE categories[k].bonus
    BY <2>1, <2>2, <2>3
  <2>6. \A k \in Categories \cup {0} : k # c => categories'[k] = categories[k]
    BY <2>2, <2>3
  <2>7. TypeOK'
    BY <2>2, <2>4 DEF IndInv, TypeOK, unchangedPositions, unchangedMarket
  <2>8. ListedAtOwnId' /\ DebtIsFlagged'
    BY <2>2 DEF IndInv, ListedAtOwnId, DebtIsFlagged, DebtsFlagged, DebtOf, Id, unchangedPositions
  <2>9. BonusIsPremium'
    <3>1. \A k \in Categories : categories'[k].lt > 0 => categories'[k].bonus > PERCENTAGE_FACTOR
      BY <2>2, <2>5, <2>6 DEF IndInv, BonusIsPremium
    <3>2. ASSUME NEW x \in Accounts, account[x].eMode # 0
          PROVE  categories'[account[x].eMode].bonus > PERCENTAGE_FACTOR
      <4>1. account[x].eMode \in Categories \cup {0}
        BY DEF IndInv, TypeOK, Account
      <4>2. QED
        BY <2>2, <2>5, <3>2, <4>1 DEF IndInv, BonusIsPremium
    <3>3. UNCHANGED <<account, config>>
      BY <2>2 DEF unchangedPositions
    <3>4. QED
      BY <3>1, <3>2, <3>3 DEF IndInv, BonusIsPremium
  <2>10. QED
    BY <2>7, <2>8, <2>9 DEF IndInv
<1>2. ASSUME NEW a \in Assets, NEW c \in Categories \cup {0}, SetAssetEModeCategory(a, c)
      PROVE  IndInv'
  <2> DEFINE d == [config[a] EXCEPT !.category = c]
  <2>1. /\ d \in ReserveConfig /\ d.lt = config[a].lt
        /\ d.bonus = config[a].bonus /\ d.ceiling = config[a].ceiling
    BY UnitsAssumption DEF IndInv, TypeOK, ReserveConfig
  <2>2. SetConfig(a, d)
    BY <1>2 DEF SetAssetEModeCategory
  <2> HIDE DEF d
  <2>3. QED
    BY <2>1, <2>2, PlainConfigStep
<1>3. QED
  BY <1>1, <1>2 DEF CategoryParameters

-----------------------------------------------------------------------------
(* The list of reserves.                                                    *)

\* The free position behind the last one used is empty, and the new id.
LEMMA LastEmptySlot ==
  ASSUME TypeOK, ListedAtOwnId, reservesCount < MAX_RESERVES_COUNT
  PROVE  Max(EmptySlots) = reservesCount /\ reservesCount \in EmptySlots /\ reservesCount \in Ids
<1>1. reservesCount \in Nat /\ reservesCount \in Ids
  BY UnitsAssumption DEF TypeOK, Ids
<1>2. reservesCount \in EmptySlots
  BY <1>1 DEF EmptySlots, ListedAtOwnId
<1>3. \A i \in EmptySlots : i \in Nat /\ i <= reservesCount
  BY <1>1 DEF EmptySlots
<1>4. \A i \in EmptySlots : (\A j \in EmptySlots : i >= j) => i = reservesCount
  BY <1>1, <1>2, <1>3
<1>5. \A j \in EmptySlots : reservesCount >= j
  BY <1>1, <1>3
<1>6. QED
  BY <1>1, <1>2, <1>4, <1>5 DEF Max

LEMMA InitReserveStep ==
  ASSUME IndInv, NEW a \in Assets, InitReserve(a)
  PROVE  IndInv'
<1> DEFINE id == IF reservesList[0] = a THEN 0 ELSE reservesCount
           data == [reserve[a] EXCEPT !.listed = TRUE, !.id = id]
           c    == [config[a] EXCEPT !.active = TRUE, !.paused = FALSE, !.frozen = FALSE]
<1> USE DEF IndInv
<1>1. /\ reserve \in [Assets -> ReserveData] /\ config \in [Assets -> ReserveConfig]
      /\ reservesList \in [Ids -> Assets \cup {None}]
      /\ reservesCount \in Nat /\ reservesCount <= MAX_RESERVES_COUNT
      /\ MAX_RESERVES_COUNT \in Nat /\ None \notin Assets
  BY UnitsAssumption, AddressesAssumption DEF TypeOK
<1>2. /\ ~reserve[a].listed /\ reserve[a] = NoReserve /\ config[a].ceiling = 0
      /\ reservesCount < MAX_RESERVES_COUNT
  BY DEF InitReserve, ListedAtOwnId
<1>3. /\ Max(EmptySlots) = reservesCount /\ reservesCount \in EmptySlots
      /\ reservesCount \in Ids /\ 0 \in Ids
  BY <1>1, <1>2, LastEmptySlot DEF Ids
<1>4. reserve[a].id = 0
  BY <1>2 DEF NoReserve
<1>5. /\ reserve' = [reserve EXCEPT ![a] = data]
      /\ IF reservesList[0] = a
         THEN UNCHANGED <<reservesList, reservesCount>>
         ELSE /\ reservesList' = [i \in Ids |-> IF i \in EmptySlots THEN a ELSE reservesList[i]]
              /\ reservesCount' = reservesCount + 1
  <2>1. CASE reservesList[0] = a
    BY <1>1, <1>4, <2>1 DEF InitReserve
  <2>2. CASE reservesList[0] # a
    BY <1>1, <1>3, <1>4, <2>2 DEF InitReserve
  <2>3. QED
    BY <2>1, <2>2
<1>6. /\ config' = [config EXCEPT ![a] = c]
      /\ UNCHANGED <<categories, account, liquidity, price, sentinelUp>>
  BY DEF InitReserve, unchangedPositions, unchangedMarket
<1>7. data \in ReserveData /\ id \in Nat
  BY <1>1 DEF ReserveData
<1>8. /\ c \in ReserveConfig /\ c.lt = config[a].lt /\ c.bonus = config[a].bonus
      /\ c.ceiling = config[a].ceiling
  BY <1>1 DEF ReserveConfig
<1>9. data.listed /\ data.id = id
  BY <1>1, <1>7 DEF ReserveData
<1> HIDE DEF data, c
<1>10. /\ \A b \in Assets : b # a => reserve'[b] = reserve[b] /\ config'[b] = config[b]
       /\ reserve'[a] = data /\ config'[a] = c
  BY <1>1, <1>5, <1>6
<1>11. TypeOK'
  <2>1. reserve' \in [Assets -> ReserveData] /\ config' \in [Assets -> ReserveConfig]
    BY <1>1, <1>5, <1>6, <1>7, <1>8
  <2>2. reservesList' \in [Ids -> Assets \cup {None}] /\ reservesCount' \in 0 .. MAX_RESERVES_COUNT
    BY <1>1, <1>2, <1>5
  <2>3. QED
    BY <1>6, <2>1, <2>2 DEF TypeOK
<1>12. ListedAtOwnId'
  <2>1. ASSUME NEW b \in Assets, reserve'[b].listed
        PROVE  reserve'[b].id \in 0 .. reservesCount' - 1 /\ reservesList'[reserve'[b].id] = b
    <3>1. CASE b = a
      <4>1. CASE reservesList[0] = a
        <5>1. 0 < reservesCount
          BY <1>1, <1>3, <4>1 DEF ListedAtOwnId
        <5>2. QED
          BY <1>1, <1>5, <1>9, <1>10, <3>1, <4>1, <5>1
      <4>2. CASE reservesList[0] # a
        BY <1>1, <1>3, <1>5, <1>9, <1>10, <3>1, <4>2
      <4>3. QED
        BY <4>1, <4>2
    <3>2. CASE b # a
      <4>1. /\ reserve'[b].id = Id(b) /\ Id(b) \in 0 .. reservesCount - 1
            /\ reservesList[Id(b)] = b
        BY <1>10, <2>1, <3>2 DEF ListedAtOwnId, Id
      <4>2. Id(b) \in Ids /\ Id(b) \notin EmptySlots
        BY <1>1, <4>1 DEF Ids, EmptySlots
      <4>3. QED
        BY <1>1, <1>5, <4>1, <4>2
    <3>3. QED
      BY <3>1, <3>2
  <2>2. ASSUME NEW b \in Assets, ~reserve'[b].listed
        PROVE  reserve'[b] = NoReserve /\ config'[b].ceiling = 0
    <3>1. b # a
      BY <1>9, <1>10, <2>2
    <3>2. QED
      BY <1>10, <2>2, <3>1 DEF ListedAtOwnId
  <2>3. ASSUME NEW i \in Ids, i >= reservesCount'
        PROVE  reservesList'[i] = None
    <3>1. i \in Nat
      BY <1>1 DEF Ids
    <3>2. CASE reservesList[0] = a
      BY <1>5, <2>3, <3>2 DEF ListedAtOwnId
    <3>3. CASE reservesList[0] # a
      <4>1. i \notin EmptySlots /\ i >= reservesCount
        BY <1>1, <1>5, <2>3, <3>1, <3>3 DEF EmptySlots
      <4>2. QED
        BY <1>5, <3>3, <4>1 DEF ListedAtOwnId
    <3>4. QED
      BY <3>2, <3>3
  <2>4. QED
    BY <2>1, <2>2, <2>3 DEF ListedAtOwnId, Id
<1>13. DebtIsFlagged'
  <2>1. ASSUME NEW x \in Accounts, NEW b \in Assets, DebtOf(account[x], b) > 0
        PROVE  reserve'[b].listed /\ reserve'[b].id \in account[x].borrowing
    <3>1. reserve[b].listed /\ Id(b) \in account[x].borrowing
      BY <2>1 DEF DebtIsFlagged, DebtsFlagged
    <3>2. b # a
      BY <1>2, <3>1
    <3>3. QED
      BY <1>10, <3>1, <3>2 DEF Id
  <2>2. QED
    BY <1>6, <2>1 DEF DebtIsFlagged, DebtsFlagged, DebtOf, Id
<1>14. BonusIsPremium'
  BY <1>6, <1>8, <1>10 DEF BonusIsPremium
<1>15. QED
  BY <1>11, <1>12, <1>13, <1>14

LEMMA DropReserveStep ==
  ASSUME IndInv, NEW a \in Assets, DropReserve(a)
  PROVE  IndInv'
<1> USE DEF IndInv
<1>1. /\ reserve \in [Assets -> ReserveData] /\ config \in [Assets -> ReserveConfig]
      /\ reservesList \in [Ids -> Assets \cup {None}] /\ liquidity \in [Assets -> Nat]
      /\ None \notin Assets
  BY AddressesAssumption DEF TypeOK
<1>2. /\ reserve[a].listed /\ NobodyOwes(a)
      /\ reservesList' = [reservesList EXCEPT ![Id(a)] = None]
      /\ reserve' = [reserve EXCEPT ![a] = NoReserve]
      /\ config' = [config EXCEPT ![a] = NoConfig]
      /\ liquidity' = [liquidity EXCEPT ![a] = 0]
      /\ UNCHANGED <<reservesCount, categories, account, price, sentinelUp>>
  BY DEF DropReserve, ValidateDropReserve, unchangedMarket
<1>3. /\ NoReserve \in ReserveData /\ NoConfig \in ReserveConfig
      /\ ~NoReserve.listed /\ NoConfig.lt = 0 /\ NoConfig.ceiling = 0
  BY DEF NoReserve, ReserveData, NoConfig, ReserveConfig
<1>4. /\ \A b \in Assets : b # a => reserve'[b] = reserve[b] /\ config'[b] = config[b]
      /\ reserve'[a] = NoReserve /\ config'[a] = NoConfig
  BY <1>1, <1>2
<1>5. TypeOK'
  BY <1>1, <1>2, <1>3 DEF TypeOK
<1>6. ListedAtOwnId'
  <2>1. ASSUME NEW b \in Assets, reserve'[b].listed
        PROVE  reserve'[b].id \in 0 .. reservesCount - 1 /\ reservesList'[reserve'[b].id] = b
    <3>1. b # a
      BY <1>3, <1>4, <2>1
    <3>2. /\ reserve[b].listed /\ reserve'[b].id = Id(b) /\ Id(b) \in 0 .. reservesCount - 1
          /\ reservesList[Id(b)] = b
      BY <1>4, <2>1, <3>1 DEF ListedAtOwnId, Id
    <3>3. Id(b) \in Ids /\ Id(b) # Id(a)
      BY <1>2, <3>1, <3>2, ListedIds
    <3>4. QED
      BY <1>1, <1>2, <3>2, <3>3
  <2>2. ASSUME NEW b \in Assets, ~reserve'[b].listed
        PROVE  reserve'[b] = NoReserve /\ config'[b].ceiling = 0
    BY <1>3, <1>4, <2>2 DEF ListedAtOwnId
  <2>3. ASSUME NEW i \in Ids, i >= reservesCount
        PROVE  reservesList'[i] = None
    BY <1>1, <1>2, <2>3 DEF ListedAtOwnId
  <2>4. QED
    BY <1>2, <2>1, <2>2, <2>3 DEF ListedAtOwnId, Id
<1>7. DebtIsFlagged'
  <2>1. ASSUME NEW x \in Accounts, NEW b \in Assets, DebtOf(account[x], b) > 0
        PROVE  reserve'[b].listed /\ reserve'[b].id \in account[x].borrowing
    <3>1. reserve[b].listed /\ Id(b) \in account[x].borrowing
      BY <2>1 DEF DebtIsFlagged, DebtsFlagged
    <3>2. b # a
      BY <1>2, <2>1 DEF NobodyOwes, DebtOf
    <3>3. QED
      BY <1>4, <3>1, <3>2 DEF Id
  <2>2. QED
    BY <1>2, <2>1 DEF DebtIsFlagged, DebtsFlagged, DebtOf, Id
<1>8. BonusIsPremium'
  BY <1>2, <1>3, <1>4 DEF BonusIsPremium
<1>9. QED
  BY <1>5, <1>6, <1>7, <1>8

-----------------------------------------------------------------------------
(* The invariant is inductive.                                              *)

LEMMA InitEstablishes ==
  ASSUME Init
  PROVE  IndInv
<1>1. NoReserve \in ReserveData /\ NoConfig \in ReserveConfig /\ NoCategory \in Category
  BY DEF NoReserve, ReserveData, NoConfig, ReserveConfig, NoCategory, Category
<1>2. NoPosition \in Account
  BY DEF NoPosition, Account
<1>3. TypeOK
  <2>1. /\ reserve \in [Assets -> ReserveData] /\ config \in [Assets -> ReserveConfig]
        /\ categories \in [Categories \cup {0} -> Category]
    BY <1>1 DEF Init
  <2>2. account \in [Accounts -> Account] /\ liquidity \in [Assets -> Nat]
    BY <1>2 DEF Init
  <2>3. price \in [Assets \cup Feeds -> Nat] /\ sentinelUp \in BOOLEAN
    BY InputsAssumption DEF Init
  <2>4. reservesList \in [Ids -> Assets \cup {None}] /\ reservesCount \in 0 .. MAX_RESERVES_COUNT
    BY UnitsAssumption DEF Init
  <2>5. QED
    BY <2>1, <2>2, <2>3, <2>4 DEF TypeOK
<1>4. ListedAtOwnId
  BY DEF Init, ListedAtOwnId, NoReserve, NoConfig
<1>5. DebtIsFlagged
  BY DEF Init, DebtIsFlagged, DebtsFlagged, DebtOf, NoPosition
<1>6. BonusIsPremium
  BY DEF Init, BonusIsPremium, NoConfig, NoCategory, NoPosition
<1>7. QED
  BY <1>3, <1>4, <1>5, <1>6 DEF IndInv

LEMMA UserStep ==
  ASSUME IndInv, UserNext
  PROVE  IndInv'
<1>1. CASE SupplySide
  BY <1>1, SupplyStep, WithdrawStep, TransferStep, SetUserUseReserveAsCollateralStep DEF SupplySide
<1>2. CASE DebtSide
  BY <1>2, BorrowStep, RepayStep, RepayWithATokensStep, SwapBorrowRateModeStep DEF DebtSide
<1>3. CASE Liquidations
  BY <1>3, LiquidationCallStep DEF Liquidations
<1>4. CASE UnbackedMints
  BY <1>4, MintUnbackedStep DEF UnbackedMints
<1>5. CASE Backing
  BY <1>5, BackUnbackedStep DEF Backing
<1>6. CASE EfficiencyMode
  BY <1>6, SetUserEModeStep DEF EfficiencyMode
<1>7. QED
  BY <1>1, <1>2, <1>3, <1>4, <1>5, <1>6 DEF UserNext

LEMMA AdminStep ==
  ASSUME IndInv, AdminNext
  PROVE  IndInv'
<1>1. CASE Listing
  BY <1>1, InitReserveStep, DropReserveStep DEF Listing
<1>2. CASE RiskParameters
  BY <1>2, CollateralParametersStep, LimitParametersStep, FeeParametersStep DEF RiskParameters
<1>3. CASE Switches
  BY <1>3, SwitchesStep
<1>4. CASE CategoryParameters
  BY <1>4, CategoryParametersStep
<1>5. QED
  BY <1>1, <1>2, <1>3, <1>4 DEF AdminNext

LEMMA NextPreserves ==
  ASSUME IndInv, [Next]_vars
  PROVE  IndInv'
<1>1. CASE UserNext
  BY <1>1, UserStep
<1>2. CASE Interest
  BY <1>2, AccrueStep DEF Interest
<1>3. CASE Market
  BY <1>3, MarketStep
<1>4. CASE AdminNext
  BY <1>4, AdminStep
<1>5. CASE UNCHANGED vars
  <2>1. TypeOK'
    BY <1>5 DEF vars, IndInv, TypeOK
  <2>2. ListedAtOwnId' /\ BonusIsPremium'
    BY <1>5 DEF vars, IndInv, ListedAtOwnId, BonusIsPremium, Id
  <2>3. DebtIsFlagged'
    BY <1>5 DEF vars, IndInv, DebtIsFlagged, DebtsFlagged, DebtOf, Id
  <2>4. QED
    BY <2>1, <2>2, <2>3 DEF IndInv
<1>6. QED
  BY <1>1, <1>2, <1>3, <1>4, <1>5 DEF Next

\* Every state the protocol can reach satisfies the inductive invariant.
THEOREM Invariance == Spec => []IndInv
<1>1. Init => IndInv
  BY InitEstablishes
<1>2. IndInv /\ [Next]_vars => IndInv'
  BY NextPreserves
<1>3. QED
  BY <1>1, <1>2, PTL DEF Spec

-----------------------------------------------------------------------------
(* What follows from it.                                                    *)

\* The storage keeps its shape: no call burns tokens or debt that are not there,
\* and every flag is a position of the list of reserves.
THEOREM TypeCorrect == Spec => []TypeOK
<1>1. IndInv => TypeOK
  BY DEF IndInv
<1>2. QED
  BY <1>1, Invariance, PTL

\* Through any sequence of listings and drops every reserve stands in the list at
\* its own id, and a reserve that was dropped left nothing behind.
THEOREM ReservesListedAtOwnId == Spec => []ListedAtOwnId
<1>1. IndInv => ListedAtOwnId
  BY DEF IndInv
<1>2. QED
  BY <1>1, Invariance, PTL

\* No call, in any order with any other and with any change of the configuration,
\* leaves a debt that the health factor of its account does not see.
THEOREM DebtsStayFlagged == Spec => []DebtIsFlagged
<1>1. IndInv => DebtIsFlagged
  BY DEF IndInv
<1>2. QED
  BY <1>1, Invariance, PTL

\* No change of collateral parameters or categories takes the bonus away from a
\* liquidation.
THEOREM BonusStaysPremium == Spec => []BonusIsPremium
<1>1. IndInv => BonusIsPremium
  BY DEF IndInv
<1>2. QED
  BY <1>1, Invariance, PTL
=============================================================================
