---------------------------- MODULE LedgerProofs ----------------------------
(***************************************************************************)
(* Proofs about the money of the reserves, for every number of users,      *)
(* assets and reserves and every amount: what each call enters in the book *)
(* of each reserve, that the Pool implements the ledger, that the reserves *)
(* stay solvent, and what follows from the books.                          *)
(***************************************************************************)
EXTENDS ProtocolProofs

\* The sums over the accounts, of any state of them.
Claims(accounts, a)   == SumFunction([x \in Accounts |-> accounts[x].aToken[a]])
Stable(accounts, a)   == SumFunction([x \in Accounts |-> accounts[x].stable[a]])
Variable(accounts, a) == SumFunction([x \in Accounts |-> accounts[x].variable[a]])
Debts(accounts, a)    == Stable(accounts, a) + Variable(accounts, a)

LEMMA AccountsAreFinite == IsFiniteSet(Accounts)
  BY AddressesAssumption, FS_AddElement DEF Accounts

LEMMA AccountSumIsNat ==
  ASSUME NEW f, DOMAIN f = Accounts, \A x \in Accounts : f[x] \in Nat
  PROVE  SumFunction(f) \in Nat
  BY AccountsAreFinite, SumIsNat DEF SumFunction

LEMMA AccountSumMoves ==
  ASSUME NEW old, DOMAIN old = Accounts, NEW new, DOMAIN new = Accounts,
         \A x \in Accounts : old[x] \in Nat /\ new[x] \in Nat,
         NEW u \in Accounts, \A x \in Accounts : x # u => new[x] = old[x]
  PROVE  SumFunction(new) = SumFunction(old) + (new[u] - old[u])
  BY AccountsAreFinite, SumWithOneChanged DEF SumFunction

LEMMA SumsOfBalances ==
  ASSUME NEW accounts \in [Accounts -> Account], NEW a \in Assets
  PROVE  /\ Claims(accounts, a) \in Nat /\ Debts(accounts, a) \in Nat
         /\ Stable(accounts, a) \in Nat /\ Variable(accounts, a) \in Nat
<1> DEFINE f == [x \in Accounts |-> accounts[x].aToken[a]]
           g == [x \in Accounts |-> accounts[x].stable[a]]
           h == [x \in Accounts |-> accounts[x].variable[a]]
<1>1. /\ DOMAIN f = Accounts /\ DOMAIN g = Accounts /\ DOMAIN h = Accounts
      /\ \A x \in Accounts : f[x] \in Nat /\ g[x] \in Nat /\ h[x] \in Nat
  BY DEF Account
<1> HIDE DEF f, g, h
<1>2. SumFunction(f) \in Nat /\ SumFunction(g) \in Nat /\ SumFunction(h) \in Nat
  BY <1>1, AccountSumIsNat
<1>3. QED
  BY <1>2 DEF Claims, Stable, Variable, Debts, f, g, h

\* One account changed: the sums move by what its balances move.
Updates(accounts, changed, u, q) ==
  /\ accounts \in [Accounts -> Account] /\ changed \in [Accounts -> Account]
  /\ changed[u] = q /\ \A x \in Accounts : x # u => changed[x] = accounts[x]

LEMMA ClaimsMove ==
  ASSUME NEW accounts, NEW changed, NEW u \in Accounts, NEW q, Updates(accounts, changed, u, q),
         NEW a \in Assets
  PROVE  Claims(changed, a) = Claims(accounts, a) + (q.aToken[a] - accounts[u].aToken[a])
<1> DEFINE old == [x \in Accounts |-> accounts[x].aToken[a]]
           new == [x \in Accounts |-> changed[x].aToken[a]]
<1>1. /\ DOMAIN old = Accounts /\ DOMAIN new = Accounts
      /\ \A x \in Accounts : old[x] \in Nat /\ new[x] \in Nat /\ (x # u => new[x] = old[x])
      /\ new[u] = q.aToken[a] /\ old[u] = accounts[u].aToken[a]
  BY DEF Updates, Account
<1> HIDE DEF old, new
<1>2. SumFunction(new) = SumFunction(old) + (new[u] - old[u])
  BY <1>1, AccountSumMoves
<1>3. QED
  BY <1>1, <1>2 DEF Claims, old, new

LEMMA StableMoves ==
  ASSUME NEW accounts, NEW changed, NEW u \in Accounts, NEW q, Updates(accounts, changed, u, q),
         NEW a \in Assets
  PROVE  Stable(changed, a) = Stable(accounts, a) + (q.stable[a] - accounts[u].stable[a])
<1> DEFINE old == [x \in Accounts |-> accounts[x].stable[a]]
           new == [x \in Accounts |-> changed[x].stable[a]]
<1>1. /\ DOMAIN old = Accounts /\ DOMAIN new = Accounts
      /\ \A x \in Accounts : old[x] \in Nat /\ new[x] \in Nat /\ (x # u => new[x] = old[x])
      /\ new[u] = q.stable[a] /\ old[u] = accounts[u].stable[a]
  BY DEF Updates, Account
<1> HIDE DEF old, new
<1>2. SumFunction(new) = SumFunction(old) + (new[u] - old[u])
  BY <1>1, AccountSumMoves
<1>3. QED
  BY <1>1, <1>2 DEF Stable, old, new

LEMMA VariableMoves ==
  ASSUME NEW accounts, NEW changed, NEW u \in Accounts, NEW q, Updates(accounts, changed, u, q),
         NEW a \in Assets
  PROVE  Variable(changed, a) = Variable(accounts, a) + (q.variable[a] - accounts[u].variable[a])
<1> DEFINE old == [x \in Accounts |-> accounts[x].variable[a]]
           new == [x \in Accounts |-> changed[x].variable[a]]
<1>1. /\ DOMAIN old = Accounts /\ DOMAIN new = Accounts
      /\ \A x \in Accounts : old[x] \in Nat /\ new[x] \in Nat /\ (x # u => new[x] = old[x])
      /\ new[u] = q.variable[a] /\ old[u] = accounts[u].variable[a]
  BY DEF Updates, Account
<1> HIDE DEF old, new
<1>2. SumFunction(new) = SumFunction(old) + (new[u] - old[u])
  BY <1>1, AccountSumMoves
<1>3. QED
  BY <1>1, <1>2 DEF Variable, old, new

LEMMA DebtsMove ==
  ASSUME NEW accounts, NEW changed, NEW u \in Accounts, NEW q, Updates(accounts, changed, u, q),
         NEW a \in Assets
  PROVE  Debts(changed, a) = Debts(accounts, a) + (DebtOf(q, a) - DebtOf(accounts[u], a))
<1>1. /\ q.stable[a] \in Nat /\ q.variable[a] \in Nat
      /\ accounts[u].stable[a] \in Nat /\ accounts[u].variable[a] \in Nat
  BY DEF Updates, Account
<1>2. Stable(accounts, a) \in Nat /\ Variable(accounts, a) \in Nat
  BY SumsOfBalances DEF Updates
<1>3. /\ Stable(changed, a) = Stable(accounts, a) + (q.stable[a] - accounts[u].stable[a])
      /\ Variable(changed, a) = Variable(accounts, a) + (q.variable[a] - accounts[u].variable[a])
  BY StableMoves, VariableMoves
<1>4. QED
  BY <1>1, <1>2, <1>3 DEF Debts, DebtOf

\* A sum is zero when nobody has anything.
LEMMA NothingToSum ==
  ASSUME NEW accounts \in [Accounts -> Account], NEW a \in Assets
  PROVE  /\ Claims(accounts, a) = 0 <=> \A x \in Accounts : accounts[x].aToken[a] = 0
         /\ Debts(accounts, a) = 0 <=>
              \A x \in Accounts : accounts[x].stable[a] = 0 /\ accounts[x].variable[a] = 0
<1> DEFINE f == [x \in Accounts |-> accounts[x].aToken[a]]
           g == [x \in Accounts |-> accounts[x].stable[a]]
           h == [x \in Accounts |-> accounts[x].variable[a]]
<1>1. /\ DOMAIN f = Accounts /\ DOMAIN g = Accounts /\ DOMAIN h = Accounts
      /\ \A x \in Accounts : f[x] \in Nat /\ g[x] \in Nat /\ h[x] \in Nat
  BY DEF Account
<1>2. \A x \in Accounts : /\ f[x] = accounts[x].aToken[a] /\ g[x] = accounts[x].stable[a]
                          /\ h[x] = accounts[x].variable[a]
  OBVIOUS
<1> HIDE DEF f, g, h
<1>3. /\ SumFunction(f) = 0 <=> \A x \in Accounts : f[x] = 0
      /\ SumFunction(g) = 0 <=> \A x \in Accounts : g[x] = 0
      /\ SumFunction(h) = 0 <=> \A x \in Accounts : h[x] = 0
  BY <1>1, AccountsAreFinite, SumOfZeros DEF SumFunction
<1>4. /\ Claims(accounts, a) = SumFunction(f)
      /\ Stable(accounts, a) = SumFunction(g) /\ Variable(accounts, a) = SumFunction(h)
  BY DEF Claims, Stable, Variable, f, g, h
<1>5. Stable(accounts, a) \in Nat /\ Variable(accounts, a) \in Nat
  BY SumsOfBalances
<1>6. Debts(accounts, a) = 0 <=> Stable(accounts, a) = 0 /\ Variable(accounts, a) = 0
  BY <1>5 DEF Debts
<1>7. QED
  BY <1>2, <1>3, <1>4, <1>6

-----------------------------------------------------------------------------
(* What an operation on a position moves: the aTokens and the debt of one   *)
(* asset.                                                                   *)

Only(a, b, n) == IF b = a THEN n ELSE 0

Moves(p, q, a, claims, owed) ==
  /\ q \in Account
  /\ \A b \in Assets : /\ q.aToken[b] = p.aToken[b] + Only(a, b, claims)
                       /\ DebtOf(q, b) = DebtOf(p, b) + Only(a, b, owed)

SameBalances(p, q) ==
  q \in Account /\ q.aToken = p.aToken /\ q.stable = p.stable /\ q.variable = p.variable

LEMMA FlagsMoveNothing ==
  ASSUME NEW p, NEW q, NEW r, NEW a, NEW claims, NEW owed,
         Moves(p, q, a, claims, owed), SameBalances(q, r)
  PROVE  Moves(p, r, a, claims, owed)
  BY DEF Moves, SameBalances, DebtOf

LEMMA CollateralFlagBalances ==
  ASSUME NEW p \in Account, NEW a \in Assets, NEW on \in BOOLEAN, on => Id(a) \in Ids
  PROVE  SameBalances(p, SetUsingAsCollateral(p, a, on))
  BY DEF SameBalances, SetUsingAsCollateral, Account

LEMMA BorrowingFlagBalances ==
  ASSUME NEW p \in Account, NEW a \in Assets, NEW on \in BOOLEAN, on => Id(a) \in Ids
  PROVE  SameBalances(p, SetBorrowing(p, a, on))
  BY DEF SameBalances, SetBorrowing, Account

LEMMA MintATokenMoves ==
  ASSUME NEW p \in Account, NEW a \in Assets, NEW n \in Nat
  PROVE  Moves(p, MintAToken(p, a, n), a, n, 0)
  BY DEF Moves, MintAToken, Account, DebtOf, Only

LEMMA BurnATokenMoves ==
  ASSUME NEW p \in Account, NEW a \in Assets, NEW n \in 0 .. p.aToken[a]
  PROVE  Moves(p, BurnAToken(p, a, n), a, -n, 0)
<1>1. p.aToken[a] \in Nat /\ p.aToken[a] - n \in Nat /\ n \in Nat
  BY DEF Account
<1>2. QED
  BY <1>1 DEF Moves, BurnAToken, Account, DebtOf, Only

LEMMA MintDebtMoves ==
  ASSUME NEW p \in Account, NEW a \in Assets, NEW n \in Nat, NEW mode \in Modes
  PROVE  Moves(p, MintDebt(p, a, n, mode), a, 0, n)
<1>1. CASE mode = "stable"
  BY <1>1 DEF Moves, MintDebt, Account, DebtOf, Only
<1>2. CASE mode = "variable"
  BY <1>2 DEF Moves, MintDebt, Account, DebtOf, Only
<1>3. QED
  BY <1>1, <1>2 DEF Modes

LEMMA BurnDebtMoves ==
  ASSUME NEW p \in Account, NEW a \in Assets, NEW mode \in Modes, NEW n \in 0 .. p[mode][a]
  PROVE  Moves(p, BurnDebt(p, a, n, mode), a, 0, -n)
<1>1. n \in Nat /\ p[mode][a] \in Nat /\ p[mode][a] - n \in Nat
  BY DEF Account, Modes
<1>2. CASE mode = "stable"
  BY <1>1, <1>2 DEF Moves, BurnDebt, Account, DebtOf, Only
<1>3. CASE mode = "variable"
  BY <1>1, <1>3 DEF Moves, BurnDebt, Account, DebtOf, Only
<1>4. QED
  BY <1>2, <1>3 DEF Modes

LEMMA MovesIsAccount ==
  ASSUME NEW p, NEW q, NEW a, NEW claims, NEW owed, Moves(p, q, a, claims, owed)
  PROVE  q \in Account
  BY DEF Moves

\* Receiving aTokens, however the collateral flag is set with them.
LEMMA ReceivingMoves ==
  ASSUME NEW p \in Account, NEW a \in Assets, NEW n \in Nat, Id(a) \in Ids
  PROVE  /\ Moves(p, SupplyTo(p, a, n), a, n, 0)
         /\ Moves(p, ReceiveTransfer(p, a, n), a, n, 0)
         /\ Moves(p, MintUnbackedTo(p, a, n), a, n, 0)
         /\ \A first \in BOOLEAN : Moves(p, ReceiveLiquidated(p, a, n, first), a, n, 0)
<1> DEFINE q == MintAToken(p, a, n)
           r == SetUsingAsCollateral(q, a, TRUE)
<1>1. Moves(p, q, a, n, 0) /\ q \in Account
  BY MintATokenMoves DEF Moves
<1> HIDE DEF q
<1>2. Moves(p, r, a, n, 0)
  BY <1>1, CollateralFlagBalances, FlagsMoveNothing
<1>3. /\ SupplyTo(p, a, n) \in {q, r} /\ ReceiveTransfer(p, a, n) \in {q, r}
      /\ MintUnbackedTo(p, a, n) \in {q, r}
      /\ \A first \in BOOLEAN : ReceiveLiquidated(p, a, n, first) \in {q, r}
  BY DEF SupplyTo, ReceiveTransfer, MintUnbackedTo, ReceiveLiquidated, q
<1> HIDE DEF r
<1>4. QED
  BY <1>1, <1>2, <1>3

LEMMA GiveUpMoves ==
  ASSUME NEW p \in Account, NEW a \in Assets, NEW n \in 0 .. p.aToken[a]
  PROVE  Moves(p, GiveUp(p, a, n), a, -n, 0)
<1> DEFINE q == BurnAToken(p, a, n)
           r == SetUsingAsCollateral(q, a, FALSE)
<1>1. Moves(p, q, a, -n, 0) /\ q \in Account
  BY BurnATokenMoves DEF Moves
<1> HIDE DEF q
<1>2. Moves(p, r, a, -n, 0)
  BY <1>1, CollateralFlagBalances, FlagsMoveNothing
<1>3. GiveUp(p, a, n) \in {q, r}
  BY DEF GiveUp, q
<1> HIDE DEF r
<1>4. QED
  BY <1>1, <1>2, <1>3

LEMMA BorrowForMoves ==
  ASSUME NEW p \in Account, NEW a \in Assets, NEW n \in Nat, NEW mode \in Modes, Id(a) \in Ids
  PROVE  Moves(p, BorrowFor(p, a, n, mode), a, 0, n)
<1> DEFINE q == MintDebt(p, a, n, mode)
           r == SetBorrowing(q, a, TRUE)
<1>1. Moves(p, q, a, 0, n) /\ q \in Account
  BY MintDebtMoves DEF Moves
<1> HIDE DEF q
<1>2. Moves(p, r, a, 0, n)
  BY <1>1, BorrowingFlagBalances, FlagsMoveNothing
<1>3. BorrowFor(p, a, n, mode) \in {q, r}
  BY DEF BorrowFor, q
<1> HIDE DEF r
<1>4. QED
  BY <1>1, <1>2, <1>3

LEMMA RepayOfMoves ==
  ASSUME NEW p \in Account, NEW a \in Assets, NEW mode \in Modes, NEW n \in 0 .. p[mode][a]
  PROVE  Moves(p, RepayOf(p, a, n, mode), a, 0, -n)
<1> DEFINE q == BurnDebt(p, a, n, mode)
           r == SetBorrowing(q, a, FALSE)
<1>1. Moves(p, q, a, 0, -n) /\ q \in Account
  BY BurnDebtMoves DEF Moves
<1> HIDE DEF q
<1>2. Moves(p, r, a, 0, -n)
  BY <1>1, BorrowingFlagBalances, FlagsMoveNothing
<1>3. RepayOf(p, a, n, mode) \in {q, r}
  BY DEF RepayOf, q
<1> HIDE DEF r
<1>4. QED
  BY <1>1, <1>2, <1>3

\* A debt moved to the other mode is the same debt.
LEMMA SwapMovesNothing ==
  ASSUME NEW p \in Account, NEW a \in Assets, NEW mode \in Modes
  PROVE  LET q == MintDebt(BurnDebt(p, a, p[mode][a], mode), a, p[mode][a], OtherMode(mode))
         IN Moves(p, q, a, 0, 0)
<1> DEFINE n == p[mode][a]
           q == BurnDebt(p, a, n, mode)
           r == MintDebt(q, a, n, OtherMode(mode))
<1>1. n \in Nat /\ n \in 0 .. p[mode][a] /\ OtherMode(mode) \in Modes
  BY DEF Account, Modes, OtherMode
<1>2. Moves(p, q, a, 0, -n) /\ q \in Account
  BY <1>1, BurnDebtMoves DEF Moves
<1> HIDE DEF n, q
<1>3. Moves(q, r, a, 0, n)
  BY <1>1, <1>2, MintDebtMoves
<1> HIDE DEF r
<1>4. \A b \in Assets : p.aToken[b] \in Nat /\ DebtOf(p, b) \in Nat
  BY DEF Account, DebtOf
<1>5. Moves(p, r, a, 0, 0)
  BY <1>1, <1>2, <1>3, <1>4 DEF Moves, Only
<1>6. QED
  BY <1>5 DEF r, q, n

\* A liquidated position loses the debt that is paid and the collateral seized.
Seizes(p, q, c, d, seized, paid) ==
  /\ q \in Account
  /\ \A b \in Assets : /\ q.aToken[b] = p.aToken[b] - Only(c, b, seized)
                       /\ DebtOf(q, b) = DebtOf(p, b) - Only(d, b, paid)

LEMMA LiquidatedPositionSeizes ==
  ASSUME NEW p \in Account, NEW c \in Assets, NEW d \in Assets, NEW all \in BOOLEAN,
         NEW terms, terms.debt \in 0 .. DebtOf(p, d), terms.seized \in 0 .. p.aToken[c]
  PROVE  Seizes(p, LiquidatedPosition(p, c, d, terms, all), c, d, terms.seized, terms.debt)
<1> DEFINE n == Least(terms.debt, p.variable[d])
           m == terms.debt - n
           q == BurnDebt(p, d, n, "variable")
           r == BurnDebt(q, d, m, "stable")
           s == BurnAToken(r, c, terms.seized)
           t == SetUsingAsCollateral(s, c, FALSE)
<1>1. /\ n \in 0 .. p["variable"][d] /\ m \in 0 .. p["stable"][d] /\ n \in Nat /\ m \in Nat
      /\ terms.debt = n + m /\ terms.seized \in Nat
      /\ "variable" \in Modes /\ "stable" \in Modes
  BY DEF Least, Account, DebtOf, Modes
<1>2. \A b \in Assets : p.aToken[b] \in Nat /\ DebtOf(p, b) \in Nat
  BY DEF Account, DebtOf
<1>3. q["stable"] = p["stable"]
  BY DEF Account, BurnDebt
<1>4. LiquidatedPosition(p, c, d, terms, all) \in {s, t}
  BY DEF LiquidatedPosition, BurnLiquidated
<1> HIDE DEF n, m
<1>5. Moves(p, q, d, 0, -n) /\ q \in Account
  BY <1>1, BurnDebtMoves DEF Moves
<1> HIDE DEF q
<1>6. Moves(q, r, d, 0, -m) /\ r \in Account
  BY <1>1, <1>3, <1>5, BurnDebtMoves DEF Moves
<1> HIDE DEF r
<1>7. r.aToken[c] = p.aToken[c]
  BY <1>2, <1>5, <1>6 DEF Moves, Only
<1>8. Moves(r, s, c, -terms.seized, 0) /\ s \in Account
  BY <1>6, <1>7, BurnATokenMoves DEF Moves
<1> HIDE DEF s
<1>9. Moves(r, t, c, -terms.seized, 0)
  BY <1>8, CollateralFlagBalances, FlagsMoveNothing
<1> HIDE DEF t
<1>10. ASSUME NEW z, Moves(r, z, c, -terms.seized, 0)
       PROVE  Seizes(p, z, c, d, terms.seized, terms.debt)
  BY <1>1, <1>2, <1>5, <1>6, <1>10 DEF Moves, Seizes, Only
<1>11. QED
  BY <1>4, <1>8, <1>9, <1>10

-----------------------------------------------------------------------------
(* What a step enters in the books.                                         *)

Owed(a) == StableSupply(a) + VariableSupply(a)

\* The book of asset a changes by so much in each column.
Booked(a, cash, claims, owed, unbacked) ==
  /\ liquidity'[a] = liquidity[a] + cash
  /\ ATokenSupply(a)' = ATokenSupply(a) + claims
  /\ Owed(a)' = Owed(a) + owed
  /\ reserve'[a].unbacked = reserve[a].unbacked + unbacked

\* The book of asset a changes, and no other.
Entered(a, cash, claims, owed, unbacked) ==
  \A b \in Assets : Booked(b, Only(a, b, cash), Only(a, b, claims),
                           Only(a, b, owed), Only(a, b, unbacked))

NothingEntered == \A b \in Assets : Booked(b, 0, 0, 0, 0)

\* The accounts as a whole hold so many more aTokens of a and owe so much more.
Shift(accounts, changed, a, claims, owed) ==
  /\ changed \in [Accounts -> Account]
  /\ \A b \in Assets : /\ Claims(changed, b) = Claims(accounts, b) + Only(a, b, claims)
                       /\ Debts(changed, b) = Debts(accounts, b) + Only(a, b, owed)

LEMMA PositionShifts ==
  ASSUME NEW accounts \in [Accounts -> Account], NEW u \in Accounts, NEW a \in Assets,
         NEW claims \in Int, NEW owed \in Int,
         NEW q, Moves(accounts[u], q, a, claims, owed),
         NEW changed, changed = [accounts EXCEPT ![u] = q]
  PROVE  Shift(accounts, changed, a, claims, owed)
<1>1. Updates(accounts, changed, u, q)
  BY DEF Moves, Updates
<1>2. ASSUME NEW b \in Assets
      PROVE  /\ Claims(changed, b) = Claims(accounts, b) + Only(a, b, claims)
             /\ Debts(changed, b) = Debts(accounts, b) + Only(a, b, owed)
  <2> DEFINE p == accounts[u]
  <2>1. /\ q.aToken[b] = p.aToken[b] + Only(a, b, claims)
        /\ DebtOf(q, b) = DebtOf(p, b) + Only(a, b, owed)
    BY DEF Moves
  <2>2. p.aToken[b] \in Nat /\ DebtOf(p, b) \in Nat
    BY DEF Account, DebtOf
  <2>3. Only(a, b, claims) \in Int /\ Only(a, b, owed) \in Int
    BY DEF Only
  <2>4. /\ Claims(changed, b) = Claims(accounts, b) + (q.aToken[b] - p.aToken[b])
        /\ Debts(changed, b) = Debts(accounts, b) + (DebtOf(q, b) - DebtOf(p, b))
    BY <1>1, ClaimsMove, DebtsMove
  <2> HIDE DEF p
  <2>5. QED
    BY <2>1, <2>2, <2>3, <2>4
<1>3. QED
  BY <1>1, <1>2 DEF Shift, Updates

LEMMA SumsAreSupplies ==
  ASSUME NEW a \in Assets
  PROVE  /\ ATokenSupply(a) = Claims(account, a) /\ ATokenSupply(a)' = Claims(account', a)
         /\ Owed(a) = Debts(account, a) /\ Owed(a)' = Debts(account', a)
  BY DEF ATokenSupply, StableSupply, VariableSupply, Owed, Claims, Stable, Variable, Debts

LEMMA SuppliesAreNat ==
  ASSUME TypeOK, NEW a \in Assets
  PROVE  /\ ATokenSupply(a) \in Nat /\ Owed(a) \in Nat
         /\ liquidity[a] \in Nat /\ reserve[a].unbacked \in Nat
<1>1. account \in [Accounts -> Account]
  BY DEF TypeOK
<1>2. Claims(account, a) \in Nat /\ Debts(account, a) \in Nat
  BY <1>1, SumsOfBalances
<1>3. liquidity[a] \in Nat /\ reserve[a].unbacked \in Nat
  BY DEF TypeOK, ReserveData
<1>4. QED
  BY <1>2, <1>3, SumsAreSupplies

LEMMA ShiftIsBooked ==
  ASSUME NEW a \in Assets, NEW claims, NEW owed, Shift(account, account', a, claims, owed),
         NEW b \in Assets
  PROVE  /\ ATokenSupply(b)' = ATokenSupply(b) + Only(a, b, claims)
         /\ Owed(b)' = Owed(b) + Only(a, b, owed)
  BY SumsAreSupplies DEF Shift

\* Two shifts in one asset are one.
LEMMA ShiftTwice ==
  ASSUME NEW accounts \in [Accounts -> Account], NEW between, NEW changed, NEW a \in Assets,
         NEW claims \in Int, NEW owed \in Int, NEW moreClaims \in Int, NEW moreOwed \in Int,
         Shift(accounts, between, a, claims, owed),
         Shift(between, changed, a, moreClaims, moreOwed)
  PROVE  Shift(accounts, changed, a, claims + moreClaims, owed + moreOwed)
<1>1. ASSUME NEW b \in Assets
      PROVE  /\ Claims(changed, b) = Claims(accounts, b) + Only(a, b, claims + moreClaims)
             /\ Debts(changed, b) = Debts(accounts, b) + Only(a, b, owed + moreOwed)
  <2>1. Claims(accounts, b) \in Nat /\ Debts(accounts, b) \in Nat
    BY SumsOfBalances
  <2>2. /\ Claims(between, b) = Claims(accounts, b) + Only(a, b, claims)
        /\ Debts(between, b) = Debts(accounts, b) + Only(a, b, owed)
        /\ Claims(changed, b) = Claims(between, b) + Only(a, b, moreClaims)
        /\ Debts(changed, b) = Debts(between, b) + Only(a, b, moreOwed)
    BY DEF Shift
  <2>3. QED
    BY <2>1, <2>2 DEF Only
<1>2. QED
  BY <1>1 DEF Shift

\* A step that moves accounts, cash and unbacked of one reserve.
LEMMA ShiftEntry ==
  ASSUME NEW a \in Assets, NEW cash, NEW claims, NEW owed, NEW unbacked,
         Shift(account, account', a, claims, owed),
         \A b \in Assets : liquidity'[b] = liquidity[b] + Only(a, b, cash),
         \A b \in Assets : reserve'[b].unbacked = reserve[b].unbacked + Only(a, b, unbacked)
  PROVE  Entered(a, cash, claims, owed, unbacked)
<1>1. ASSUME NEW b \in Assets
      PROVE  Booked(b, Only(a, b, cash), Only(a, b, claims), Only(a, b, owed), Only(a, b, unbacked))
  <2>1. /\ ATokenSupply(b)' = ATokenSupply(b) + Only(a, b, claims)
        /\ Owed(b)' = Owed(b) + Only(a, b, owed)
    BY ShiftIsBooked
  <2>2. QED
    BY <2>1 DEF Booked
<1>2. QED
  BY <1>1 DEF Entered

LEMMA OneEntry ==
  ASSUME TypeOK, NEW u \in Accounts, NEW a \in Assets,
         NEW cash, NEW claims \in Int, NEW owed \in Int, NEW unbacked,
         NEW q, Moves(account[u], q, a, claims, owed), account' = [account EXCEPT ![u] = q],
         \A b \in Assets : liquidity'[b] = liquidity[b] + Only(a, b, cash),
         \A b \in Assets : reserve'[b].unbacked = reserve[b].unbacked + Only(a, b, unbacked)
  PROVE  Entered(a, cash, claims, owed, unbacked)
<1>1. account \in [Accounts -> Account]
  BY DEF TypeOK
<1>2. Shift(account, account', a, claims, owed)
  BY <1>1, PositionShifts
<1>3. QED
  BY <1>2, ShiftEntry

\* A step that leaves accounts and cash alone, and the unbacked.
LEMMA NoEntry ==
  ASSUME TypeOK, UNCHANGED <<account, liquidity>>,
         \A b \in Assets : reserve'[b].unbacked = reserve[b].unbacked
  PROVE  NothingEntered
<1>1. ASSUME NEW b \in Assets
      PROVE  Booked(b, 0, 0, 0, 0)
  <2>1. ATokenSupply(b)' = ATokenSupply(b) /\ Owed(b)' = Owed(b)
    BY SumsAreSupplies
  <2>2. QED
    BY <2>1, SuppliesAreNat DEF Booked
<1>2. QED
  BY <1>1 DEF NothingEntered

\* The isolation counters are no part of the books.
LEMMA IsolationIsNotBooked ==
  ASSUME TypeOK, NEW p, NEW n, reserve' = ChargeIsolation(p, n) \/ reserve' = ReleaseIsolation(p, n),
         NEW b \in Assets
  PROVE  reserve'[b].unbacked = reserve[b].unbacked
<1> DEFINE c == IsolationAsset(p)
<1> HIDE DEF c
<1>1. \/ reserve' = reserve
      \/ \E m : reserve' = [reserve EXCEPT ![c].isolationDebt = m]
  BY DEF ChargeIsolation, ReleaseIsolation, c
<1>2. QED
  BY <1>1 DEF TypeOK, ReserveData

-----------------------------------------------------------------------------
(* The entry of each call.                                                  *)

LEMMA SupplyEntry ==
  ASSUME IndInv, NEW u \in Users, NEW a \in Assets, NEW n \in Amounts, Supply(u, a, n)
  PROVE  Entered(a, n, n, 0, 0)
<1>1. n \in Nat /\ u \in Accounts
  BY InputsAssumption DEF Accounts
<1>2. Id(a) \in Ids
  BY ListedIds DEF Supply, ValidateSupply, Active, IndInv
<1>3. account[u] \in Account
  BY <1>1 DEF IndInv, TypeOK
<1>4. Moves(account[u], SupplyTo(account[u], a, n), a, n, 0)
  BY <1>1, <1>2, <1>3, ReceivingMoves
<1>5. /\ account' = [account EXCEPT ![u] = SupplyTo(account[u], a, n)]
      /\ liquidity' = [liquidity EXCEPT ![a] = @ + n] /\ reserve' = reserve
  BY DEF Supply
<1> DEFINE q == SupplyTo(account[u], a, n)
<1> HIDE DEF q
<1>6. \A b \in Assets : /\ liquidity'[b] = liquidity[b] + Only(a, b, n)
                        /\ reserve'[b].unbacked = reserve[b].unbacked + Only(a, b, 0)
  BY <1>1, <1>5 DEF IndInv, TypeOK, ReserveData, Only
<1>7. TypeOK /\ Moves(account[u], q, a, n, 0) /\ account' = [account EXCEPT ![u] = q]
  BY <1>4, <1>5 DEF IndInv, q
<1>8. n \in Int /\ 0 \in Int
  BY <1>1
<1>9. QED
  BY <1>1, <1>6, <1>7, <1>8, OneEntry

LEMMA WithdrawEntry ==
  ASSUME IndInv, NEW u \in Users, NEW a \in Assets, NEW n \in Amounts \cup {account[u].aToken[a]},
         Withdraw(u, a, n)
  PROVE  Entered(a, -n, -n, 0, 0)
<1>1. u \in Accounts
  BY DEF Accounts
<1>2. n \in Nat /\ n \in 0 .. account[u].aToken[a] /\ account[u] \in Account
  <2>1. account[u].aToken[a] \in Nat /\ account[u] \in Account
    BY <1>1, Balances DEF IndInv, TypeOK
  <2>2. n \in Nat /\ n <= account[u].aToken[a]
    BY <2>1, InputsAssumption DEF Withdraw, ValidateWithdraw
  <2>3. QED
    BY <2>1, <2>2
<1>3. Moves(account[u], GiveUp(account[u], a, n), a, -n, 0)
  BY <1>2, GiveUpMoves
<1>4. /\ account' = [account EXCEPT ![u] = GiveUp(account[u], a, n)]
      /\ liquidity' = [liquidity EXCEPT ![a] = @ - n] /\ reserve' = reserve
  BY DEF Withdraw
<1> DEFINE q == GiveUp(account[u], a, n)
           m == -n
<1> HIDE DEF q
<1>5. \A b \in Assets : /\ liquidity'[b] = liquidity[b] + Only(a, b, m)
                        /\ reserve'[b].unbacked = reserve[b].unbacked + Only(a, b, 0)
  BY <1>2, <1>4 DEF IndInv, TypeOK, ReserveData, Only
<1>6. m \in Int /\ 0 \in Int
  BY <1>2
<1> HIDE DEF m
<1>7. TypeOK /\ Moves(account[u], q, a, m, 0) /\ account' = [account EXCEPT ![u] = q]
  BY <1>3, <1>4 DEF IndInv, q, m
<1>8. Entered(a, m, m, 0, 0)
  BY <1>1, <1>5, <1>6, <1>7, OneEntry
<1>9. QED
  BY <1>8 DEF m

LEMMA ZeroEntry ==
  ASSUME NEW a \in Assets, Entered(a, 0, 0, 0, 0)
  PROVE  NothingEntered
  BY DEF Entered, NothingEntered, Only

\* A step that moves no money and no balance but those of accounts.
LEMMA NoMoneyMoves ==
  ASSUME TypeOK, NEW a \in Assets, UNCHANGED <<reserve, liquidity>>
  PROVE  \A b \in Assets : /\ liquidity'[b] = liquidity[b] + Only(a, b, 0)
                           /\ reserve'[b].unbacked = reserve[b].unbacked + Only(a, b, 0)
  BY DEF TypeOK, ReserveData, Only

\* Flags and modes: nothing is entered.
LEMMA SameBalancesEntry ==
  ASSUME TypeOK, NEW u \in Accounts, NEW q, SameBalances(account[u], q),
         account' = [account EXCEPT ![u] = q], UNCHANGED <<reserve, liquidity>>
  PROVE  NothingEntered
<1>1. CASE Assets = {}
  BY <1>1 DEF NothingEntered
<1>2. ASSUME NEW a \in Assets
      PROVE  NothingEntered
  <2>1. account[u] \in Account
    BY DEF TypeOK
  <2>2. Moves(account[u], account[u], a, 0, 0)
    BY <2>1 DEF Moves, Account, DebtOf, Only
  <2>3. Moves(account[u], q, a, 0, 0)
    BY <2>2, FlagsMoveNothing
  <2>4. 0 \in Int
    OBVIOUS
  <2>5. Entered(a, 0, 0, 0, 0)
    BY <2>3, <2>4, NoMoneyMoves, OneEntry
  <2>6. QED
    BY <2>5, ZeroEntry
<1>3. QED
  BY <1>1, <1>2

LEMMA TransferEntry ==
  ASSUME IndInv, NEW u \in Users, NEW to \in Accounts, NEW a \in Assets,
         NEW n \in Amounts \cup {account[u].aToken[a]}, Transfer(u, to, a, n)
  PROVE  NothingEntered
<1> DEFINE sender   == GiveUp(account[u], a, n)
           receiver == ReceiveTransfer(account[to], a, n)
           paid     == [account EXCEPT ![u] = sender]
           m        == -n
<1>1. u \in Accounts /\ u # to
  BY DEF Accounts, Transfer
<1>2. n \in 0 .. account[u].aToken[a] /\ n \in Nat /\ n \in Int /\ m \in Int /\ m + n = 0
  <2>1. account[u].aToken[a] \in Nat
    BY <1>1, Balances
  <2>2. n \in Nat /\ n <= account[u].aToken[a]
    BY <2>1, InputsAssumption DEF Transfer
  <2>3. QED
    BY <2>1, <2>2
<1>3. Id(a) \in Ids
  BY ListedIds DEF Transfer, ValidateTransfer, IndInv
<1>4. account \in [Accounts -> Account] /\ account[u] \in Account /\ account[to] \in Account
  BY <1>1 DEF IndInv, TypeOK
<1>5. Moves(account[u], sender, a, m, 0)
  BY <1>2, <1>4, GiveUpMoves
<1>6. Moves(account[to], receiver, a, n, 0)
  BY <1>2, <1>3, <1>4, ReceivingMoves
<1> HIDE DEF sender, receiver, m
<1>7. account' = [paid EXCEPT ![to] = receiver]
  <2>1. account' = [account EXCEPT ![u] = sender, ![to] = receiver]
    BY <1>1, <1>4 DEF Transfer, sender, receiver
  <2>2. QED
    BY <2>1
<1>8. paid \in [Accounts -> Account] /\ paid[to] = account[to]
  BY <1>1, <1>4, <1>5, MovesIsAccount
<1>9. 0 \in Int
  OBVIOUS
<1>10. Shift(account, paid, a, m, 0)
  BY <1>1, <1>2, <1>4, <1>5, <1>9, PositionShifts
<1> HIDE DEF paid
<1>11. Moves(paid[to], receiver, a, n, 0)
  BY <1>6, <1>8
<1>12. Shift(paid, account', a, n, 0)
  BY <1>2, <1>7, <1>8, <1>9, <1>11, PositionShifts
<1>13. Shift(account, account', a, m + n, 0 + 0)
  BY <1>2, <1>4, <1>9, <1>10, <1>12, ShiftTwice
<1>14. Shift(account, account', a, 0, 0)
  BY <1>2, <1>13
<1>15. UNCHANGED <<reserve, liquidity>>
  BY DEF Transfer
<1>16. Entered(a, 0, 0, 0, 0)
  BY <1>14, <1>15, NoMoneyMoves, ShiftEntry DEF IndInv
<1>17. QED
  BY <1>16, ZeroEntry

LEMMA SetUserUseReserveAsCollateralEntry ==
  ASSUME IndInv, NEW u \in Users, NEW a \in Assets, NEW use \in BOOLEAN,
         SetUserUseReserveAsCollateral(u, a, use)
  PROVE  NothingEntered
<1> DEFINE q == SetUsingAsCollateral(account[u], a, use)
<1>1. u \in Accounts
  BY DEF Accounts
<1>2. Id(a) \in Ids
  BY ListedIds
     DEF SetUserUseReserveAsCollateral, ValidateSetUseReserveAsCollateral, Active, IndInv
<1>3. account[u] \in Account
  BY <1>1 DEF IndInv, TypeOK
<1>4. SameBalances(account[u], q)
  BY <1>2, <1>3, CollateralFlagBalances
<1>5. account' = [account EXCEPT ![u] = q] /\ UNCHANGED <<reserve, liquidity>>
  BY DEF SetUserUseReserveAsCollateral
<1> HIDE DEF q
<1>6. QED
  BY <1>1, <1>4, <1>5, SameBalancesEntry DEF IndInv

LEMMA BorrowEntry ==
  ASSUME IndInv, NEW u \in Users, NEW a \in Assets, NEW n \in Amounts, NEW mode \in Modes,
         Borrow(u, a, n, mode)
  PROVE  Entered(a, -n, 0, n, 0)
<1> DEFINE q == BorrowFor(account[u], a, n, mode)
           m == -n
<1>1. u \in Accounts /\ n \in Nat /\ n \in Int /\ 0 \in Int
  BY InputsAssumption DEF Accounts
<1>2. Id(a) \in Ids
  BY ListedIds DEF Borrow, ValidateBorrow, Active, IndInv
<1>3. account[u] \in Account
  BY <1>1 DEF IndInv, TypeOK
<1>4. Moves(account[u], q, a, 0, n)
  BY <1>1, <1>2, <1>3, BorrowForMoves
<1>5. /\ account' = [account EXCEPT ![u] = q]
      /\ reserve' = ChargeIsolation(account[u], n)
      /\ liquidity' = [liquidity EXCEPT ![a] = @ - n]
  BY DEF Borrow
<1> HIDE DEF q
<1>6. \A b \in Assets : liquidity'[b] = liquidity[b] + Only(a, b, m)
  BY <1>1, <1>5 DEF IndInv, TypeOK, Only
<1>7. \A b \in Assets : reserve'[b].unbacked = reserve[b].unbacked + Only(a, b, 0)
  <2>1. \A b \in Assets : reserve'[b].unbacked = reserve[b].unbacked
    BY <1>5, IsolationIsNotBooked DEF IndInv
  <2>2. QED
    BY <2>1 DEF IndInv, TypeOK, ReserveData, Only
<1> HIDE DEF m
<1>8. Entered(a, m, 0, n, 0)
  BY <1>1, <1>4, <1>5, <1>6, <1>7, OneEntry DEF IndInv
<1>9. QED
  BY <1>8 DEF m

LEMMA RepayEntry ==
  ASSUME IndInv, NEW u \in Users, NEW a \in Assets, NEW mode \in Modes,
         NEW n \in Amounts \cup {account[u][mode][a]}, Repay(u, a, n, mode)
  PROVE  \E paid \in Nat : Entered(a, paid, 0, -paid, 0)
<1> DEFINE payback == Payback(account[u], a, n, mode)
           q == RepayOf(account[u], a, payback, mode)
           m == -payback
<1>1. u \in Accounts
  BY DEF Accounts
<1>2. payback \in Nat /\ payback \in 0 .. account[u][mode][a]
  BY <1>1, PaybackIsOwed
<1>3. account[u] \in Account
  BY <1>1 DEF IndInv, TypeOK
<1>4. /\ account' = [account EXCEPT ![u] = q]
      /\ reserve' = ReleaseIsolation(account[u], payback)
      /\ liquidity' = [liquidity EXCEPT ![a] = @ + payback]
  BY DEF Repay
<1> HIDE DEF payback
<1>5. Moves(account[u], q, a, 0, m) /\ m \in Int /\ 0 \in Int
  BY <1>2, <1>3, RepayOfMoves
<1> HIDE DEF q
<1>6. \A b \in Assets : liquidity'[b] = liquidity[b] + Only(a, b, payback)
  BY <1>2, <1>4 DEF IndInv, TypeOK, Only
<1>7. \A b \in Assets : reserve'[b].unbacked = reserve[b].unbacked + Only(a, b, 0)
  <2>1. \A b \in Assets : reserve'[b].unbacked = reserve[b].unbacked
    BY <1>4, IsolationIsNotBooked DEF IndInv
  <2>2. QED
    BY <2>1 DEF IndInv, TypeOK, ReserveData, Only
<1> HIDE DEF m
<1>8. Entered(a, payback, 0, m, 0)
  BY <1>1, <1>4, <1>5, <1>6, <1>7, OneEntry DEF IndInv
<1>9. QED
  BY <1>2, <1>8 DEF m

LEMMA RepayWithATokensEntry ==
  ASSUME IndInv, NEW sender \in Users, NEW u \in Users, NEW a \in Assets, NEW mode \in Modes,
         NEW n \in Amounts \cup {account[u][mode][a]}, RepayWithATokens(sender, u, a, n, mode)
  PROVE  \E paid \in Nat : Entered(a, 0, -paid, -paid, 0)
<1> DEFINE payback == Payback(account[u], a, n, mode)
           debtor  == RepayOf(account[u], a, payback, mode)
           repaid  == [account EXCEPT ![u] = debtor]
           m       == -payback
<1>1. u \in Accounts /\ sender \in Accounts
  BY DEF Accounts
<1>2. payback \in Nat /\ payback \in 0 .. account[u][mode][a]
  BY <1>1, PaybackIsOwed
<1>3. account \in [Accounts -> Account] /\ account[u] \in Account /\ account[sender] \in Account
  BY <1>1 DEF IndInv, TypeOK
<1> HIDE DEF payback
<1>4. /\ payback <= account[sender].aToken[a]
      /\ account' = [repaid EXCEPT ![sender] = BurnAToken(@, a, payback)]
      /\ reserve' = ReleaseIsolation(account[u], payback)
      /\ UNCHANGED liquidity
  BY DEF RepayWithATokens, payback
<1>5. Moves(account[u], debtor, a, 0, m) /\ m \in Int /\ 0 \in Int
  BY <1>2, <1>3, RepayOfMoves
<1> HIDE DEF debtor
<1>6. debtor \in Account /\ debtor.aToken[a] = account[u].aToken[a]
  BY <1>3, <1>5 DEF Moves, Only, Account
<1>7. repaid \in [Accounts -> Account] /\ repaid[sender] \in Account
  BY <1>1, <1>3, <1>6
<1>8. repaid[sender].aToken[a] = account[sender].aToken[a]
  BY <1>1, <1>3, <1>6
<1>9. payback \in 0 .. repaid[sender].aToken[a]
  <2>1. account[sender].aToken[a] \in Nat
    BY <1>1, Balances
  <2>2. QED
    BY <1>2, <1>4, <1>8, <2>1
<1>10. Shift(account, repaid, a, 0, m)
  BY <1>1, <1>3, <1>5, PositionShifts
<1> DEFINE paying == BurnAToken(repaid[sender], a, payback)
<1>11. account' = [repaid EXCEPT ![sender] = paying]
  BY <1>4
<1> HIDE DEF repaid
<1>12. Moves(repaid[sender], paying, a, m, 0)
  BY <1>7, <1>9, BurnATokenMoves
<1> HIDE DEF paying, m
<1>13. Shift(repaid, account', a, m, 0)
  BY <1>1, <1>5, <1>7, <1>11, <1>12, PositionShifts
<1>14. Shift(account, account', a, 0 + m, m + 0)
  BY <1>3, <1>5, <1>10, <1>13, ShiftTwice
<1>15. Shift(account, account', a, m, m)
  BY <1>5, <1>14
<1>16. \A b \in Assets : /\ liquidity'[b] = liquidity[b] + Only(a, b, 0)
                         /\ reserve'[b].unbacked = reserve[b].unbacked + Only(a, b, 0)
  <2>1. \A b \in Assets : reserve'[b].unbacked = reserve[b].unbacked
    BY <1>4, IsolationIsNotBooked DEF IndInv
  <2>2. QED
    BY <1>4, <2>1 DEF IndInv, TypeOK, ReserveData, Only
<1>17. Entered(a, 0, m, m, 0)
  BY <1>15, <1>16, ShiftEntry
<1>18. QED
  BY <1>2, <1>17 DEF m

LEMMA SwapBorrowRateModeEntry ==
  ASSUME IndInv, NEW u \in Users, NEW a \in Assets, NEW mode \in Modes,
         SwapBorrowRateMode(u, a, mode)
  PROVE  NothingEntered
<1> DEFINE debt == account[u][mode][a]
           q    == MintDebt(BurnDebt(account[u], a, debt, mode), a, debt, OtherMode(mode))
<1>1. u \in Accounts /\ 0 \in Int
  BY DEF Accounts
<1>2. account[u] \in Account
  BY <1>1 DEF IndInv, TypeOK
<1>3. Moves(account[u], q, a, 0, 0)
  BY <1>2, SwapMovesNothing
<1>4. account' = [account EXCEPT ![u] = q] /\ UNCHANGED <<reserve, liquidity>>
  BY DEF SwapBorrowRateMode
<1> HIDE DEF q
<1>5. Entered(a, 0, 0, 0, 0)
  BY <1>1, <1>3, <1>4, NoMoneyMoves, OneEntry DEF IndInv
<1>6. QED
  BY <1>5, ZeroEntry

\* What a liquidation takes from the accounts: debt in one asset, collateral in
\* another, or in the same.
SeizedFrom(accounts, changed, c, d, seized, paid) ==
  /\ changed \in [Accounts -> Account]
  /\ \A b \in Assets : /\ Claims(changed, b) = Claims(accounts, b) - Only(c, b, seized)
                       /\ Debts(changed, b) = Debts(accounts, b) - Only(d, b, paid)

LEMMA SeizureShifts ==
  ASSUME NEW accounts \in [Accounts -> Account], NEW u \in Accounts,
         NEW c \in Assets, NEW d \in Assets, NEW seized \in Nat, NEW paid \in Nat,
         NEW q, Seizes(accounts[u], q, c, d, seized, paid),
         NEW changed, changed = [accounts EXCEPT ![u] = q]
  PROVE  SeizedFrom(accounts, changed, c, d, seized, paid)
<1> DEFINE p == accounts[u]
<1>1. Updates(accounts, changed, u, q)
  BY DEF Updates, Seizes
<1>2. ASSUME NEW b \in Assets
      PROVE  /\ Claims(changed, b) = Claims(accounts, b) - Only(c, b, seized)
             /\ Debts(changed, b) = Debts(accounts, b) - Only(d, b, paid)
  <2>1. /\ q.aToken[b] = p.aToken[b] - Only(c, b, seized)
        /\ DebtOf(q, b) = DebtOf(p, b) - Only(d, b, paid)
    BY DEF Seizes
  <2>2. /\ p.aToken[b] \in Nat /\ DebtOf(p, b) \in Nat
        /\ Claims(accounts, b) \in Nat /\ Debts(accounts, b) \in Nat
    BY SumsOfBalances DEF Account, DebtOf
  <2>3. Only(c, b, seized) \in Nat /\ Only(d, b, paid) \in Nat
    BY DEF Only
  <2>4. /\ Claims(changed, b) = Claims(accounts, b) + (q.aToken[b] - p.aToken[b])
        /\ Debts(changed, b) = Debts(accounts, b) + (DebtOf(q, b) - DebtOf(p, b))
    BY <1>1, ClaimsMove, DebtsMove
  <2> HIDE DEF p
  <2>5. QED
    BY <2>1, <2>2, <2>3, <2>4
<1>3. QED
  BY <1>1, <1>2 DEF Updates, SeizedFrom

\* The debtor's collateral c pays its owner out, in cash or not, and his debt d is
\* paid in; a fee stays with the treasury.
Liquidated(c, d, paid, out) ==
  \A b \in Assets : Booked(b, Only(d, b, paid) - Only(c, b, out), -Only(c, b, out),
                           -Only(d, b, paid), 0)

LEMMA LiquidationCallEntry ==
  ASSUME IndInv, NEW l \in Users, NEW u \in Users, NEW c \in Assets, NEW d \in Assets,
         NEW n \in Amounts, NEW receive \in BOOLEAN, LiquidationCall(l, u, c, d, n, receive)
  PROVE  \E paid \in Nat, out \in Nat : Liquidated(c, d, paid, out)
<1> DEFINE p     == account[u]
           terms == Terms(p, c, d, n)
           toLiquidator == terms.seized - terms.fee
           first == account[l].aToken[c] = 0
           all   == toLiquidator = p.aToken[c]
           receiver == ReceiveLiquidated(account[l], c, toLiquidator, first)
           received == IF receive THEN [account EXCEPT ![l] = receiver] ELSE account
           taken  == [received EXCEPT ![u] = LiquidatedPosition(@, c, d, terms, all)]
           paidIn == [liquidity EXCEPT ![d] = @ + terms.debt]
<1>1. l \in Accounts /\ u \in Accounts /\ Treasury \in Accounts /\ n \in Nat /\ 0 \in Int
  BY InputsAssumption DEF Accounts
<1>2. /\ reserve[c].listed /\ config[c].lt > 0 /\ PricesAllow(c, d)
      /\ terms.debt <= DebtOf(p, d) /\ terms.fee <= terms.seized
      /\ reserve' = ReleaseIsolation(p, terms.debt)
      /\ account' = [taken EXCEPT ![Treasury] = MintAToken(@, c, terms.fee)]
      /\ IF receive THEN liquidity' = paidIn
                    ELSE liquidity' = [paidIn EXCEPT ![c] = @ - toLiquidator]
  BY DEF LiquidationCall, ValidateLiquidationCall, Active
<1>3. account \in [Accounts -> Account] /\ p \in Account /\ account[l] \in Account
  BY <1>1 DEF IndInv, TypeOK
<1>4. terms.seized \in 0 .. p.aToken[c] /\ terms.fee \in Nat /\ terms.debt \in Nat
  BY <1>1, <1>2, LiquidationInputs
<1>5. p.aToken[c] \in Nat /\ DebtOf(p, d) \in Nat
  BY <1>1, Balances
<1> HIDE DEF terms
<1>6. /\ toLiquidator \in Nat /\ toLiquidator \in Int
      /\ terms.seized \in Nat /\ terms.seized = toLiquidator + terms.fee
  BY <1>2, <1>4, <1>5
<1> HIDE DEF toLiquidator
<1>7. Id(c) \in Ids /\ first \in BOOLEAN /\ all \in BOOLEAN
  BY <1>2, ListedIds DEF IndInv
<1> HIDE DEF first, all
<1> DEFINE in  == IF receive THEN toLiquidator ELSE 0
           out == IF receive THEN 0 ELSE toLiquidator
<1>8. /\ in \in Nat /\ out \in Nat /\ in \in Int /\ out \in Int
      /\ in + terms.fee - terms.seized = -out
  BY <1>4, <1>6
<1>9. Moves(account[l], receiver, c, toLiquidator, 0)
  BY <1>3, <1>6, <1>7, ReceivingMoves
<1> HIDE DEF receiver
<1>10. /\ received \in [Accounts -> Account]
       /\ Shift(account, received, c, in, 0)
  <2>1. CASE receive
    <3>1. received = [account EXCEPT ![l] = receiver] /\ in = toLiquidator
      BY <2>1
    <3>2. Shift(account, received, c, toLiquidator, 0)
      BY <1>1, <1>3, <1>6, <1>9, <3>1, PositionShifts
    <3>3. QED
      BY <3>1, <3>2 DEF Shift
  <2>2. CASE ~receive
    <3>1. received = account /\ in = 0
      BY <2>2
    <3>2. \A b \in Assets : Claims(account, b) \in Nat /\ Debts(account, b) \in Nat
      BY <1>3, SumsOfBalances
    <3> HIDE DEF received, in
    <3>3. Shift(account, account, c, 0, 0)
      BY <1>3, <3>2 DEF Shift, Only
    <3>4. QED
      BY <1>3, <3>1, <3>3
  <2>3. QED
    BY <2>1, <2>2
<1>11. /\ DebtOf(received[u], d) = DebtOf(p, d)
       /\ received[u].aToken[c] \in Nat /\ received[u].aToken[c] >= p.aToken[c]
  <2>1. CASE receive /\ l = u
    <3>1. received[u] = receiver
      BY <1>1, <1>3, <2>1
    <3>2. /\ DebtOf(receiver, d) = DebtOf(p, d) + 0
          /\ receiver.aToken[c] = p.aToken[c] + toLiquidator
      BY <1>9, <2>1 DEF Moves, Only
    <3>3. QED
      BY <1>5, <1>6, <3>1, <3>2
  <2>2. CASE ~receive \/ l # u
    <3>1. received[u] = p
      BY <1>1, <1>3, <2>2
    <3>2. QED
      BY <1>5, <3>1
  <2>3. QED
    BY <2>1, <2>2
<1> HIDE DEF received, p
<1>12. terms.debt \in 0 .. DebtOf(received[u], d) /\ terms.seized \in 0 .. received[u].aToken[c]
  BY <1>2, <1>4, <1>5, <1>11
<1>13. SeizedFrom(received, taken, c, d, terms.seized, terms.debt)
  <2> DEFINE debtor == LiquidatedPosition(received[u], c, d, terms, all)
             seized == terms.seized
             paid   == terms.debt
  <2>1. received[u] \in Account /\ received \in [Accounts -> Account]
    BY <1>1, <1>10
  <2>2. Seizes(received[u], debtor, c, d, seized, paid)
    BY <1>7, <1>12, <2>1, LiquidatedPositionSeizes
  <2>3. taken = [received EXCEPT ![u] = debtor] /\ seized \in Nat /\ paid \in Nat
    BY <1>4, <1>6
  <2> HIDE DEF taken, debtor, seized, paid
  <2>4. SeizedFrom(received, taken, c, d, seized, paid)
    BY <1>1, <2>1, <2>2, <2>3, SeizureShifts
  <2>5. QED
    BY <2>4 DEF seized, paid
<1> HIDE DEF taken
<1> DEFINE treasury == MintAToken(taken[Treasury], c, terms.fee)
<1>14. taken \in [Accounts -> Account] /\ taken[Treasury] \in Account
  BY <1>1, <1>13 DEF SeizedFrom
<1>15. Moves(taken[Treasury], treasury, c, terms.fee, 0)
  BY <1>4, <1>14, MintATokenMoves
<1>16. account' = [taken EXCEPT ![Treasury] = treasury] /\ terms.fee \in Int
  BY <1>2, <1>4
<1> HIDE DEF treasury
<1>17. Shift(taken, account', c, terms.fee, 0)
  BY <1>1, <1>14, <1>15, <1>16, PositionShifts
<1>18. ASSUME NEW b \in Assets
       PROVE  /\ ATokenSupply(b)' = ATokenSupply(b) + -Only(c, b, out)
              /\ Owed(b)' = Owed(b) + -Only(d, b, terms.debt)
  <2>1. Claims(account, b) \in Nat /\ Debts(account, b) \in Nat
    BY <1>3, SumsOfBalances
  <2>2. /\ Claims(received, b) = Claims(account, b) + Only(c, b, in)
        /\ Debts(received, b) = Debts(account, b) + Only(c, b, 0)
        /\ Claims(account', b) = Claims(taken, b) + Only(c, b, terms.fee)
        /\ Debts(account', b) = Debts(taken, b) + Only(c, b, 0)
    BY <1>10, <1>17 DEF Shift
  <2> HIDE DEF in, out
  <2>3. /\ Claims(account', b) = Claims(account, b) + -Only(c, b, out)
        /\ Debts(account', b) = Debts(account, b) + -Only(d, b, terms.debt)
    BY <1>4, <1>6, <1>8, <1>13, <2>1, <2>2 DEF Only, SeizedFrom
  <2>4. QED
    BY <2>3, SumsAreSupplies
<1>19. ASSUME NEW b \in Assets
       PROVE  liquidity'[b] = liquidity[b] + (Only(d, b, terms.debt) - Only(c, b, out))
  <2>1. liquidity \in [Assets -> Nat]
    BY DEF IndInv, TypeOK
  <2>2. paidIn \in [Assets -> Nat] /\ paidIn[b] = liquidity[b] + Only(d, b, terms.debt)
    BY <1>4, <2>1 DEF Only
  <2> HIDE DEF paidIn
  <2>3. liquidity'[b] = paidIn[b] - Only(c, b, out)
    BY <1>2, <1>6, <2>2 DEF Only
  <2>4. QED
    BY <1>4, <1>6, <2>1, <2>2, <2>3 DEF Only
<1>20. ASSUME NEW b \in Assets
       PROVE  reserve'[b].unbacked = reserve[b].unbacked + 0
  BY <1>2, IsolationIsNotBooked DEF IndInv, TypeOK, ReserveData
<1> HIDE DEF out
<1>21. Liquidated(c, d, terms.debt, out)
  BY <1>18, <1>19, <1>20 DEF Liquidated, Booked
<1>22. QED
  BY <1>4, <1>8, <1>21

LEMMA MintUnbackedEntry ==
  ASSUME IndInv, NEW u \in Users, NEW a \in Assets, NEW n \in Amounts, MintUnbacked(u, a, n)
  PROVE  Entered(a, 0, n, 0, n)
<1> DEFINE q == MintUnbackedTo(account[u], a, n)
<1>1. n \in Nat /\ n \in Int /\ 0 \in Int /\ u \in Accounts
  BY InputsAssumption DEF Accounts
<1>2. Id(a) \in Ids
  BY ListedIds DEF MintUnbacked, ValidateSupply, Active, IndInv
<1>3. account[u] \in Account
  BY <1>1 DEF IndInv, TypeOK
<1>4. Moves(account[u], q, a, n, 0)
  BY <1>1, <1>2, <1>3, ReceivingMoves
<1>5. /\ account' = [account EXCEPT ![u] = q]
      /\ reserve' = [reserve EXCEPT ![a].unbacked = @ + n] /\ liquidity' = liquidity
  BY DEF MintUnbacked
<1> HIDE DEF q
<1>6. \A b \in Assets : /\ liquidity'[b] = liquidity[b] + Only(a, b, 0)
                        /\ reserve'[b].unbacked = reserve[b].unbacked + Only(a, b, n)
  BY <1>1, <1>5 DEF IndInv, TypeOK, ReserveData, Only
<1>7. QED
  BY <1>1, <1>4, <1>5, <1>6, OneEntry DEF IndInv

LEMMA BackUnbackedEntry ==
  ASSUME IndInv, NEW a \in Assets, NEW n \in Amounts, NEW fee \in Amounts \cup {0},
         NEW x \in Accounts, BackUnbacked(a, n, fee, x)
  PROVE  \E backing \in Nat : Entered(a, backing + fee, fee, 0, -backing)
<1> DEFINE backing == Least(n, reserve[a].unbacked)
           q == MintAToken(account[x], a, fee)
           cash == backing + fee
           m == -backing
<1>1. n \in Nat /\ fee \in Nat /\ fee \in Int /\ 0 \in Int
  BY InputsAssumption
<1>2. reserve[a].unbacked \in Nat
  BY DEF IndInv, TypeOK, ReserveData
<1>3. backing \in Nat /\ m \in Int /\ cash \in Nat
  BY <1>1, <1>2 DEF Least
<1>4. /\ account' = [account EXCEPT ![x] = q]
      /\ reserve' = [reserve EXCEPT ![a].unbacked = @ - backing]
      /\ liquidity' = [liquidity EXCEPT ![a] = @ + backing + fee]
  BY DEF BackUnbacked
<1> HIDE DEF backing
<1>5. account[x] \in Account
  BY DEF IndInv, TypeOK
<1>6. Moves(account[x], q, a, fee, 0)
  BY <1>1, <1>5, MintATokenMoves
<1> HIDE DEF q
<1>7. \A b \in Assets : liquidity'[b] = liquidity[b] + Only(a, b, cash)
  BY <1>1, <1>3, <1>4 DEF IndInv, TypeOK, Only
<1>8. \A b \in Assets : reserve'[b].unbacked = reserve[b].unbacked + Only(a, b, m)
  BY <1>3, <1>4 DEF IndInv, TypeOK, ReserveData, Only
<1> HIDE DEF m, cash
<1>9. Entered(a, cash, fee, 0, m)
  BY <1>1, <1>4, <1>6, <1>7, <1>8, OneEntry DEF IndInv
<1>10. QED
  BY <1>3, <1>9 DEF m, cash

LEMMA SetUserEModeEntry ==
  ASSUME IndInv, NEW u \in Users, NEW c \in Categories \cup {0}, SetUserEMode(u, c)
  PROVE  NothingEntered
<1> DEFINE q == [account[u] EXCEPT !.eMode = c]
<1>1. u \in Accounts /\ account[u] \in Account
  BY DEF Accounts, IndInv, TypeOK
<1>2. SameBalances(account[u], q)
  BY <1>1 DEF SameBalances, Account
<1>3. account' = [account EXCEPT ![u] = q] /\ UNCHANGED <<reserve, liquidity>>
  BY DEF SetUserEMode
<1> HIDE DEF q
<1>4. QED
  BY <1>1, <1>2, <1>3, SameBalancesEntry DEF IndInv

LEMMA AccrueEntry ==
  ASSUME IndInv, NEW u \in Users, NEW x \in Accounts, NEW a \in Assets, NEW mode \in Modes,
         Accrue(u, x, a, mode)
  PROVE  Entered(a, 0, 1, 1, 0)
<1> DEFINE debtor == MintDebt(account[u], a, 1, mode)
           owing  == [account EXCEPT ![u] = debtor]
           earner == MintAToken(owing[x], a, 1)
<1>1. u \in Accounts /\ 1 \in Nat /\ 1 \in Int /\ 0 \in Int
  BY DEF Accounts
<1>2. account \in [Accounts -> Account] /\ account[u] \in Account
  BY <1>1 DEF IndInv, TypeOK
<1>3. Moves(account[u], debtor, a, 0, 1)
  BY <1>1, <1>2, MintDebtMoves
<1>4. account' = [owing EXCEPT ![x] = earner] /\ UNCHANGED <<reserve, liquidity>>
  BY DEF Accrue
<1> HIDE DEF debtor
<1>5. Shift(account, owing, a, 0, 1)
  BY <1>1, <1>2, <1>3, PositionShifts
<1> HIDE DEF owing
<1>6. owing \in [Accounts -> Account] /\ owing[x] \in Account
  BY <1>5 DEF Shift
<1>7. Moves(owing[x], earner, a, 1, 0)
  BY <1>1, <1>6, MintATokenMoves
<1> HIDE DEF earner
<1>8. Shift(owing, account', a, 1, 0)
  BY <1>1, <1>4, <1>6, <1>7, PositionShifts
<1>9. Shift(account, account', a, 0 + 1, 1 + 0)
  BY <1>1, <1>2, <1>5, <1>8, ShiftTwice
<1>10. Shift(account, account', a, 1, 1)
  BY <1>9
<1>11. QED
  BY <1>4, <1>10, NoMoneyMoves, ShiftEntry DEF IndInv

-----------------------------------------------------------------------------
(* Every step is one of these entries.                                      *)

Entry(a, n) ==
  \/ Entered(a, n, n, 0, 0)              \* a supply
  \/ Entered(a, -n, -n, 0, 0)            \* a withdrawal
  \/ Entered(a, -n, 0, n, 0)             \* a loan
  \/ Entered(a, n, 0, -n, 0)             \* a repayment
  \/ Entered(a, 0, -n, -n, 0)            \* a repayment with aTokens
  \/ Entered(a, 0, n, n, 0)              \* interest
  \/ Entered(a, 0, n, 0, n)              \* an unbacked mint
  \/ \E fee \in Nat : Entered(a, n + fee, fee, 0, -n)  \* its backing

EntryMade ==
  \/ NothingEntered
  \/ \E a \in Assets, n \in Nat : Entry(a, n)
  \/ \E c \in Assets, d \in Assets, paid \in Nat, out \in Nat : Liquidated(c, d, paid, out)

\* What the administration leaves alone.
LEMMA SettersLeaveBooks ==
  ASSUME RiskParameters \/ Switches \/ CategoryParameters
  PROVE  UNCHANGED <<account, liquidity, reserve>>
<1> USE DEF unchangedPositions
<1>1. ASSUME NEW a, NEW c, SetConfig(a, c)
      PROVE  UNCHANGED <<account, liquidity, reserve>>
  BY <1>1 DEF SetConfig
<1>2. ASSUME RiskParameters
      PROVE  UNCHANGED <<account, liquidity, reserve>>
  BY <1>1, <1>2
     DEF RiskParameters, CollateralParameters, LimitParameters, FeeParameters,
         ConfigureReserveAsCollateral, EnableBorrowingOnReserve, SetDebtCeiling, SetBorrowCap,
         SetSupplyCap, SetUnbackedMintCap, SetReserveStableRate, SetBorrowableInIsolation,
         SetLiquidationProtocolFee
<1>3. ASSUME Switches
      PROVE  UNCHANGED <<account, liquidity, reserve>>
  BY <1>1, <1>3
     DEF Switches, ActivateReserve, DeactivateReserve, DisableBorrowingOnReserve,
         SetReserveFreeze, SetReservePause, SetPoolPause
<1>4. ASSUME CategoryParameters
      PROVE  UNCHANGED <<account, liquidity, reserve>>
  BY <1>1, <1>4 DEF CategoryParameters, SetEModeCategory, SetAssetEModeCategory
<1>5. QED
  BY <1>2, <1>3, <1>4

\* A solvent reserve in which nobody holds and nobody owes anything has no cash
\* and nothing unbacked.
LEMMA EmptyReserve ==
  ASSUME IndInv, Solvent, NEW a \in Assets, NobodyHolds(a), NobodyOwes(a)
  PROVE  /\ ATokenSupply(a) = 0 /\ Owed(a) = 0
         /\ liquidity[a] = 0 /\ reserve[a].unbacked = 0
<1>1. account \in [Accounts -> Account]
  BY DEF IndInv, TypeOK
<1>2. Claims(account, a) = 0 /\ Debts(account, a) = 0
  BY <1>1, NothingToSum DEF NobodyHolds, NobodyOwes
<1>3. ATokenSupply(a) = 0 /\ Owed(a) = 0
  BY <1>2, SumsAreSupplies
<1>4. /\ liquidity[a] \in Nat /\ reserve[a].unbacked \in Nat
      /\ Stable(account, a) \in Nat /\ Variable(account, a) \in Nat
  BY <1>1, SuppliesAreNat, SumsOfBalances DEF IndInv
<1>5. StableSupply(a) = Stable(account, a) /\ VariableSupply(a) = Variable(account, a)
  BY DEF StableSupply, VariableSupply, Stable, Variable
<1>6. ATokenSupply(a) = liquidity[a] + StableSupply(a) + VariableSupply(a) + reserve[a].unbacked
  BY DEF Solvent
<1>7. QED
  BY <1>3, <1>4, <1>5, <1>6 DEF Owed

LEMMA ListingEntry ==
  ASSUME IndInv, Solvent, Listing
  PROVE  NothingEntered
<1>1. ASSUME NEW a \in Assets, InitReserve(a)
      PROVE  NothingEntered
  <2>1. \A b \in Assets : reserve'[b].unbacked = reserve[b].unbacked
    <3>1. \E id : reserve' = [reserve EXCEPT ![a] = [reserve[a] EXCEPT !.listed = TRUE, !.id = id]]
      BY <1>1 DEF InitReserve
    <3>2. PICK id : reserve' = [reserve EXCEPT ![a] = [reserve[a] EXCEPT !.listed = TRUE, !.id = id]]
      BY <3>1
    <3>3. QED
      BY <3>2 DEF IndInv, TypeOK, ReserveData
  <2>2. UNCHANGED <<account, liquidity>>
    BY <1>1 DEF InitReserve, unchangedPositions
  <2>3. QED
    BY <2>1, <2>2, NoEntry DEF IndInv
<1>2. ASSUME NEW a \in Assets, DropReserve(a)
      PROVE  NothingEntered
  <2>1. liquidity[a] = 0 /\ reserve[a].unbacked = 0
    BY <1>2, EmptyReserve DEF DropReserve, ValidateDropReserve
  <2>2. /\ account' = account /\ reserve' = [reserve EXCEPT ![a] = NoReserve]
        /\ liquidity' = [liquidity EXCEPT ![a] = 0]
    BY <1>2 DEF DropReserve
  <2>3. liquidity' = liquidity
    BY <2>1, <2>2 DEF IndInv, TypeOK
  <2>4. \A b \in Assets : reserve'[b].unbacked = reserve[b].unbacked
    BY <2>1, <2>2 DEF IndInv, TypeOK, NoReserve
  <2>5. QED
    BY <2>2, <2>3, <2>4, NoEntry DEF IndInv
<1>3. QED
  BY <1>1, <1>2 DEF Listing

LEMMA SupplySideEntry ==
  ASSUME IndInv, SupplySide
  PROVE  EntryMade
<1>1. ASSUME NEW u \in Users, NEW a \in Assets, NEW n \in Amounts, Supply(u, a, n)
      PROVE  EntryMade
  BY <1>1, SupplyEntry, InputsAssumption DEF EntryMade, Entry
<1>2. ASSUME NEW u \in Users, NEW a \in Assets, NEW n \in Amounts \cup {account[u].aToken[a]},
             Withdraw(u, a, n)
      PROVE  EntryMade
  <2>1. n \in Nat
    BY InputsAssumption, Balances DEF Accounts
  <2>2. QED
    BY <1>2, <2>1, WithdrawEntry DEF EntryMade, Entry
<1>3. QED
  BY <1>1, <1>2, TransferEntry, SetUserUseReserveAsCollateralEntry DEF SupplySide, EntryMade

LEMMA DebtSideEntry ==
  ASSUME IndInv, DebtSide
  PROVE  EntryMade
<1>1. ASSUME NEW u \in Users, NEW a \in Assets, NEW mode \in Modes, NEW n \in Amounts,
             Borrow(u, a, n, mode)
      PROVE  EntryMade
  BY <1>1, BorrowEntry, InputsAssumption DEF EntryMade, Entry
<1>2. ASSUME NEW u \in Users, NEW a \in Assets, NEW mode \in Modes,
             NEW n \in Amounts \cup {account[u][mode][a]}, Repay(u, a, n, mode)
      PROVE  EntryMade
  BY <1>2, RepayEntry DEF EntryMade, Entry
<1>3. ASSUME NEW u \in Users, NEW a \in Assets, NEW mode \in Modes, NEW sender \in Users,
             NEW n \in Amounts \cup {account[u][mode][a]}, RepayWithATokens(sender, u, a, n, mode)
      PROVE  EntryMade
  BY <1>3, RepayWithATokensEntry DEF EntryMade, Entry
<1>4. QED
  BY <1>1, <1>2, <1>3, SwapBorrowRateModeEntry DEF DebtSide, EntryMade

LEMMA EveryEntry ==
  ASSUME IndInv, Solvent, [Next]_vars
  PROVE  EntryMade
<1>1. CASE UserNext
  <2>1. CASE Liquidations
    BY <2>1, LiquidationCallEntry DEF Liquidations, EntryMade
  <2>2. CASE UnbackedMints
    BY <2>2, MintUnbackedEntry, InputsAssumption DEF UnbackedMints, EntryMade, Entry
  <2>3. ASSUME NEW a \in Assets, NEW n \in Amounts, NEW fee \in Amounts \cup {0},
               NEW x \in Accounts, BackUnbacked(a, n, fee, x)
        PROVE  EntryMade
    <3>1. fee \in Nat
      BY InputsAssumption
    <3>2. PICK backing \in Nat : Entered(a, backing + fee, fee, 0, -backing)
      BY <2>3, BackUnbackedEntry
    <3>3. Entry(a, backing)
      BY <3>1, <3>2 DEF Entry
    <3>4. QED
      BY <3>3 DEF EntryMade
  <2>4. CASE EfficiencyMode
    BY <2>4, SetUserEModeEntry DEF EfficiencyMode, EntryMade
  <2>5. QED
    BY <1>1, <2>1, <2>2, <2>3, <2>4, SupplySideEntry, DebtSideEntry DEF UserNext, Backing
<1>2. CASE Interest
  BY <1>2, AccrueEntry DEF Interest, EntryMade, Entry
<1>3. CASE Market \/ RiskParameters \/ Switches \/ CategoryParameters \/ UNCHANGED vars
  <2>1. UNCHANGED <<account, liquidity, reserve>>
    BY <1>3, SettersLeaveBooks DEF Market, SetPrice, ToggleSentinel, vars
  <2>2. QED
    BY <2>1, NoEntry DEF IndInv, EntryMade
<1>4. CASE Listing
  BY <1>4, ListingEntry DEF EntryMade
<1>5. QED
  BY <1>1, <1>2, <1>3, <1>4 DEF Next, AdminNext

-----------------------------------------------------------------------------
(* Solvency.                                                                *)

\* The books of a reserve change by a balanced entry.
Balanced(cash, claims, owed, unbacked) == claims = cash + owed + unbacked

LEMMA BookedStaysSolvent ==
  ASSUME TypeOK, Solvent, NEW a \in Assets,
         NEW cash \in Int, NEW claims \in Int, NEW owed \in Int, NEW unbacked \in Int,
         Booked(a, cash, claims, owed, unbacked), Balanced(cash, claims, owed, unbacked)
  PROVE  ATokenSupply(a)' = liquidity'[a] + Owed(a)' + reserve'[a].unbacked
<1>1. /\ ATokenSupply(a) \in Nat /\ Owed(a) \in Nat
      /\ liquidity[a] \in Nat /\ reserve[a].unbacked \in Nat
  BY SuppliesAreNat
<1>2. ATokenSupply(a) = liquidity[a] + Owed(a) + reserve[a].unbacked
  <2>1. account \in [Accounts -> Account]
    BY DEF TypeOK
  <2>2. Stable(account, a) \in Nat /\ Variable(account, a) \in Nat
    BY <2>1, SumsOfBalances
  <2>3. StableSupply(a) \in Nat /\ VariableSupply(a) \in Nat
    BY <2>2 DEF StableSupply, VariableSupply, Stable, Variable
  <2>4. QED
    BY <1>1, <2>3 DEF Solvent, Owed
<1>3. QED
  BY <1>1, <1>2 DEF Booked, Balanced

LEMMA EntryBalances ==
  ASSUME EntryMade, NEW b \in Assets
  PROVE  \E cash, claims, owed, unbacked \in Int :
           Booked(b, cash, claims, owed, unbacked) /\ Balanced(cash, claims, owed, unbacked)
<1>1. CASE NothingEntered
  BY <1>1 DEF NothingEntered, Balanced
<1>2. ASSUME NEW a \in Assets, NEW cash \in Int, NEW claims \in Int, NEW owed \in Int,
             NEW unbacked \in Int, Entered(a, cash, claims, owed, unbacked),
             Balanced(cash, claims, owed, unbacked)
      PROVE  \E w, x, y, z \in Int : Booked(b, w, x, y, z) /\ Balanced(w, x, y, z)
  <2> DEFINE w == Only(a, b, cash)
             x == Only(a, b, claims)
             y == Only(a, b, owed)
             z == Only(a, b, unbacked)
  <2>1. w \in Int /\ x \in Int /\ y \in Int /\ z \in Int /\ Balanced(w, x, y, z)
    BY <1>2 DEF Only, Balanced
  <2>2. Booked(b, w, x, y, z)
    BY <1>2 DEF Entered
  <2> HIDE DEF w, x, y, z
  <2>3. QED
    BY <2>1, <2>2
<1>3. ASSUME NEW a \in Assets, NEW n \in Nat, Entry(a, n)
      PROVE  \E w, x, y, z \in Int : Booked(b, w, x, y, z) /\ Balanced(w, x, y, z)
  <2> DEFINE m == -n
  <2>1. n \in Int /\ m \in Int /\ 0 \in Int
    OBVIOUS
  <2>2. /\ Balanced(n, n, 0, 0) /\ Balanced(m, m, 0, 0) /\ Balanced(m, 0, n, 0)
        /\ Balanced(n, 0, m, 0) /\ Balanced(0, m, m, 0) /\ Balanced(0, n, n, 0)
        /\ Balanced(0, n, 0, n)
    BY DEF Balanced
  <2>3. ASSUME NEW fee \in Nat, Entered(a, n + fee, fee, 0, m)
        PROVE  \E w, x, y, z \in Int : Booked(b, w, x, y, z) /\ Balanced(w, x, y, z)
    <3> DEFINE k == n + fee
    <3>1. k \in Int /\ fee \in Int /\ Balanced(k, fee, 0, m)
      BY DEF Balanced
    <3> HIDE DEF k, m
    <3>2. Entered(a, k, fee, 0, m)
      BY <2>3 DEF k
    <3>3. QED
      BY <1>2, <2>1, <3>1, <3>2
  <2>4. \/ Entered(a, n, n, 0, 0) \/ Entered(a, m, m, 0, 0) \/ Entered(a, m, 0, n, 0)
        \/ Entered(a, n, 0, m, 0) \/ Entered(a, 0, m, m, 0) \/ Entered(a, 0, n, n, 0)
        \/ Entered(a, 0, n, 0, n) \/ \E fee \in Nat : Entered(a, n + fee, fee, 0, m)
    BY <1>3 DEF Entry
  <2> HIDE DEF m
  <2>5. QED
    BY <1>2, <2>1, <2>2, <2>3, <2>4
<1>4. ASSUME NEW c \in Assets, NEW d \in Assets, NEW paid \in Nat, NEW out \in Nat,
             Liquidated(c, d, paid, out)
      PROVE  \E w, x, y, z \in Int : Booked(b, w, x, y, z) /\ Balanced(w, x, y, z)
  <2> DEFINE w == Only(d, b, paid) - Only(c, b, out)
             x == -Only(c, b, out)
             y == -Only(d, b, paid)
  <2>1. w \in Int /\ x \in Int /\ y \in Int /\ 0 \in Int /\ Balanced(w, x, y, 0)
    BY DEF Only, Balanced
  <2>2. Booked(b, w, x, y, 0)
    BY <1>4 DEF Liquidated
  <2> HIDE DEF w, x, y
  <2>3. QED
    BY <2>1, <2>2
<1>5. QED
  BY <1>1, <1>3, <1>4 DEF EntryMade

LEMMA SolventStep ==
  ASSUME IndInv, Solvent, [Next]_vars
  PROVE  Solvent'
<1>1. EntryMade
  BY EveryEntry
<1>2. IndInv'
  BY NextPreserves
<1>3. ASSUME NEW a \in Assets
      PROVE  (ATokenSupply(a) =
                liquidity[a] + StableSupply(a) + VariableSupply(a) + reserve[a].unbacked)'
  <2>1. ATokenSupply(a)' = liquidity'[a] + Owed(a)' + reserve'[a].unbacked
    BY <1>1, EntryBalances, BookedStaysSolvent DEF IndInv
  <2>2. account' \in [Accounts -> Account] /\ liquidity'[a] \in Nat /\ reserve'[a].unbacked \in Nat
    BY <1>2 DEF IndInv, TypeOK, ReserveData
  <2>3. Stable(account', a) \in Nat /\ Variable(account', a) \in Nat
    BY <2>2, SumsOfBalances
  <2>4. /\ StableSupply(a)' = Stable(account', a) /\ VariableSupply(a)' = Variable(account', a)
        /\ Owed(a)' = StableSupply(a)' + VariableSupply(a)'
    BY DEF StableSupply, VariableSupply, Stable, Variable, Owed
  <2>5. QED
    BY <2>1, <2>2, <2>3, <2>4
<1>4. QED
  BY <1>3 DEF Solvent

LEMMA NothingAtFirst ==
  ASSUME Init, NEW a \in Assets
  PROVE  /\ ATokenSupply(a) = 0 /\ StableSupply(a) = 0 /\ VariableSupply(a) = 0
         /\ liquidity[a] = 0 /\ reserve[a].unbacked = 0
<1>1. account \in [Accounts -> Account]
  BY InitEstablishes DEF IndInv, TypeOK
<1>2. NobodyHolds(a) /\ NobodyOwes(a)
  BY DEF Init, NobodyHolds, NobodyOwes, NoPosition
<1>3. Claims(account, a) = 0 /\ Debts(account, a) = 0
  BY <1>1, <1>2, NothingToSum DEF NobodyHolds, NobodyOwes
<1>4. Stable(account, a) \in Nat /\ Variable(account, a) \in Nat
  BY <1>1, SumsOfBalances
<1>5. Stable(account, a) = 0 /\ Variable(account, a) = 0
  BY <1>3, <1>4 DEF Debts
<1>6. ATokenSupply(a) = 0 /\ StableSupply(a) = 0 /\ VariableSupply(a) = 0
  BY <1>3, <1>5
     DEF ATokenSupply, StableSupply, VariableSupply, Claims, Stable, Variable
<1>7. QED
  BY <1>6 DEF Init, NoReserve

\* No sequence of calls, with interest, bridges and liquidations between them and
\* reserves listed and dropped, leaves aTokens that are not covered by the cash,
\* the debts and the unbacked mints of their reserve, nor money nobody can claim.
THEOREM ReservesStaySolvent == Spec => []Solvent
<1>1. Init => IndInv /\ Solvent
  BY InitEstablishes, NothingAtFirst DEF Solvent
<1>2. IndInv /\ Solvent /\ [Next]_vars => IndInv' /\ Solvent'
  BY NextPreserves, SolventStep
<1>3. QED
  BY <1>1, <1>2, PTL DEF Spec

-----------------------------------------------------------------------------
(* The refinement of the ledger.                                            *)

LEMMA BookOfReserve ==
  ASSUME NEW a \in Assets
  PROVE  /\ Books[a].cash = liquidity[a] /\ Books[a].claims = ATokenSupply(a)
         /\ Books[a].owed = Owed(a) /\ Books[a].unbacked = reserve[a].unbacked
  BY DEF Books, Owed

LEMMA BookOfReserveNext ==
  ASSUME NEW a \in Assets
  PROVE  /\ Books'[a].cash = liquidity'[a] /\ Books'[a].claims = ATokenSupply(a)'
         /\ Books'[a].owed = Owed(a)' /\ Books'[a].unbacked = reserve'[a].unbacked
  BY DEF Books, Owed

LEMMA BooksAreBooks ==
  ASSUME TypeOK
  PROVE  Books \in [Assets -> Ledger!Book]
<1>1. ASSUME NEW a \in Assets
      PROVE  [cash |-> liquidity[a], claims |-> ATokenSupply(a),
              owed |-> StableSupply(a) + VariableSupply(a),
              unbacked |-> reserve[a].unbacked] \in Ledger!Book
  BY SuppliesAreNat DEF Owed, Ledger!Book
<1>2. QED
  BY <1>1 DEF Books

LEMMA BooksStayBooks ==
  ASSUME TypeOK'
  PROVE  Books' \in [Assets -> Ledger!Book]
<1>1. ASSUME NEW a \in Assets
      PROVE  [cash |-> liquidity'[a], claims |-> ATokenSupply(a)',
              owed |-> (StableSupply(a) + VariableSupply(a))',
              unbacked |-> reserve'[a].unbacked] \in Ledger!Book
  <2>1. account' \in [Accounts -> Account]
    BY DEF TypeOK
  <2>2. ATokenSupply(a)' \in Nat /\ Owed(a)' \in Nat
    BY <2>1, SumsOfBalances, SumsAreSupplies
  <2>3. liquidity'[a] \in Nat /\ reserve'[a].unbacked \in Nat
    BY DEF TypeOK, ReserveData
  <2>4. QED
    BY <2>2, <2>3 DEF Owed, Ledger!Book
<1>2. QED
  BY <1>1 DEF Books

\* What is booked for a reserve is what changes in its book.
LEMMA BookedChanges ==
  ASSUME NEW a \in Assets, NEW cash, NEW claims, NEW owed, NEW unbacked
  PROVE  Booked(a, cash, claims, owed, unbacked)
           <=> Ledger!Changes(Books[a], Books'[a], cash, claims, owed, unbacked)
  BY BookOfReserve, BookOfReserveNext DEF Booked, Ledger!Changes

\* The entries of the ledger, from what they change.
LEMMA LedgerEntries ==
  ASSUME NEW b \in Ledger!Book, NEW c \in Ledger!Book, NEW n \in Nat, NEW m \in Nat,
         \/ Ledger!Changes(b, c, n, n, 0, 0) \/ Ledger!Changes(b, c, -n, 0, n, 0)
         \/ Ledger!Changes(b, c, n - m, -m, -n, 0) \/ Ledger!Changes(b, c, 0, -n, -n, 0)
         \/ Ledger!Changes(b, c, 0, n, n, 0) \/ Ledger!Changes(b, c, 0, n, 0, n)
         \/ Ledger!Changes(b, c, n + m, m, 0, -n)
  PROVE  Ledger!Entry(b, c)
<1> USE DEF Ledger!Book, Ledger!Changes
<1>1. CASE n = 0 /\ ~Ledger!Changes(b, c, n - m, -m, -n, 0) /\ ~Ledger!Changes(b, c, n + m, m, 0, -n)
  <2>1. Ledger!Settle(b, c)
    BY <1>1 DEF Ledger!Settle
  <2>2. QED
    BY <2>1 DEF Ledger!Entry
<1>2. CASE Ledger!Changes(b, c, n - m, -m, -n, 0)
  <2>1. Ledger!Settle(b, c)
    BY <1>2 DEF Ledger!Settle
  <2>2. QED
    BY <2>1 DEF Ledger!Entry
<1>3. CASE Ledger!Changes(b, c, n + m, m, 0, -n)
  <2>1. Ledger!Back(b, c)
    BY <1>3 DEF Ledger!Back
  <2>2. QED
    BY <2>1 DEF Ledger!Entry
<1>4. CASE n > 0 /\ Ledger!Changes(b, c, n, n, 0, 0)
  BY <1>4 DEF Ledger!Entry, Ledger!Deposit
<1>5. CASE n > 0 /\ Ledger!Changes(b, c, -n, 0, n, 0)
  BY <1>5 DEF Ledger!Entry, Ledger!Lend
<1>6. CASE n > 0 /\ Ledger!Changes(b, c, 0, -n, -n, 0)
  BY <1>6 DEF Ledger!Entry, Ledger!Offset
<1>7. CASE n > 0 /\ Ledger!Changes(b, c, 0, n, n, 0)
  BY <1>7 DEF Ledger!Entry, Ledger!Grow
<1>8. CASE n > 0 /\ Ledger!Changes(b, c, 0, n, 0, n)
  BY <1>8 DEF Ledger!Entry, Ledger!MintUnbacked
<1>9. QED
  BY <1>1, <1>2, <1>3, <1>4, <1>5, <1>6, <1>7, <1>8

\* Any entry made is one of the ledger's in the book of each reserve.
LEMMA EntryMadeIsEntry ==
  ASSUME TypeOK, TypeOK', EntryMade, NEW r \in Assets
  PROVE  Ledger!Entry(Books[r], Books'[r])
<1> DEFINE b == Books[r]
           c == Books'[r]
<1>1. b \in Ledger!Book
  BY BooksAreBooks
<1>2. c \in Ledger!Book
  <2>1. Books' \in [Assets -> Ledger!Book]
    BY BooksStayBooks
  <2>2. QED
    BY <2>1
<1>3. ASSUME Booked(r, 0, 0, 0, 0)
      PROVE  Ledger!Entry(b, c)
  <2>1. Ledger!Changes(b, c, 0, 0, 0, 0)
    BY <1>3, BookedChanges
  <2> HIDE DEF b, c
  <2>2. 0 \in Nat /\ Ledger!Changes(b, c, 0 - 0, -0, -0, 0)
    BY <2>1 DEF Ledger!Changes
  <2>3. QED
    BY <1>1, <1>2, <2>2, LedgerEntries
<1>4. ASSUME NEW a \in Assets, NEW n \in Nat, Entry(a, n)
      PROVE  Ledger!Entry(b, c)
  <2>1. CASE a # r
    <3>1. Booked(r, 0, 0, 0, 0)
      BY <1>4, <2>1 DEF Entry, Entered, Only
    <3>2. QED
      BY <1>3, <3>1
  <2>2. CASE a = r
    <3>1. \/ Booked(r, n, n, 0, 0) \/ Booked(r, -n, -n, 0, 0) \/ Booked(r, -n, 0, n, 0)
          \/ Booked(r, n, 0, -n, 0) \/ Booked(r, 0, -n, -n, 0) \/ Booked(r, 0, n, n, 0)
          \/ Booked(r, 0, n, 0, n) \/ \E fee \in Nat : Booked(r, n + fee, fee, 0, -n)
      BY <1>4, <2>2 DEF Entry, Entered, Only
    <3>2. \/ Ledger!Changes(b, c, n, n, 0, 0) \/ Ledger!Changes(b, c, -n, -n, 0, 0)
          \/ Ledger!Changes(b, c, -n, 0, n, 0) \/ Ledger!Changes(b, c, n, 0, -n, 0)
          \/ Ledger!Changes(b, c, 0, -n, -n, 0) \/ Ledger!Changes(b, c, 0, n, n, 0)
          \/ Ledger!Changes(b, c, 0, n, 0, n)
          \/ \E fee \in Nat : Ledger!Changes(b, c, n + fee, fee, 0, -n)
      BY <3>1, BookedChanges
    <3> HIDE DEF b, c
    <3>3. 0 \in Nat
      OBVIOUS
    <3>4. CASE Ledger!Changes(b, c, n, 0, -n, 0)
      <4>1. Ledger!Changes(b, c, n - 0, -0, -n, 0)
        BY <3>4 DEF Ledger!Changes
      <4>2. QED
        BY <1>1, <1>2, <3>3, <4>1, LedgerEntries
    <3>5. CASE Ledger!Changes(b, c, -n, -n, 0, 0)
      <4>1. Ledger!Changes(b, c, 0 - n, -n, -0, 0)
        BY <3>5 DEF Ledger!Changes
      <4>2. QED
        BY <1>1, <1>2, <3>3, <4>1, LedgerEntries
    <3>6. QED
      BY <1>1, <1>2, <3>2, <3>3, <3>4, <3>5, LedgerEntries
  <2>3. QED
    BY <2>1, <2>2
<1>5. ASSUME NEW x \in Assets, NEW d \in Assets, NEW paid \in Nat, NEW out \in Nat,
             Liquidated(x, d, paid, out)
      PROVE  Ledger!Entry(b, c)
  <2> DEFINE n == Only(d, r, paid)
             m == Only(x, r, out)
  <2>1. n \in Nat /\ m \in Nat
    BY DEF Only
  <2>2. Booked(r, n - m, -m, -n, 0)
    BY <1>5 DEF Liquidated
  <2> HIDE DEF n, m
  <2>3. Ledger!Changes(b, c, n - m, -m, -n, 0)
    BY <2>2, BookedChanges
  <2> HIDE DEF b, c
  <2>4. QED
    BY <1>1, <1>2, <2>1, <2>3, LedgerEntries
<1>6. QED
  BY <1>3, <1>4, <1>5 DEF EntryMade, NothingEntered

\* Every call, however many accounts, modes and reserves it touches, and every
\* step of interest, of a bridge and of the administration, is a balanced entry
\* in the book of each reserve.  Dropping a reserve is one only because a solvent
\* reserve that is empty has no cash left.
THEOREM ImplementsLedger == Spec => LedgerSpec
<1>1. Init => Ledger!Init
  <2>1. ASSUME Init
        PROVE  Books = [a \in Assets |-> Ledger!EmptyBook]
    BY <2>1, NothingAtFirst DEF Books, Ledger!EmptyBook
  <2>2. QED
    BY <2>1 DEF Ledger!Init
<1>2. IndInv /\ IndInv' /\ Solvent /\ [Next]_vars => Ledger!Next
  <2>1. ASSUME IndInv, IndInv', Solvent, [Next]_vars
        PROVE  Ledger!Next
    <3>1. TypeOK /\ TypeOK' /\ EntryMade
      BY <2>1, EveryEntry DEF IndInv
    <3>2. Books' \in [Assets -> Ledger!Book]
      BY <3>1, BooksStayBooks
    <3>3. QED
      BY <3>1, <3>2, EntryMadeIsEntry DEF Ledger!Next
  <2>2. QED
    BY <2>1
<1>3. QED
  BY <1>1, <1>2, Invariance, ReservesStaySolvent, PTL DEF Spec, LedgerSpec, Ledger!Spec
=============================================================================
