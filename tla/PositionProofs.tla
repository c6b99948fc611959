--------------------------- MODULE PositionProofs ---------------------------
(***************************************************************************)
(* What calls may do to positions, for any number of users, assets and     *)
(* categories: they move the balances of the assets they are about and no  *)
(* others, so a paused reserve is still; a flag that is set says something *)
(* unless a reserve is dropped over it or a liquidation forgets it; no     *)
(* call ends the promise of an efficiency mode; and none makes a healthy   *)
(* position unhealthy, but for four risks that are named; a loan leaves    *)
(* its borrower healthy, but in three cases that are named; and a          *)
(* liquidation costs a position no more than a bounded rounding.           *)
(***************************************************************************)
EXTENDS LimitProofs

-----------------------------------------------------------------------------
(* The assets a call is about.                                              *)

\* A position on the way through a call.
Position ==
  [collateral : SUBSET Nat, borrowing : SUBSET Nat, eMode : Categories \cup {0},
   aToken : [Assets -> Int], stable : [Assets -> Int], variable : [Assets -> Int]]

IdsOf(S) == {Id(a) : a \in S}

\* q is p with other balances in the assets of S, and perhaps their flags set.
Within(p, q, S) ==
  /\ q \in Position
  /\ q.collateral \subseteq p.collateral \cup IdsOf(S)
  /\ q.borrowing \subseteq p.borrowing \cup IdsOf(S)
  /\ \A b \in Assets \ S : /\ q.aToken[b] = p.aToken[b]
                           /\ q.stable[b] = p.stable[b]
                           /\ q.variable[b] = p.variable[b]

AllWithin(before, after, S) ==
  /\ after \in [Accounts -> Position]
  /\ \A x \in Accounts : Within(before[x], after[x], S)

LEMMA AccountsArePositions ==
  ASSUME IndInv, NEW S
  PROVE  /\ AllWithin(account, account, S)
         /\ \A x \in Accounts : account[x] \in Position
<1>1. Account \subseteq Position
  BY DEF Account, Position, Ids
<1>2. QED
  BY <1>1 DEF AllWithin, Within, IndInv, TypeOK

LEMMA WithinTwice ==
  ASSUME NEW p, NEW q, NEW r, NEW S, Within(p, q, S), Within(q, r, S)
  PROVE  Within(p, r, S)
  BY DEF Within

LEMMA OneMoreWithin ==
  ASSUME NEW before, NEW accounts, NEW S, AllWithin(before, accounts, S),
         NEW u \in Accounts, NEW q, Within(accounts[u], q, S)
  PROVE  AllWithin(before, [accounts EXCEPT ![u] = q], S)
<1>1. q \in Position
  BY DEF Within
<1>2. Within(before[u], q, S)
  BY WithinTwice DEF AllWithin
<1>3. QED
  BY <1>1, <1>2 DEF AllWithin

\* Each operation on a position stays within its asset.
LEMMA OperationsStayWithin ==
  ASSUME NEW p \in Position, NEW S, NEW a \in Assets, a \in S, Id(a) \in Nat, NEW n \in Int
  PROVE  /\ Within(p, MintAToken(p, a, n), S)
         /\ Within(p, BurnAToken(p, a, n), S)
         /\ \A mode \in Modes : /\ Within(p, MintDebt(p, a, n, mode), S)
                                /\ Within(p, BurnDebt(p, a, n, mode), S)
         /\ \A on \in BOOLEAN : /\ Within(p, SetUsingAsCollateral(p, a, on), S)
                                /\ Within(p, SetBorrowing(p, a, on), S)
<1>1. Within(p, MintAToken(p, a, n), S)
  BY DEF Position, Within, MintAToken
<1>2. Within(p, BurnAToken(p, a, n), S)
  BY DEF Position, Within, BurnAToken
<1>3. ASSUME NEW mode \in Modes
      PROVE  Within(p, MintDebt(p, a, n, mode), S)
  BY DEF Position, Within, MintDebt
<1>4. ASSUME NEW mode \in Modes
      PROVE  Within(p, BurnDebt(p, a, n, mode), S)
  BY DEF Position, Within, BurnDebt
<1>5. ASSUME NEW on \in BOOLEAN
      PROVE  Within(p, SetUsingAsCollateral(p, a, on), S)
  BY DEF Position, Within, SetUsingAsCollateral, IdsOf
<1>6. ASSUME NEW on \in BOOLEAN
      PROVE  Within(p, SetBorrowing(p, a, on), S)
  BY DEF Position, Within, SetBorrowing, IdsOf
<1>7. QED
  BY <1>1, <1>2, <1>3, <1>4, <1>5, <1>6

\* So do the operations they are the parts of.
LEMMA MintsStayWithin ==
  ASSUME NEW p \in Position, NEW S, NEW a \in Assets, a \in S, Id(a) \in Nat, NEW n \in Int
  PROVE  /\ Within(p, SupplyTo(p, a, n), S)
         /\ Within(p, ReceiveTransfer(p, a, n), S)
         /\ Within(p, MintUnbackedTo(p, a, n), S)
         /\ \A first \in BOOLEAN : Within(p, ReceiveLiquidated(p, a, n, first), S)
<1> DEFINE q == MintAToken(p, a, n)
           r == SetUsingAsCollateral(q, a, TRUE)
<1>1. Within(p, q, S) /\ q \in Position
  <2>1. Within(p, q, S)
    BY OperationsStayWithin
  <2>2. QED
    BY <2>1 DEF Within
<1>2. /\ SupplyTo(p, a, n) \in {q, r} /\ ReceiveTransfer(p, a, n) \in {q, r}
      /\ MintUnbackedTo(p, a, n) \in {q, r}
      /\ \A first \in BOOLEAN : ReceiveLiquidated(p, a, n, first) \in {q, r}
  BY DEF SupplyTo, ReceiveTransfer, MintUnbackedTo, ReceiveLiquidated
<1> HIDE DEF q
<1>3. Within(p, r, S)
  BY <1>1, OperationsStayWithin, WithinTwice
<1> HIDE DEF r
<1>4. QED
  BY <1>1, <1>2, <1>3

LEMMA GiveUpStaysWithin ==
  ASSUME NEW p \in Position, NEW S, NEW a \in Assets, a \in S, Id(a) \in Nat, NEW n \in Int
  PROVE  Within(p, GiveUp(p, a, n), S)
<1> DEFINE q == BurnAToken(p, a, n)
           r == SetUsingAsCollateral(q, a, FALSE)
<1>1. Within(p, q, S) /\ q \in Position
  <2>1. Within(p, q, S)
    BY OperationsStayWithin
  <2>2. QED
    BY <2>1 DEF Within
<1>2. GiveUp(p, a, n) \in {q, r}
  BY DEF GiveUp
<1> HIDE DEF q
<1>3. Within(p, r, S)
  BY <1>1, OperationsStayWithin, WithinTwice
<1> HIDE DEF r
<1>4. QED
  BY <1>1, <1>2, <1>3

LEMMA LoansStayWithin ==
  ASSUME NEW p \in Position, NEW S, NEW a \in Assets, a \in S, Id(a) \in Nat, NEW n \in Int,
         NEW mode \in Modes
  PROVE  /\ Within(p, BorrowFor(p, a, n, mode), S)
         /\ Within(p, RepayOf(p, a, n, mode), S)
         /\ Within(p, MintDebt(BurnDebt(p, a, n, mode), a, n, OtherMode(mode)), S)
<1> DEFINE minted == MintDebt(p, a, n, mode)
           burnt  == BurnDebt(p, a, n, mode)
           r == SetBorrowing(minted, a, TRUE)
           s == SetBorrowing(burnt, a, FALSE)
           t == MintDebt(burnt, a, n, OtherMode(mode))
<1>1. /\ Within(p, minted, S) /\ minted \in Position
      /\ Within(p, burnt, S) /\ burnt \in Position
      /\ OtherMode(mode) \in Modes
  <2>1. Within(p, minted, S) /\ Within(p, burnt, S)
    BY OperationsStayWithin
  <2>2. QED
    BY <2>1 DEF Within, OtherMode, Modes
<1>2. BorrowFor(p, a, n, mode) \in {minted, r} /\ RepayOf(p, a, n, mode) \in {burnt, s}
  BY DEF BorrowFor, RepayOf
<1> HIDE DEF minted, burnt
<1>3. Within(p, r, S) /\ Within(p, s, S) /\ Within(p, t, S)
  BY <1>1, OperationsStayWithin, WithinTwice
<1>4. QED
  BY <1>1, <1>2, <1>3 DEF minted, burnt

LEMMA SeizureStaysWithin ==
  ASSUME NEW p \in Position, NEW S, NEW c \in Assets, c \in S, NEW d \in Assets, d \in S,
         Id(c) \in Nat, NEW terms, terms.debt \in Int, terms.seized \in Int,
         NEW all \in BOOLEAN
  PROVE  Within(p, LiquidatedPosition(p, c, d, terms, all), S)
<1> DEFINE n == Least(terms.debt, p.variable[d])
           m == terms.debt - n
           q == BurnDebt(p, d, n, "variable")
           r == BurnDebt(q, d, m, "stable")
           s == BurnAToken(r, c, terms.seized)
           t == SetUsingAsCollateral(s, c, FALSE)
<1>1. n \in Int /\ m \in Int
  BY DEF Position, Least
<1>2. Within(p, q, S) /\ q \in Position
  <2> HIDE DEF n
  <2>1. QED
    BY <1>1 DEF Position, Within, BurnDebt
<1> HIDE DEF n, m
<1>3. Within(q, r, S) /\ r \in Position
  <2> HIDE DEF q
  <2>1. QED
    BY <1>1, <1>2 DEF Position, Within, BurnDebt
<1>4. r = BurnLiquidated(p, d, terms.debt)
  BY DEF BurnLiquidated, n, m
<1> HIDE DEF q, r
<1>5. Within(r, s, S) /\ s \in Position
  <2>1. Within(r, s, S)
    BY <1>3, OperationsStayWithin
  <2>2. QED
    BY <2>1 DEF Within
<1>6. LiquidatedPosition(p, c, d, terms, all) \in {s, t}
  BY <1>4 DEF LiquidatedPosition
<1> HIDE DEF s
<1>7. Within(s, t, S)
  BY <1>5, OperationsStayWithin, 0 \in Int
<1> HIDE DEF t
<1>8. QED
  BY <1>2, <1>3, <1>5, <1>6, <1>7, WithinTwice

-----------------------------------------------------------------------------
(* The calls.                                                               *)

\* A step that is about the assets of S.
About(S) ==
  /\ AllWithin(account, account', S)
  /\ \A b \in Assets \ S : liquidity'[b] = liquidity[b]

Listed(S)   == \A a \in S : reserve[a].listed
Unpaused(S) == \A a \in S : ~config[a].paused

\* One account changes in one asset.
LEMMA OneAccountAbout ==
  ASSUME IndInv, NEW u \in Accounts, NEW a \in Assets, NEW q, Within(account[u], q, {a}),
         account' = [account EXCEPT ![u] = q],
         \A b \in Assets \ {a} : liquidity'[b] = liquidity[b]
  PROVE  About({a})
  BY AccountsArePositions, OneMoreWithin DEF About

LEMMA ListedIdIsNat ==
  ASSUME IndInv, NEW a \in Assets
  PROVE  Id(a) \in Nat
  BY DEF IndInv, TypeOK, ReserveData, Id

LEMMA SupplySideIsAbout ==
  ASSUME IndInv, SupplySide
  PROVE  \E a \in Assets : Listed({a}) /\ Unpaused({a}) /\ About({a})
<1> PICK u \in Users, a \in Assets :
      \/ \E n \in Amounts : Supply(u, a, n)
      \/ \E n \in Amounts \cup {account[u].aToken[a]} : Withdraw(u, a, n)
      \/ \E to \in Accounts, n \in Amounts \cup {account[u].aToken[a]} : Transfer(u, to, a, n)
      \/ \E use \in BOOLEAN : SetUserUseReserveAsCollateral(u, a, use)
  BY DEF SupplySide
<1>1. u \in Accounts /\ account[u] \in Position /\ Id(a) \in Nat
  BY AccountsArePositions, ListedIdIsNat DEF Accounts
<1>2. \A n \in Amounts \cup {account[u].aToken[a]} : n \in Int
  <2>1. account[u].aToken[a] \in Int
    BY <1>1 DEF Position
  <2>2. \A n \in Amounts : n \in Int
    BY InputsAssumption
  <2>3. QED
    BY <2>1, <2>2
<1>3. liquidity \in [Assets -> Nat]
  BY DEF IndInv, TypeOK
<1>4. ASSUME NEW n \in Amounts, Supply(u, a, n)
      PROVE  Listed({a}) /\ Unpaused({a}) /\ About({a})
  <2>1. Within(account[u], SupplyTo(account[u], a, n), {a})
    BY <1>1, <1>2, MintsStayWithin
  <2>2. /\ account' = [account EXCEPT ![u] = SupplyTo(account[u], a, n)]
        /\ \A b \in Assets \ {a} : liquidity'[b] = liquidity[b]
    BY <1>3, <1>4 DEF Supply
  <2>3. About({a})
    BY <1>1, <2>1, <2>2, OneAccountAbout
  <2>4. QED
    BY <1>4, <2>3 DEF Supply, ValidateSupply, Active, Listed, Unpaused
<1>5. ASSUME NEW n \in Amounts \cup {account[u].aToken[a]}, Withdraw(u, a, n)
      PROVE  Listed({a}) /\ Unpaused({a}) /\ About({a})
  <2>1. Within(account[u], GiveUp(account[u], a, n), {a})
    BY <1>1, <1>2, GiveUpStaysWithin
  <2>2. /\ account' = [account EXCEPT ![u] = GiveUp(account[u], a, n)]
        /\ \A b \in Assets \ {a} : liquidity'[b] = liquidity[b]
    BY <1>3, <1>5 DEF Withdraw
  <2>3. About({a})
    BY <1>1, <2>1, <2>2, OneAccountAbout
  <2>4. QED
    BY <1>5, <2>3 DEF Withdraw, ValidateWithdraw, Active, Listed, Unpaused
<1>6. ASSUME NEW to \in Accounts, NEW n \in Amounts \cup {account[u].aToken[a]},
             Transfer(u, to, a, n)
      PROVE  Listed({a}) /\ Unpaused({a}) /\ About({a})
  <2> DEFINE paid == [account EXCEPT ![u] = GiveUp(account[u], a, n)]
             received == ReceiveTransfer(account[to], a, n)
  <2>1. Within(account[u], GiveUp(account[u], a, n), {a})
    BY <1>1, <1>2, GiveUpStaysWithin
  <2>2. AllWithin(account, paid, {a})
    BY <1>1, <2>1, AccountsArePositions, OneMoreWithin
  <2>3. paid[to] = account[to] /\ account[to] \in Position
    BY <1>6, AccountsArePositions DEF Transfer, IndInv, TypeOK
  <2>4. Within(paid[to], received, {a})
    BY <1>1, <1>2, <2>3, MintsStayWithin
  <2>5. account' = [paid EXCEPT ![to] = received] /\ liquidity' = liquidity
    BY <1>1, <1>6 DEF Transfer, IndInv, TypeOK
  <2> HIDE DEF paid, received
  <2>6. AllWithin(account, account', {a})
    BY <2>2, <2>4, <2>5, OneMoreWithin
  <2>7. QED
    BY <1>6, <2>5, <2>6 DEF About, Transfer, ValidateTransfer, Listed, Unpaused
<1>7. ASSUME NEW use \in BOOLEAN, SetUserUseReserveAsCollateral(u, a, use)
      PROVE  Listed({a}) /\ Unpaused({a}) /\ About({a})
  <2>1. Within(account[u], SetUsingAsCollateral(account[u], a, use), {a})
    BY <1>1, 0 \in Int, OperationsStayWithin
  <2>2. /\ account' = [account EXCEPT ![u] = SetUsingAsCollateral(account[u], a, use)]
        /\ liquidity' = liquidity
    BY <1>7 DEF SetUserUseReserveAsCollateral
  <2>3. About({a})
    BY <1>1, <2>1, <2>2, OneAccountAbout
  <2>4. QED
    BY <1>7, <2>3
       DEF SetUserUseReserveAsCollateral, ValidateSetUseReserveAsCollateral, Active, Listed, Unpaused
<1>8. QED
  BY <1>4, <1>5, <1>6, <1>7

LEMMA DebtSideIsAbout ==
  ASSUME IndInv, DebtSide
  PROVE  \E a \in Assets : Listed({a}) /\ Unpaused({a}) /\ About({a})
<1> PICK u \in Users, a \in Assets, mode \in Modes :
      \/ \E n \in Amounts : Borrow(u, a, n, mode)
      \/ \E n \in Amounts \cup {account[u][mode][a]} : Repay(u, a, n, mode)
      \/ \E sender \in Users, n \in Amounts \cup {account[u][mode][a]} :
           RepayWithATokens(sender, u, a, n, mode)
      \/ SwapBorrowRateMode(u, a, mode)
  BY DEF DebtSide
<1>1. u \in Accounts /\ account[u] \in Position /\ Id(a) \in Nat
  BY AccountsArePositions, ListedIdIsNat DEF Accounts
<1>2. liquidity \in [Assets -> Nat]
  BY DEF IndInv, TypeOK
<1>3. ASSUME NEW n \in Amounts, Borrow(u, a, n, mode)
      PROVE  Listed({a}) /\ Unpaused({a}) /\ About({a})
  <2>1. Within(account[u], BorrowFor(account[u], a, n, mode), {a})
    BY <1>1, InputsAssumption, LoansStayWithin
  <2>2. /\ account' = [account EXCEPT ![u] = BorrowFor(account[u], a, n, mode)]
        /\ \A b \in Assets \ {a} : liquidity'[b] = liquidity[b]
    BY <1>2, <1>3 DEF Borrow
  <2>3. About({a})
    BY <1>1, <2>1, <2>2, OneAccountAbout
  <2>4. QED
    BY <1>3, <2>3 DEF Borrow, ValidateBorrow, Active, Listed, Unpaused
<1>4. ASSUME NEW n \in Amounts \cup {account[u][mode][a]}, Repay(u, a, n, mode)
      PROVE  Listed({a}) /\ Unpaused({a}) /\ About({a})
  <2> DEFINE payback == Payback(account[u], a, n, mode)
  <2>1. payback \in Int
    BY <1>1, PaybackIsOwed
  <2>2. /\ account' = [account EXCEPT ![u] = RepayOf(account[u], a, payback, mode)]
        /\ \A b \in Assets \ {a} : liquidity'[b] = liquidity[b]
    BY <1>2, <1>4 DEF Repay
  <2> HIDE DEF payback
  <2>3. Within(account[u], RepayOf(account[u], a, payback, mode), {a})
    BY <1>1, <2>1, LoansStayWithin
  <2>4. About({a})
    BY <1>1, <2>2, <2>3, OneAccountAbout
  <2>5. QED
    BY <1>4, <2>4 DEF Repay, ValidateRepay, Active, Listed, Unpaused
<1>5. ASSUME NEW sender \in Users, NEW n \in Amounts \cup {account[u][mode][a]},
             RepayWithATokens(sender, u, a, n, mode)
      PROVE  Listed({a}) /\ Unpaused({a}) /\ About({a})
  <2> DEFINE payback == Payback(account[u], a, n, mode)
             repaid  == [account EXCEPT ![u] = RepayOf(account[u], a, payback, mode)]
             paying  == BurnAToken(repaid[sender], a, payback)
  <2>1. payback \in Int /\ sender \in Accounts
    BY <1>1, PaybackIsOwed DEF Accounts
  <2>2. account' = [repaid EXCEPT ![sender] = paying] /\ liquidity' = liquidity
    BY <1>5 DEF RepayWithATokens
  <2> HIDE DEF payback
  <2>3. Within(account[u], RepayOf(account[u], a, payback, mode), {a})
    BY <1>1, <2>1, LoansStayWithin
  <2>4. AllWithin(account, repaid, {a})
    BY <1>1, <2>3, AccountsArePositions, OneMoreWithin
  <2> HIDE DEF repaid
  <2>5. Within(repaid[sender], paying, {a})
    <3>1. repaid[sender] \in Position
      BY <2>1, <2>4 DEF AllWithin
    <3>2. QED
      BY <1>1, <2>1, <3>1, OperationsStayWithin
  <2>6. AllWithin(account, account', {a})
    BY <2>1, <2>2, <2>4, <2>5, OneMoreWithin
  <2>7. QED
    BY <1>5, <2>2, <2>6 DEF About, RepayWithATokens, ValidateRepay, Active, Listed, Unpaused
<1>6. ASSUME SwapBorrowRateMode(u, a, mode)
      PROVE  Listed({a}) /\ Unpaused({a}) /\ About({a})
  <2> DEFINE debt == account[u][mode][a]
             q    == MintDebt(BurnDebt(account[u], a, debt, mode), a, debt, OtherMode(mode))
  <2>1. debt \in Int
    BY <1>1 DEF Position, Modes
  <2>2. account' = [account EXCEPT ![u] = q] /\ liquidity' = liquidity
    BY <1>6 DEF SwapBorrowRateMode
  <2> HIDE DEF debt
  <2>3. Within(account[u], q, {a})
    BY <1>1, <2>1, LoansStayWithin
  <2>4. About({a})
    BY <1>1, <2>2, <2>3, OneAccountAbout
  <2>5. QED
    BY <1>6, <2>4 DEF SwapBorrowRateMode, ValidateSwapRateMode, Active, Listed, Unpaused
<1>7. QED
  BY <1>3, <1>4, <1>5, <1>6

LEMMA LiquidationsAreAbout ==
  ASSUME IndInv, NEW l \in Users, NEW u \in Users, NEW c \in Assets, NEW d \in Assets,
         NEW n \in Amounts, NEW receive \in BOOLEAN, LiquidationCall(l, u, c, d, n, receive)
  PROVE  Listed({c, d}) /\ Unpaused({c, d}) /\ About({c, d})
<1> DEFINE p     == account[u]
           terms == Terms(p, c, d, n)
           toLiquidator == terms.seized - terms.fee
           first == account[l].aToken[c] = 0
           all   == toLiquidator = p.aToken[c]
           received == IF receive
                       THEN [account EXCEPT ![l] = ReceiveLiquidated(@, c, toLiquidator, first)]
                       ELSE account
           taken  == [received EXCEPT ![u] = LiquidatedPosition(@, c, d, terms, all)]
<1>1. l \in Accounts /\ u \in Accounts /\ Treasury \in Accounts /\ n \in Nat /\ Id(c) \in Nat
  BY InputsAssumption, ListedIdIsNat DEF Accounts
<1>2. /\ ValidateLiquidationCall(p, c, d) /\ PricesAllow(c, d)
      /\ account' = [taken EXCEPT ![Treasury] = MintAToken(@, c, terms.fee)]
      /\ \A b \in Assets \ {c, d} : liquidity'[b] = liquidity[b]
  BY DEF LiquidationCall, IndInv, TypeOK
<1>3. terms.debt \in Int /\ terms.fee \in Int /\ terms.seized \in Int
  <2>1. terms.debt \in Nat /\ terms.fee \in Nat /\ terms.seized \in 0 .. p.aToken[c]
    BY <1>1, <1>2, LiquidationInputs DEF ValidateLiquidationCall
  <2> HIDE DEF terms
  <2>2. QED
    BY <2>1
<1> HIDE DEF terms
<1>4. toLiquidator \in Int /\ first \in BOOLEAN /\ all \in BOOLEAN
  BY <1>3
<1> HIDE DEF toLiquidator, first, all
<1>5. AllWithin(account, received, {c, d})
  <2>1. Within(account[l], ReceiveLiquidated(account[l], c, toLiquidator, first), {c, d})
    BY <1>1, <1>4, AccountsArePositions, MintsStayWithin
  <2>2. QED
    BY <1>1, <2>1, AccountsArePositions, OneMoreWithin
<1> HIDE DEF received
<1>6. Within(received[u], LiquidatedPosition(received[u], c, d, terms, all), {c, d})
  <2>1. received[u] \in Position
    BY <1>1, <1>5 DEF AllWithin
  <2>2. QED
    BY <1>1, <1>3, <1>4, <2>1, SeizureStaysWithin
<1>7. AllWithin(account, taken, {c, d})
  BY <1>1, <1>5, <1>6, OneMoreWithin
<1> HIDE DEF taken
<1>8. Within(taken[Treasury], MintAToken(taken[Treasury], c, terms.fee), {c, d})
  <2>1. taken[Treasury] \in Position
    BY <1>1, <1>7 DEF AllWithin
  <2>2. QED
    BY <1>1, <1>3, <2>1, OperationsStayWithin
<1>9. AllWithin(account, account', {c, d})
  BY <1>1, <1>2, <1>7, <1>8, OneMoreWithin
<1>10. QED
  BY <1>2, <1>9 DEF About, ValidateLiquidationCall, Active, Listed, Unpaused

LEMMA MintUnbackedIsAbout ==
  ASSUME IndInv, NEW u \in Users, NEW a \in Assets, NEW n \in Amounts, MintUnbacked(u, a, n)
  PROVE  Listed({a}) /\ Unpaused({a}) /\ About({a})
<1>1. u \in Accounts /\ account[u] \in Position /\ Id(a) \in Nat /\ n \in Int
  BY AccountsArePositions, ListedIdIsNat, InputsAssumption DEF Accounts
<1>2. Within(account[u], MintUnbackedTo(account[u], a, n), {a})
  BY <1>1, MintsStayWithin
<1>3. account' = [account EXCEPT ![u] = MintUnbackedTo(account[u], a, n)] /\ liquidity' = liquidity
  BY DEF MintUnbacked
<1>4. About({a})
  BY <1>1, <1>2, <1>3, OneAccountAbout
<1>5. QED
  BY <1>4 DEF MintUnbacked, ValidateSupply, Active, Listed, Unpaused

LEMMA BackUnbackedIsAbout ==
  ASSUME IndInv, NEW a \in Assets, NEW n \in Amounts, NEW fee \in Amounts \cup {0},
         NEW x \in Accounts, BackUnbacked(a, n, fee, x)
  PROVE  Listed({a}) /\ About({a})
<1>1. account[x] \in Position /\ Id(a) \in Nat /\ fee \in Int
  BY AccountsArePositions, ListedIdIsNat, InputsAssumption
<1>2. Within(account[x], MintAToken(account[x], a, fee), {a})
  BY <1>1, OperationsStayWithin
<1>3. /\ account' = [account EXCEPT ![x] = MintAToken(account[x], a, fee)]
      /\ \A b \in Assets \ {a} : liquidity'[b] = liquidity[b]
  BY DEF BackUnbacked, IndInv, TypeOK
<1>4. About({a})
  BY <1>1, <1>2, <1>3, OneAccountAbout
<1>5. QED
  BY <1>4 DEF BackUnbacked, Listed

LEMMA InterestIsAbout ==
  ASSUME IndInv, Interest
  PROVE  \E a \in Assets : Listed({a}) /\ About({a})
<1> PICK u \in Users, x \in Accounts, a \in Assets, mode \in Modes : Accrue(u, x, a, mode)
  BY DEF Interest
<1> DEFINE owing == [account EXCEPT ![u] = MintDebt(account[u], a, 1, mode)]
<1>1. u \in Accounts /\ account[u] \in Position /\ Id(a) \in Nat /\ 1 \in Int
  BY AccountsArePositions, ListedIdIsNat DEF Accounts
<1>2. AllWithin(account, owing, {a})
  <2>1. Within(account[u], MintDebt(account[u], a, 1, mode), {a})
    BY <1>1, OperationsStayWithin
  <2>2. QED
    BY <1>1, <2>1, AccountsArePositions, OneMoreWithin
<1>3. account' = [owing EXCEPT ![x] = MintAToken(owing[x], a, 1)] /\ liquidity' = liquidity
  BY DEF Accrue
<1> HIDE DEF owing
<1>4. Within(owing[x], MintAToken(owing[x], a, 1), {a})
  <2>1. owing[x] \in Position
    BY <1>2 DEF AllWithin
  <2>2. QED
    BY <1>1, <2>1, OperationsStayWithin
<1>5. AllWithin(account, account', {a})
  BY <1>2, <1>3, <1>4, OneMoreWithin
<1>6. reserve[a].listed
  <2>1. account[u] \in Account /\ account[u][mode][a] > 0
    BY <1>1 DEF Accrue, IndInv, TypeOK
  <2>2. DebtOf(account[u], a) > 0
    BY <2>1 DEF Account, DebtOf, Modes
  <2>3. QED
    BY <1>1, <2>2 DEF IndInv, DebtIsFlagged, DebtsFlagged
<1>7. QED
  BY <1>3, <1>5, <1>6 DEF About, Listed

LEMMA EfficiencyModeIsAbout ==
  ASSUME IndInv, EfficiencyMode
  PROVE  About({})
<1> PICK u \in Users, c \in Categories \cup {0} : SetUserEMode(u, c)
  BY DEF EfficiencyMode
<1> DEFINE q == [account[u] EXCEPT !.eMode = c]
<1>1. u \in Accounts /\ account[u] \in Position
  BY AccountsArePositions DEF Accounts
<1>2. Within(account[u], q, {})
  BY <1>1 DEF Within, Position
<1>3. account' = [account EXCEPT ![u] = q] /\ liquidity' = liquidity
  BY DEF SetUserEMode
<1> HIDE DEF q
<1>4. AllWithin(account, account', {})
  BY <1>1, <1>2, <1>3, AccountsArePositions, OneMoreWithin
<1>5. QED
  BY <1>3, <1>4 DEF About

\* Every call is about reserves that exist, and a call of a user about reserves that
\* are not paused.
LEMMA CallsAreAbout ==
  ASSUME IndInv, UserNext \/ Interest
  PROVE  \E S \in SUBSET Assets :
           Listed(S) /\ About(S) /\ (~Interest /\ ~Backing => Unpaused(S))
<1>1. CASE SupplySide \/ DebtSide
  BY <1>1, SupplySideIsAbout, DebtSideIsAbout
<1>2. CASE Liquidations
  <2>1. PICK l \in Users, u \in Users, c \in Assets, d \in Assets, n \in Amounts,
             receive \in BOOLEAN : LiquidationCall(l, u, c, d, n, receive)
    BY <1>2 DEF Liquidations
  <2>2. Listed({c, d}) /\ Unpaused({c, d}) /\ About({c, d})
    BY <2>1, LiquidationsAreAbout
  <2>3. QED
    BY <2>2
<1>3. CASE UnbackedMints
  BY <1>3, MintUnbackedIsAbout DEF UnbackedMints
<1>4. CASE Backing
  BY <1>4, BackUnbackedIsAbout DEF Backing
<1>5. CASE Interest
  BY <1>5, InterestIsAbout
<1>6. CASE EfficiencyMode
  BY <1>6, EfficiencyModeIsAbout DEF Listed, Unpaused
<1>7. QED
  BY <1>1, <1>2, <1>3, <1>4, <1>5, <1>6 DEF UserNext

\* What is nobody's call moves nothing that is anybody's.
LEMMA OthersMoveNothing ==
  ASSUME IndInv, Solvent, Market \/ AdminNext \/ UNCHANGED vars
  PROVE  UNCHANGED <<account, liquidity>>
<1>1. CASE Market \/ UNCHANGED vars
  BY <1>1 DEF Market, SetPrice, ToggleSentinel, vars
<1>2. CASE RiskParameters \/ Switches \/ CategoryParameters
  BY <1>2, SettersLeaveBooks
<1>3. ASSUME NEW a \in Assets, DropReserve(a)
      PROVE  UNCHANGED <<account, liquidity>>
  <2>1. liquidity[a] = 0
    BY <1>3, EmptyReserve DEF DropReserve, ValidateDropReserve
  <2>2. account' = account /\ liquidity' = [liquidity EXCEPT ![a] = 0]
    BY <1>3 DEF DropReserve
  <2>3. QED
    BY <2>1, <2>2 DEF IndInv, TypeOK
<1>4. CASE Listing
  BY <1>3, <1>4 DEF Listing, InitReserve, unchangedPositions
<1>5. QED
  BY <1>1, <1>2, <1>4 DEF AdminNext

\* Whatever is called, in a paused reserve no balance, no debt and no underlying
\* moves, but by interest and by the backing of unbacked mints.  (That dropping a
\* paused reserve takes no money with it needs that the reserve is solvent.)
THEOREM PausedReservesAreStill == Spec => PausedIsStill
<1>1. ASSUME IndInv, Solvent, [Next]_vars, NEW a \in Assets, config[a].paused, ~Interest, ~Backing
      PROVE  /\ liquidity'[a] = liquidity[a]
             /\ \A x \in Accounts :
                  /\ account'[x].aToken[a] = account[x].aToken[a]
                  /\ account'[x].stable[a] = account[x].stable[a]
                  /\ account'[x].variable[a] = account[x].variable[a]
  <2>1. CASE UserNext
    <3>1. PICK S \in SUBSET Assets : About(S) /\ Unpaused(S)
      BY <1>1, <2>1, CallsAreAbout
    <3>2. a \in Assets \ S
      BY <1>1, <3>1 DEF Unpaused
    <3>3. QED
      BY <3>1, <3>2 DEF About, AllWithin, Within
  <2>2. CASE Market \/ AdminNext \/ UNCHANGED vars
    BY <1>1, <2>2, OthersMoveNothing
  <2>3. QED
    BY <1>1, <2>1, <2>2 DEF Next
<1>2. IndInv /\ Solvent /\ [Next]_vars =>
        [\A a \in Assets : config[a].paused /\ ~Interest /\ ~Backing =>
           /\ liquidity'[a] = liquidity[a]
           /\ \A x \in Accounts :
                /\ account'[x].aToken[a] = account[x].aToken[a]
                /\ account'[x].stable[a] = account[x].stable[a]
                /\ account'[x].variable[a] = account[x].variable[a]]_vars
  BY <1>1
<1>3. QED
  BY <1>2, Invariance, ReservesStaySolvent, PTL DEF Spec, PausedIsStill

-----------------------------------------------------------------------------
(* Flags and the list.                                                      *)

\* Every flag is the flag of a reserve that exists.
FlagsListed ==
  \A x \in Accounts : \A i \in account[x].collateral \cup account[x].borrowing :
    \E a \in Assets : reserve[a].listed /\ Id(a) = i

\* Nobody has a flag of the reserve.
Unflagged(a) == \A x \in Accounts : Id(a) \notin account[x].collateral \cup account[x].borrowing

\* A step that drops no reserve that somebody has a flag of.
DropsUnflagged == \A a \in Assets : DropReserve(a) => Unflagged(a)

LEMMA FlagsStayListed ==
  ASSUME IndInv, FlagsListed, [Next]_vars, DropsUnflagged
  PROVE  FlagsListed'
<1>1. CASE UserNext \/ Interest
  <2>1. PICK S \in SUBSET Assets : Listed(S) /\ About(S)
    BY <1>1, CallsAreAbout
  <2>2. \A a \in Assets : reserve'[a].listed = reserve[a].listed /\ Id(a)' = Id(a)
    BY <1>1, CallsKeepUse DEF Id
  <2>3. ASSUME NEW x \in Accounts, NEW i \in account'[x].collateral \cup account'[x].borrowing
        PROVE  \E a \in Assets : reserve[a].listed /\ Id(a) = i
    <3>1. i \in account[x].collateral \cup account[x].borrowing \cup IdsOf(S)
      BY <2>1, <2>3 DEF About, AllWithin, Within
    <3>2. CASE i \in IdsOf(S)
      BY <2>1, <3>2 DEF IdsOf, Listed
    <3>3. CASE i \in account[x].collateral \cup account[x].borrowing
      BY <3>3 DEF FlagsListed
    <3>4. QED
      BY <3>1, <3>2, <3>3
  <2>4. QED
    BY <2>2, <2>3 DEF FlagsListed
<1>2. CASE Market \/ RiskParameters \/ Switches \/ CategoryParameters \/ UNCHANGED vars
  <2>1. UNCHANGED <<account, reserve>>
    BY <1>2, SettersLeaveBooks DEF Market, SetPrice, ToggleSentinel, vars
  <2>2. QED
    BY <2>1 DEF FlagsListed, Id
<1>3. ASSUME NEW b \in Assets, InitReserve(b)
      PROVE  FlagsListed'
  <2>1. /\ ~reserve[b].listed /\ account' = account
        /\ \A a \in Assets : a # b => reserve'[a] = reserve[a]
    BY <1>3 DEF InitReserve, unchangedPositions, IndInv, TypeOK
  <2>2. \A a \in Assets : reserve[a].listed => reserve'[a].listed /\ Id(a)' = Id(a)
    BY <2>1 DEF Id
  <2>3. QED
    BY <2>1, <2>2 DEF FlagsListed
<1>4. ASSUME NEW b \in Assets, DropReserve(b)
      PROVE  FlagsListed'
  <2>1. /\ Unflagged(b) /\ account' = account
        /\ \A a \in Assets : a # b => reserve'[a] = reserve[a]
    BY <1>4 DEF DropsUnflagged, DropReserve, IndInv, TypeOK
  <2>2. ASSUME NEW x \in Accounts, NEW i \in account[x].collateral \cup account[x].borrowing
        PROVE  \E a \in Assets : reserve'[a].listed /\ Id(a)' = i
    <3>1. PICK a \in Assets : reserve[a].listed /\ Id(a) = i
      BY <2>2 DEF FlagsListed
    <3>2. a # b
      BY <2>1, <2>2, <3>1 DEF Unflagged
    <3>3. QED
      BY <2>1, <3>1, <3>2 DEF Id
  <2>3. QED
    BY <2>1, <2>2 DEF FlagsListed
<1>5. QED
  BY <1>1, <1>2, <1>3, <1>4 DEF Next, AdminNext, Listing

\* A flag of a reserve that exists is at its own slot, which is one.
LEMMA ListedFlagsCountOnce ==
  ASSUME IndInv, FlagsListed
  PROVE  CountedOnce
<1>1. ASSUME NEW x \in Accounts, NEW i, NEW j,
             i \in account[x].collateral \cup account[x].borrowing,
             j \in account[x].collateral \cup account[x].borrowing,
             reservesList[i] = reservesList[j]
      PROVE  i = j
  <2>1. PICK a \in Assets : reserve[a].listed /\ Id(a) = i
    BY <1>1 DEF FlagsListed
  <2>2. PICK b \in Assets : reserve[b].listed /\ Id(b) = j
    BY <1>1 DEF FlagsListed
  <2>3. reservesList[i] = a /\ reservesList[j] = b
    BY <2>1, <2>2 DEF IndInv, ListedAtOwnId
  <2>4. QED
    BY <1>1, <2>1, <2>2, <2>3
<1>2. QED
  BY <1>1 DEF CountedOnce

\* A reserve that comes back into the list may be given several empty slots of it.
\* Its collateral and its debt are still counted through one flag, as long as no
\* reserve was dropped while somebody had its flag: validateDropReserve asks for
\* balances and debts, and a liquidation or a repayment with aTokens leaves flags
\* without any.
THEOREM UnflaggedDropsCountOnce == Spec /\ [][DropsUnflagged]_vars => []CountedOnce
<1>1. Init => FlagsListed
  BY DEF Init, NoPosition, FlagsListed
<1>2. IndInv /\ FlagsListed /\ [Next]_vars /\ [DropsUnflagged]_vars => FlagsListed'
  <2>1. ASSUME FlagsListed, UNCHANGED vars
        PROVE  FlagsListed'
    BY <2>1 DEF vars, FlagsListed, Id
  <2>2. QED
    BY <2>1, FlagsStayListed
<1>3. IndInv /\ FlagsListed => CountedOnce
  BY ListedFlagsCountOnce
<1>4. QED
  BY <1>1, <1>2, <1>3, Invariance, PTL DEF Spec

-----------------------------------------------------------------------------
(* Borrowing flags without a debt.                                          *)

\* Every borrowing flag of p is of a reserve that exists and that p owes.
FlagsOwed(p) ==
  \A i \in p.borrowing :
    \E a \in Assets : reserve[a].listed /\ Id(a) = i /\ DebtOf(p, a) > 0

AllFlagsOwed == \A x \in Accounts : FlagsOwed(account[x])

\* q has the flags of p, and the debts that they stand for.
StillOwes(p, q) ==
  /\ q.borrowing = p.borrowing
  /\ \A a \in Assets : DebtOf(p, a) > 0 => DebtOf(q, a) > 0

LEMMA StillOwesStaysOwed ==
  ASSUME NEW p, NEW q, FlagsOwed(p), StillOwes(p, q)
  PROVE  FlagsOwed(q)
  BY DEF FlagsOwed, StillOwes

LEMMA StillOwesTwice ==
  ASSUME NEW p, NEW q, NEW r, StillOwes(p, q), StillOwes(q, r)
  PROVE  StillOwes(p, r)
  BY DEF StillOwes

\* Operations that touch no debt.
LEMMA PlainStillOwes ==
  ASSUME NEW p \in Account, NEW a \in Assets, NEW n \in Int, NEW on \in BOOLEAN
  PROVE  /\ StillOwes(p, MintAToken(p, a, n))
         /\ StillOwes(p, BurnAToken(p, a, n))
         /\ StillOwes(p, SetUsingAsCollateral(p, a, on))
         /\ StillOwes(p, SetUsingAsCollateral(MintAToken(p, a, n), a, on))
         /\ StillOwes(p, SetUsingAsCollateral(BurnAToken(p, a, n), a, on))
  BY DEF Account, MintAToken, BurnAToken, SetUsingAsCollateral, StillOwes, DebtOf

LEMMA MintsStillOwe ==
  ASSUME NEW p \in Account, NEW a \in Assets, NEW n \in Int
  PROVE  /\ StillOwes(p, SupplyTo(p, a, n)) /\ StillOwes(p, ReceiveTransfer(p, a, n))
         /\ StillOwes(p, MintUnbackedTo(p, a, n)) /\ StillOwes(p, GiveUp(p, a, n))
  BY PlainStillOwes DEF SupplyTo, ReceiveTransfer, MintUnbackedTo, GiveUp

\* A loan sets the flag with the debt.
LEMMA BorrowForIsOwed ==
  ASSUME NEW p \in Account, FlagsOwed(p), NEW a \in Assets, reserve[a].listed,
         NEW n \in Nat, n # 0, NEW mode \in Modes
  PROVE  FlagsOwed(BorrowFor(p, a, n, mode))
<1> DEFINE q == BorrowFor(p, a, n, mode)
<1>1. /\ q.borrowing \subseteq p.borrowing \cup {Id(a)}
      /\ \A b \in Assets \ {a} : DebtOf(q, b) = DebtOf(p, b)
      /\ DebtOf(q, a) > 0
  BY DEF Account, BorrowFor, MintDebt, SetBorrowing, DebtOf, Modes
<1> HIDE DEF q
<1>2. ASSUME NEW i \in q.borrowing
      PROVE  \E b \in Assets : reserve[b].listed /\ Id(b) = i /\ DebtOf(q, b) > 0
  <2>1. CASE i = Id(a)
    BY <1>1, <2>1
  <2>2. CASE i # Id(a)
    <3>1. PICK b \in Assets : reserve[b].listed /\ Id(b) = i /\ DebtOf(p, b) > 0
      BY <1>1, <1>2, <2>2 DEF FlagsOwed
    <3>2. QED
      BY <1>1, <2>2, <3>1
  <2>3. QED
    BY <2>1, <2>2
<1>3. QED
  BY <1>2 DEF FlagsOwed, q

\* A repayment clears the flag with the last of the debt, in whichever mode.
LEMMA RepayOfIsOwed ==
  ASSUME NEW p \in Account, FlagsOwed(p), NEW a \in Assets, NEW mode \in Modes,
         NEW n \in 0 .. p[mode][a]
  PROVE  FlagsOwed(RepayOf(p, a, n, mode))
<1> DEFINE burnt == BurnDebt(p, a, n, mode)
           q     == RepayOf(p, a, n, mode)
<1>1. n \in Nat /\ p[mode][a] \in Nat /\ DebtOf(p, a) \in Nat /\ p[mode][a] <= DebtOf(p, a)
  BY DEF Account, DebtOf, Modes
<1>2. /\ burnt.borrowing = p.borrowing
      /\ \A b \in Assets \ {a} : DebtOf(burnt, b) = DebtOf(p, b)
      /\ DebtOf(burnt, a) = DebtOf(p, a) - n
  BY <1>1 DEF Account, BurnDebt, DebtOf, Modes
<1>3. burnt \in Account
  BY <1>1 DEF Account, BurnDebt, Modes
<1>4. /\ q.borrowing = IF DebtOf(p, a) = n THEN burnt.borrowing \ {Id(a)} ELSE burnt.borrowing
      /\ q.stable = burnt.stable /\ q.variable = burnt.variable
  <2> HIDE DEF burnt
  <2>1. q = IF DebtOf(p, a) = n THEN SetBorrowing(burnt, a, FALSE) ELSE burnt
    BY DEF RepayOf, burnt
  <2> HIDE DEF q
  <2>2. QED
    BY <1>3, <2>1 DEF SetBorrowing, Account
<1> HIDE DEF q, burnt
<1>5. ASSUME NEW i \in q.borrowing
      PROVE  \E b \in Assets : reserve[b].listed /\ Id(b) = i /\ DebtOf(q, b) > 0
  <2>1. PICK b \in Assets : reserve[b].listed /\ Id(b) = i /\ DebtOf(p, b) > 0
    BY <1>2, <1>4, <1>5 DEF FlagsOwed
  <2>2. DebtOf(burnt, b) > 0
    <3>1. CASE b = a
      BY <1>1, <1>2, <1>4, <1>5, <2>1, <3>1
    <3>2. CASE b # a
      BY <1>2, <2>1, <3>2
    <3>3. QED
      BY <3>1, <3>2
  <2>3. QED
    BY <1>4, <2>1, <2>2 DEF DebtOf
<1>6. QED
  BY <1>5 DEF FlagsOwed, q

-----------------------------------------------------------------------------
(* All accounts.                                                            *)

OwedIn(accounts) == DOMAIN accounts = Accounts /\ \A x \in Accounts : FlagsOwed(accounts[x])

LEMMA OneMoreOwed ==
  ASSUME NEW accounts, OwedIn(accounts), NEW u \in Accounts, NEW q, FlagsOwed(q)
  PROVE  OwedIn([accounts EXCEPT ![u] = q])
  BY DEF OwedIn

LEMMA AccountsAreOwed ==
  ASSUME IndInv, AllFlagsOwed
  PROVE  /\ OwedIn(account) /\ account \in [Accounts -> Account]
         /\ \A u \in Users : u \in Accounts
  BY DEF IndInv, TypeOK, AllFlagsOwed, OwedIn, Accounts

LEMMA SupplySideOwed ==
  ASSUME IndInv, AllFlagsOwed, SupplySide
  PROVE  OwedIn(account')
<1> PICK u \in Users, a \in Assets :
      \/ \E n \in Amounts : Supply(u, a, n)
      \/ \E n \in Amounts \cup {account[u].aToken[a]} : Withdraw(u, a, n)
      \/ \E to \in Accounts, n \in Amounts \cup {account[u].aToken[a]} : Transfer(u, to, a, n)
      \/ \E use \in BOOLEAN : SetUserUseReserveAsCollateral(u, a, use)
  BY DEF SupplySide
<1>1. u \in Accounts /\ account[u] \in Account /\ OwedIn(account) /\ FlagsOwed(account[u])
  BY AccountsAreOwed DEF OwedIn
<1>2. \A n \in Amounts \cup {account[u].aToken[a]} : n \in Int
  <2>1. account[u].aToken[a] \in Int
    BY <1>1 DEF Account
  <2>2. \A n \in Amounts : n \in Int
    BY InputsAssumption
  <2>3. QED
    BY <2>1, <2>2
<1>3. ASSUME NEW q, StillOwes(account[u], q), account' = [account EXCEPT ![u] = q]
      PROVE  OwedIn(account')
  BY <1>1, <1>3, StillOwesStaysOwed, OneMoreOwed
<1>4. ASSUME NEW n \in Amounts, Supply(u, a, n)
      PROVE  OwedIn(account')
  BY <1>1, <1>2, <1>3, <1>4, MintsStillOwe DEF Supply
<1>5. ASSUME NEW n \in Amounts \cup {account[u].aToken[a]}, Withdraw(u, a, n)
      PROVE  OwedIn(account')
  BY <1>1, <1>2, <1>3, <1>5, MintsStillOwe DEF Withdraw
<1>6. ASSUME NEW to \in Accounts, NEW n \in Amounts \cup {account[u].aToken[a]},
             Transfer(u, to, a, n)
      PROVE  OwedIn(account')
  <2> DEFINE sender   == GiveUp(account[u], a, n)
             paid     == [account EXCEPT ![u] = sender]
             received == ReceiveTransfer(account[to], a, n)
  <2>1. FlagsOwed(sender)
    BY <1>1, <1>2, MintsStillOwe, StillOwesStaysOwed
  <2>2. account[to] \in Account /\ FlagsOwed(account[to]) /\ n \in Int
    BY <1>2, AccountsAreOwed DEF OwedIn
  <2>3. FlagsOwed(received)
    BY <2>2, MintsStillOwe, StillOwesStaysOwed
  <2>4. account' = [paid EXCEPT ![to] = received]
    BY <1>1, <1>6 DEF Transfer, OwedIn
  <2> HIDE DEF sender, received
  <2>5. OwedIn(paid)
    BY <1>1, <2>1, OneMoreOwed
  <2> HIDE DEF paid
  <2>6. QED
    BY <2>3, <2>4, <2>5, OneMoreOwed
<1>7. ASSUME NEW use \in BOOLEAN, SetUserUseReserveAsCollateral(u, a, use)
      PROVE  OwedIn(account')
  <2>1. StillOwes(account[u], SetUsingAsCollateral(account[u], a, use))
    BY <1>1, PlainStillOwes, 0 \in Int
  <2>2. QED
    BY <1>3, <1>7, <2>1 DEF SetUserUseReserveAsCollateral
<1>8. QED
  BY <1>4, <1>5, <1>6, <1>7

LEMMA DebtSideOwed ==
  ASSUME IndInv, AllFlagsOwed, DebtSide
  PROVE  OwedIn(account')
<1> PICK u \in Users, a \in Assets, mode \in Modes :
      \/ \E n \in Amounts : Borrow(u, a, n, mode)
      \/ \E n \in Amounts \cup {account[u][mode][a]} : Repay(u, a, n, mode)
      \/ \E sender \in Users, n \in Amounts \cup {account[u][mode][a]} :
           RepayWithATokens(sender, u, a, n, mode)
      \/ SwapBorrowRateMode(u, a, mode)
  BY DEF DebtSide
<1>1. u \in Accounts /\ account[u] \in Account /\ OwedIn(account) /\ FlagsOwed(account[u])
  BY AccountsAreOwed DEF OwedIn
<1>2. ASSUME NEW n \in Amounts, Borrow(u, a, n, mode)
      PROVE  OwedIn(account')
  <2>1. n \in Nat /\ n # 0 /\ reserve[a].listed
    BY <1>2, InputsAssumption DEF Borrow, ValidateBorrow, Active
  <2>2. FlagsOwed(BorrowFor(account[u], a, n, mode))
    BY <1>1, <2>1, BorrowForIsOwed
  <2>3. account' = [account EXCEPT ![u] = BorrowFor(account[u], a, n, mode)]
    BY <1>2 DEF Borrow
  <2>4. QED
    BY <1>1, <2>2, <2>3, OneMoreOwed
<1>3. ASSUME NEW n \in Amounts \cup {account[u][mode][a]}
      PROVE  /\ Payback(account[u], a, n, mode) \in Int
             /\ FlagsOwed(RepayOf(account[u], a, Payback(account[u], a, n, mode), mode))
  <2>1. /\ Payback(account[u], a, n, mode) \in 0 .. account[u][mode][a]
        /\ Payback(account[u], a, n, mode) \in Nat
    BY <1>1, PaybackIsOwed
  <2>2. QED
    BY <1>1, <2>1, RepayOfIsOwed
<1>4. ASSUME NEW n \in Amounts \cup {account[u][mode][a]}, Repay(u, a, n, mode)
      PROVE  OwedIn(account')
  <2>1. account' = [account EXCEPT ![u] =
                      RepayOf(account[u], a, Payback(account[u], a, n, mode), mode)]
    BY <1>4 DEF Repay
  <2>2. QED
    BY <1>1, <1>3, <2>1, OneMoreOwed
<1>5. ASSUME NEW sender \in Users, NEW n \in Amounts \cup {account[u][mode][a]},
             RepayWithATokens(sender, u, a, n, mode)
      PROVE  OwedIn(account')
  <2> DEFINE payback == Payback(account[u], a, n, mode)
             repaid  == [account EXCEPT ![u] = RepayOf(account[u], a, payback, mode)]
             paying  == BurnAToken(repaid[sender], a, payback)
  <2>1. account' = [repaid EXCEPT ![sender] = paying]
    BY <1>5 DEF RepayWithATokens
  <2>2. OwedIn(repaid) /\ sender \in Accounts
    BY <1>1, <1>3, OneMoreOwed DEF Accounts
  <2> HIDE DEF repaid, payback
  <2>3. StillOwes(repaid[sender], paying)
    BY DEF BurnAToken, StillOwes, DebtOf
  <2>4. FlagsOwed(paying)
    BY <2>2, <2>3, StillOwesStaysOwed DEF OwedIn
  <2>5. QED
    BY <2>1, <2>2, <2>4, OneMoreOwed
<1>6. ASSUME SwapBorrowRateMode(u, a, mode)
      PROVE  OwedIn(account')
  <2> DEFINE p    == account[u]
             debt == p[mode][a]
             q    == MintDebt(BurnDebt(p, a, debt, mode), a, debt, OtherMode(mode))
  <2>1. q.borrowing = p.borrowing /\ \A b \in Assets : DebtOf(q, b) = DebtOf(p, b)
    BY <1>1 DEF Account, MintDebt, BurnDebt, OtherMode, DebtOf, Modes
  <2>2. account' = [account EXCEPT ![u] = q]
    BY <1>6 DEF SwapBorrowRateMode
  <2> HIDE DEF q
  <2>3. StillOwes(account[u], q)
    BY <2>1 DEF StillOwes
  <2>4. QED
    BY <1>1, <2>2, <2>3, StillOwesStaysOwed, OneMoreOwed
<1>7. QED
  BY <1>2, <1>4, <1>5, <1>6

LEMMA OtherCallsOwed ==
  ASSUME IndInv, AllFlagsOwed, UnbackedMints \/ Backing \/ EfficiencyMode \/ Interest
  PROVE  OwedIn(account')
<1>1. \A x \in Accounts : account[x] \in Account /\ FlagsOwed(account[x])
  BY AccountsAreOwed DEF OwedIn
<1>2. ASSUME NEW x \in Accounts, NEW q, StillOwes(account[x], q), account' = [account EXCEPT ![x] = q]
      PROVE  OwedIn(account')
  BY <1>1, <1>2, AccountsAreOwed, StillOwesStaysOwed, OneMoreOwed
<1>3. ASSUME NEW u \in Users, NEW a \in Assets, NEW n \in Amounts, MintUnbacked(u, a, n)
      PROVE  OwedIn(account')
  <2>1. u \in Accounts /\ n \in Int
    BY InputsAssumption DEF Accounts
  <2>2. StillOwes(account[u], MintUnbackedTo(account[u], a, n))
    BY <1>1, <2>1, MintsStillOwe
  <2>3. QED
    BY <1>2, <1>3, <2>1, <2>2 DEF MintUnbacked
<1>4. ASSUME NEW a \in Assets, NEW n, NEW fee \in Amounts \cup {0}, NEW x \in Accounts,
             BackUnbacked(a, n, fee, x)
      PROVE  OwedIn(account')
  <2>1. fee \in Int
    BY InputsAssumption
  <2>2. StillOwes(account[x], MintAToken(account[x], a, fee))
    BY <1>1, <2>1, PlainStillOwes
  <2>3. account' = [account EXCEPT ![x] = MintAToken(account[x], a, fee)]
    BY <1>4 DEF BackUnbacked
  <2>4. QED
    BY <1>2, <2>2, <2>3
<1>5. ASSUME NEW u \in Users, NEW c, SetUserEMode(u, c)
      PROVE  OwedIn(account')
  <2> DEFINE q == [account[u] EXCEPT !.eMode = c]
  <2>1. u \in Accounts /\ account' = [account EXCEPT ![u] = q]
    BY <1>5 DEF SetUserEMode, Accounts
  <2>2. StillOwes(account[u], q)
    BY <1>1, <2>1 DEF StillOwes, DebtOf, Account
  <2>3. QED
    BY <1>2, <2>1, <2>2
<1>6. ASSUME NEW u \in Users, NEW x \in Accounts, NEW a \in Assets, NEW mode \in Modes,
             Accrue(u, x, a, mode)
      PROVE  OwedIn(account')
  <2> DEFINE debtor == MintDebt(account[u], a, 1, mode)
             owing  == [account EXCEPT ![u] = debtor]
             earner == MintAToken(owing[x], a, 1)
  <2>1. u \in Accounts /\ account[u] \in Account
    BY <1>1 DEF Accounts
  <2>2. StillOwes(account[u], debtor)
    BY <2>1 DEF Account, MintDebt, StillOwes, DebtOf, Modes
  <2>3. account' = [owing EXCEPT ![x] = earner]
    BY <1>6 DEF Accrue
  <2> HIDE DEF debtor
  <2>4. OwedIn(owing)
    BY <1>1, <2>1, <2>2, AccountsAreOwed, StillOwesStaysOwed, OneMoreOwed
  <2> HIDE DEF owing
  <2>5. StillOwes(owing[x], earner)
    BY DEF MintAToken, StillOwes, DebtOf
  <2>6. FlagsOwed(earner)
    BY <2>4, <2>5, StillOwesStaysOwed DEF OwedIn
  <2>7. QED
    BY <2>3, <2>4, <2>6, OneMoreOwed
<1>7. QED
  BY <1>3, <1>4, <1>5, <1>6 DEF UnbackedMints, Backing, EfficiencyMode, Interest

LEMMA FlagsStayOwed ==
  ASSUME IndInv, AllFlagsOwed, [Next]_vars, ~Liquidations
  PROVE  AllFlagsOwed'
<1>1. CASE UserNext \/ Interest
  <2>1. OwedIn(account')
    BY <1>1, SupplySideOwed, DebtSideOwed, OtherCallsOwed DEF UserNext
  <2>2. \A a \in Assets : reserve'[a].listed = reserve[a].listed /\ Id(a)' = Id(a)
    BY <1>1, CallsKeepUse DEF Id
  <2>3. QED
    BY <2>1, <2>2 DEF OwedIn, AllFlagsOwed, FlagsOwed, DebtOf
<1>2. CASE Market \/ RiskParameters \/ Switches \/ CategoryParameters \/ UNCHANGED vars
  <2>1. UNCHANGED <<account, reserve>>
    BY <1>2, SettersLeaveBooks DEF Market, SetPrice, ToggleSentinel, vars
  <2>2. QED
    BY <2>1 DEF AllFlagsOwed, FlagsOwed, DebtOf, Id
<1>3. ASSUME NEW b \in Assets, InitReserve(b)
      PROVE  AllFlagsOwed'
  <2>1. /\ ~reserve[b].listed /\ account' = account
        /\ \A a \in Assets : a # b => reserve'[a] = reserve[a]
    BY <1>3 DEF InitReserve, unchangedPositions, IndInv, TypeOK
  <2>2. \A a \in Assets : reserve[a].listed => reserve'[a].listed /\ Id(a)' = Id(a)
    BY <2>1 DEF Id
  <2>3. QED
    BY <2>1, <2>2 DEF AllFlagsOwed, FlagsOwed, DebtOf
<1>4. ASSUME NEW b \in Assets, DropReserve(b)
      PROVE  AllFlagsOwed'
  <2>1. /\ NobodyOwes(b) /\ account' = account
        /\ \A a \in Assets : a # b => reserve'[a] = reserve[a]
    BY <1>4 DEF ValidateDropReserve, DropReserve, IndInv, TypeOK
  <2>2. ASSUME NEW x \in Accounts, NEW i \in account[x].borrowing
        PROVE  \E a \in Assets : reserve'[a].listed /\ Id(a)' = i /\ DebtOf(account[x], a) > 0
    <3>1. PICK a \in Assets : reserve[a].listed /\ Id(a) = i /\ DebtOf(account[x], a) > 0
      BY <2>2 DEF AllFlagsOwed, FlagsOwed
    <3>2. a # b
      BY <2>1, <3>1 DEF NobodyOwes, DebtOf
    <3>3. QED
      BY <2>1, <3>1, <3>2 DEF Id
  <2>3. QED
    BY <2>1, <2>2 DEF AllFlagsOwed, FlagsOwed, DebtOf
<1>5. QED
  BY <1>1, <1>2, <1>3, <1>4 DEF Next, AdminNext, Listing

\* A borrowing flag stands for a debt through every order of loans, repayments in
\* either mode, swaps, transfers, listings and drops.  Liquidations are the one call
\* that breaks it: they leave the flag of a debt that they pay in full.
THEOREM FlagsAreOwedButForLiquidations ==
  Spec /\ [][~Liquidations]_vars => []BorrowingFlagIsOwed
<1>1. Init => AllFlagsOwed
  BY DEF Init, NoPosition, AllFlagsOwed, FlagsOwed
<1>2. IndInv /\ AllFlagsOwed /\ [Next]_vars /\ [~Liquidations]_vars => AllFlagsOwed'
  <2>1. ASSUME AllFlagsOwed, UNCHANGED vars
        PROVE  AllFlagsOwed'
    BY <2>1 DEF vars, AllFlagsOwed, FlagsOwed, DebtOf, Id
  <2>2. QED
    BY <2>1, FlagsStayOwed
<1>3. IndInv /\ AllFlagsOwed => BorrowingFlagIsOwed
  <2>1. ASSUME IndInv, AllFlagsOwed, NEW x \in Accounts, NEW a \in Assets,
               reserve[a].listed, Id(a) \in account[x].borrowing
        PROVE  DebtOf(account[x], a) > 0
    <3>1. PICK b \in Assets : reserve[b].listed /\ Id(b) = Id(a) /\ DebtOf(account[x], b) > 0
      BY <2>1 DEF AllFlagsOwed, FlagsOwed
    <3>2. b = a
      BY <2>1, <3>1, ListedIds DEF IndInv
    <3>3. QED
      BY <3>1, <3>2
  <2>2. QED
    BY <2>1 DEF BorrowingFlagIsOwed
<1>4. QED
  BY <1>1, <1>2, <1>3, Invariance, PTL DEF Spec

-----------------------------------------------------------------------------
(* Efficiency modes.  All calls but two leave everybody's mode as it is,    *)
(* and nobody with a debt in an asset he did not owe before; a loan is      *)
(* checked against the category of its asset; and a change of mode looks at *)
(* the flags, which tell all debts (DebtIsFlagged).                         *)

\* q is in the same mode as p, and owes no asset that p does not owe.
OwesNothingNew(p, q) ==
  q.eMode = p.eMode /\ \A a \in Assets : DebtOf(q, a) > 0 => DebtOf(p, a) > 0

\* The same for all accounts.
NothingNew(before, after) == \A x \in Accounts : OwesNothingNew(before[x], after[x])

\* What the property says of one step.
EModeKept ==
  \A u \in Users : OwesInCategory(account[u]) /\ ~OwesInCategory(account[u])' => config' # config

-----------------------------------------------------------------------------
(* Positions.                                                               *)

LEMMA SameDebtsNothingNew ==
  ASSUME NEW p, NEW q, SameDebts(p, q)
  PROVE  OwesNothingNew(p, q)
  BY DEF SameDebts, OwesNothingNew, DebtOf

LEMMA NothingNewTwice ==
  ASSUME NEW p, NEW q, NEW r, OwesNothingNew(p, q), OwesNothingNew(q, r)
  PROVE  OwesNothingNew(p, r)
  BY DEF OwesNothingNew

\* Minting and burning aTokens and switching flags.
LEMMA PlainChanges ==
  ASSUME NEW p \in Account, NEW a \in Assets, NEW n, NEW on \in BOOLEAN
  PROVE  /\ OwesNothingNew(p, MintAToken(p, a, n))
         /\ OwesNothingNew(p, BurnAToken(p, a, n))
         /\ OwesNothingNew(p, SetUsingAsCollateral(p, a, on))
         /\ OwesNothingNew(p, SetUsingAsCollateral(MintAToken(p, a, n), a, on))
         /\ OwesNothingNew(p, SetUsingAsCollateral(BurnAToken(p, a, n), a, on))
         /\ OwesNothingNew(p, SetBorrowing(p, a, on))
  BY DEF Account, MintAToken, BurnAToken, SetUsingAsCollateral, SetBorrowing, OwesNothingNew, DebtOf

\* Burning debt that is there.
LEMMA BurnDebtNothingNew ==
  ASSUME NEW p \in Account, NEW a \in Assets, NEW mode \in Modes, NEW n \in 0 .. p[mode][a]
  PROVE  OwesNothingNew(p, BurnDebt(p, a, n, mode)) /\ BurnDebt(p, a, n, mode) \in Account
<1> DEFINE q == BurnDebt(p, a, n, mode)
<1>1. n \in Nat /\ p[mode][a] - n \in Nat
  BY DEF Account, Modes
<1>2. q \in Account /\ q.eMode = p.eMode
  BY <1>1 DEF Account, BurnDebt, Modes
<1>3. \A b \in Assets : DebtOf(q, b) = IF b = a THEN DebtOf(p, b) - n ELSE DebtOf(p, b)
  BY <1>1 DEF Account, BurnDebt, DebtOf, Modes
<1>4. DebtOf(p, a) \in Nat
  BY DEF Account, DebtOf
<1> HIDE DEF q
<1>5. QED
  BY <1>1, <1>2, <1>3, <1>4 DEF OwesNothingNew, q

\* Minting debt in an asset that is owed.
LEMMA MintDebtNothingNew ==
  ASSUME NEW p \in Account, NEW a \in Assets, NEW mode \in Modes, NEW n \in Nat, DebtOf(p, a) > 0
  PROVE  OwesNothingNew(p, MintDebt(p, a, n, mode))
  BY DEF Account, MintDebt, OwesNothingNew, DebtOf, Modes

-----------------------------------------------------------------------------
(* All accounts.                                                            *)

\* One account changes.
LEMMA OneMoreNothingNew ==
  ASSUME NEW before, NEW accounts, NothingNew(before, accounts), DOMAIN accounts = Accounts,
         NEW u \in Accounts, NEW q, OwesNothingNew(accounts[u], q)
  PROVE  LET after == [accounts EXCEPT ![u] = q]
         IN NothingNew(before, after) /\ DOMAIN after = Accounts
  BY NothingNewTwice DEF NothingNew

LEMMA AccountsAreTyped ==
  ASSUME IndInv
  PROVE  /\ account \in [Accounts -> Account] /\ DOMAIN account = Accounts
         /\ NothingNew(account, account)
         /\ \A u \in Users : u \in Accounts
  BY DEF IndInv, TypeOK, NothingNew, OwesNothingNew, Accounts

\* With nothing new, and the categories of assets as they were, the promise holds.
LEMMA NothingNewKeeps ==
  ASSUME NothingNew(account, account')
  PROVE  EModeKept
<1> SUFFICES ASSUME NEW u \in Users, OwesInCategory(account[u]), config' = config
             PROVE  OwesInCategory(account[u])'
  BY DEF EModeKept
<1>1. OwesNothingNew(account[u], account'[u])
  BY DEF NothingNew, Accounts
<1>2. ASSUME NEW a \in Assets, account'[u].eMode # 0, DebtOf(account'[u], a) > 0
      PROVE  config'[a].category = account'[u].eMode
  BY <1>1, <1>2 DEF OwesNothingNew, OwesInCategory
<1>3. QED
  BY <1>2 DEF OwesInCategory, DebtOf

\* One account changes in a call, and the others do not.
LEMMA OneAccountKeeps ==
  ASSUME IndInv, NEW u \in Accounts, NEW q, OwesNothingNew(account[u], q),
         account' = [account EXCEPT ![u] = q]
  PROVE  EModeKept
  BY AccountsAreTyped, OneMoreNothingNew, NothingNewKeeps

-----------------------------------------------------------------------------
(* The calls of users.                                                      *)

LEMMA SupplySideKeeps ==
  ASSUME IndInv, SupplySide
  PROVE  EModeKept
<1> PICK u \in Users, a \in Assets :
      \/ \E n \in Amounts : Supply(u, a, n)
      \/ \E n \in Amounts \cup {account[u].aToken[a]} : Withdraw(u, a, n)
      \/ \E to \in Accounts, n \in Amounts \cup {account[u].aToken[a]} : Transfer(u, to, a, n)
      \/ \E use \in BOOLEAN : SetUserUseReserveAsCollateral(u, a, use)
  BY DEF SupplySide
<1>1. u \in Accounts /\ account[u] \in Account
  BY AccountsAreTyped
<1>2. ASSUME NEW n \in Amounts, Supply(u, a, n)
      PROVE  EModeKept
  <2>1. OwesNothingNew(account[u], SupplyTo(account[u], a, n))
    BY <1>1, PlainChanges DEF SupplyTo
  <2>2. QED
    BY <1>1, <1>2, <2>1, OneAccountKeeps DEF Supply
<1>3. ASSUME NEW n, Withdraw(u, a, n)
      PROVE  EModeKept
  <2>1. OwesNothingNew(account[u], GiveUp(account[u], a, n))
    BY <1>1, PlainChanges DEF GiveUp
  <2>2. QED
    BY <1>1, <1>3, <2>1, OneAccountKeeps DEF Withdraw
<1>4. ASSUME NEW to \in Accounts, NEW n, Transfer(u, to, a, n)
      PROVE  EModeKept
  <2> DEFINE paid == [account EXCEPT ![u] = GiveUp(account[u], a, n)]
             received == ReceiveTransfer(account[to], a, n)
  <2>1. OwesNothingNew(account[u], GiveUp(account[u], a, n))
    BY <1>1, PlainChanges DEF GiveUp
  <2>2. NothingNew(account, paid) /\ DOMAIN paid = Accounts
    BY <1>1, <2>1, AccountsAreTyped, OneMoreNothingNew
  <2>3. paid[to] = account[to] /\ account[to] \in Account
    BY <1>4, AccountsAreTyped DEF Transfer
  <2>4. OwesNothingNew(paid[to], received)
    BY <2>3, PlainChanges DEF ReceiveTransfer
  <2>5. account' = [paid EXCEPT ![to] = received]
    BY <1>1, <1>4, AccountsAreTyped DEF Transfer
  <2> HIDE DEF paid, received
  <2>6. NothingNew(account, account')
    BY <2>2, <2>4, <2>5, OneMoreNothingNew
  <2>7. QED
    BY <2>6, NothingNewKeeps
<1>5. ASSUME NEW use \in BOOLEAN, SetUserUseReserveAsCollateral(u, a, use)
      PROVE  EModeKept
  <2>1. OwesNothingNew(account[u], SetUsingAsCollateral(account[u], a, use))
    BY <1>1, PlainChanges
  <2>2. QED
    BY <1>1, <1>5, <2>1, OneAccountKeeps DEF SetUserUseReserveAsCollateral
<1>6. QED
  BY <1>2, <1>3, <1>4, <1>5

\* A loan is of an asset of the borrower's category.
LEMMA BorrowKeeps ==
  ASSUME IndInv, NEW u \in Users, NEW a \in Assets, NEW n \in Amounts, NEW mode \in Modes,
         Borrow(u, a, n, mode)
  PROVE  EModeKept
<1> SUFFICES ASSUME NEW v \in Users, OwesInCategory(account[v]), config' = config
             PROVE  OwesInCategory(account[v])'
  BY DEF EModeKept
<1> DEFINE p == account[u]
           q == BorrowFor(p, a, n, mode)
<1>1. u \in Accounts /\ v \in Accounts /\ p \in Account /\ n \in Nat
  BY AccountsAreTyped, InputsAssumption
<1>2. account' = [account EXCEPT ![u] = q] /\ (p.eMode # 0 => config[a].category = p.eMode)
  BY DEF Borrow, ValidateBorrow
<1>3. q.eMode = p.eMode /\ \A b \in Assets : b # a => DebtOf(q, b) = DebtOf(p, b)
  BY <1>1 DEF Account, BorrowFor, MintDebt, SetBorrowing, DebtOf, Modes
<1> HIDE DEF q
<1>4. CASE v # u
  <2>1. account'[v] = account[v]
    BY <1>1, <1>2, <1>4, AccountsAreTyped
  <2>2. QED
    BY <2>1 DEF OwesInCategory, DebtOf
<1>5. CASE v = u
  <2>1. account'[v] = q
    BY <1>1, <1>2, <1>5, AccountsAreTyped
  <2>2. ASSUME NEW b \in Assets, q.eMode # 0, DebtOf(q, b) > 0
        PROVE  config[b].category = q.eMode
    BY <1>2, <1>3, <1>5, <2>2 DEF OwesInCategory
  <2>3. QED
    BY <2>1, <2>2 DEF OwesInCategory, DebtOf
<1>6. QED
  BY <1>4, <1>5

\* What a repayment makes of the debtor.
LEMMA RepayOfNothingNew ==
  ASSUME IndInv, NEW u \in Accounts, NEW a \in Assets, NEW mode \in Modes,
         NEW n \in Amounts \cup {account[u][mode][a]}
  PROVE  OwesNothingNew(account[u], RepayOf(account[u], a, Payback(account[u], a, n, mode), mode))
<1> DEFINE payback == Payback(account[u], a, n, mode)
           q       == BurnDebt(account[u], a, payback, mode)
<1>1. account[u] \in Account /\ payback \in 0 .. account[u][mode][a]
  BY AccountsAreTyped, PaybackIsOwed
<1> HIDE DEF payback
<1>2. OwesNothingNew(account[u], q) /\ q \in Account
  BY <1>1, BurnDebtNothingNew
<1> HIDE DEF q
<1>3. OwesNothingNew(q, SetBorrowing(q, a, FALSE))
  BY <1>2, PlainChanges
<1>4. QED
  BY <1>2, <1>3, NothingNewTwice DEF RepayOf, q, payback

LEMMA RepayKeeps ==
  ASSUME IndInv, NEW u \in Users, NEW a \in Assets, NEW mode \in Modes,
         NEW n \in Amounts \cup {account[u][mode][a]}, Repay(u, a, n, mode)
  PROVE  EModeKept
<1> DEFINE q == RepayOf(account[u], a, Payback(account[u], a, n, mode), mode)
<1>1. u \in Accounts
  BY AccountsAreTyped
<1>2. OwesNothingNew(account[u], q)
  BY <1>1, RepayOfNothingNew
<1>3. account' = [account EXCEPT ![u] = q]
  BY DEF Repay
<1>4. QED
  BY <1>1, <1>2, <1>3, OneAccountKeeps

LEMMA RepayWithATokensKeeps ==
  ASSUME IndInv, NEW sender \in Users, NEW u \in Users, NEW a \in Assets, NEW mode \in Modes,
         NEW n \in Amounts \cup {account[u][mode][a]}, RepayWithATokens(sender, u, a, n, mode)
  PROVE  EModeKept
<1> DEFINE payback == Payback(account[u], a, n, mode)
           q       == RepayOf(account[u], a, payback, mode)
           repaid  == [account EXCEPT ![u] = q]
           paying  == BurnAToken(repaid[sender], a, payback)
<1>1. u \in Accounts /\ sender \in Accounts
  BY AccountsAreTyped
<1>2. OwesNothingNew(account[u], q)
  BY <1>1, RepayOfNothingNew
<1>3. NothingNew(account, repaid) /\ DOMAIN repaid = Accounts
  BY <1>1, <1>2, AccountsAreTyped, OneMoreNothingNew
<1>4. account' = [repaid EXCEPT ![sender] = paying]
  BY DEF RepayWithATokens
<1> HIDE DEF repaid
<1>5. OwesNothingNew(repaid[sender], paying)
  BY DEF BurnAToken, OwesNothingNew, DebtOf
<1>6. NothingNew(account, account')
  BY <1>1, <1>3, <1>4, <1>5, OneMoreNothingNew
<1>7. QED
  BY <1>6, NothingNewKeeps

LEMMA SwapBorrowRateModeKeeps ==
  ASSUME IndInv, NEW u \in Users, NEW a \in Assets, NEW mode \in Modes,
         SwapBorrowRateMode(u, a, mode)
  PROVE  EModeKept
<1> DEFINE p    == account[u]
           debt == p[mode][a]
           q    == MintDebt(BurnDebt(p, a, debt, mode), a, debt, OtherMode(mode))
<1>1. u \in Accounts /\ p \in Account
  BY AccountsAreTyped
<1>2. q.eMode = p.eMode /\ \A b \in Assets : DebtOf(q, b) = DebtOf(p, b)
  BY <1>1 DEF Account, MintDebt, BurnDebt, OtherMode, DebtOf, Modes
<1>3. account' = [account EXCEPT ![u] = q]
  BY DEF SwapBorrowRateMode
<1> HIDE DEF p, q
<1>4. OwesNothingNew(account[u], q)
  BY <1>2 DEF OwesNothingNew, p
<1>5. QED
  BY <1>1, <1>3, <1>4, OneAccountKeeps

LEMMA DebtSideKeeps ==
  ASSUME IndInv, DebtSide
  PROVE  EModeKept
  BY BorrowKeeps, RepayKeeps, RepayWithATokensKeeps, SwapBorrowRateModeKeeps DEF DebtSide

\* A liquidation burns debt, and mints aTokens to the liquidator and the treasury.
LEMMA LiquidatedNothingNew ==
  ASSUME NEW p \in Account, NEW c \in Assets, NEW d \in Assets, NEW all \in BOOLEAN,
         NEW terms, terms.debt \in 0 .. DebtOf(p, d)
  PROVE  OwesNothingNew(p, LiquidatedPosition(p, c, d, terms, all))
<1> DEFINE n == Least(terms.debt, p.variable[d])
           m == terms.debt - n
           q == BurnDebt(p, d, n, "variable")
           r == BurnDebt(q, d, m, "stable")
<1>1. /\ n \in 0 .. p["variable"][d] /\ m \in 0 .. p["stable"][d]
      /\ "variable" \in Modes /\ "stable" \in Modes
  BY DEF Least, Account, DebtOf, Modes
<1>2. OwesNothingNew(p, q) /\ q \in Account /\ q["stable"] = p["stable"]
  BY <1>1, BurnDebtNothingNew DEF Account, BurnDebt
<1>3. OwesNothingNew(q, r) /\ r \in Account
  <2> HIDE DEF n, m, q
  <2>1. QED BY <1>1, <1>2, BurnDebtNothingNew
<1>4. r = BurnLiquidated(p, d, terms.debt)
  BY DEF BurnLiquidated
<1> HIDE DEF n, m, q, r
<1>5. OwesNothingNew(r, LiquidatedPosition(p, c, d, terms, all))
  BY <1>3, <1>4, PlainChanges DEF LiquidatedPosition
<1>6. QED
  BY <1>2, <1>3, <1>5, NothingNewTwice

LEMMA LiquidationKeeps ==
  ASSUME IndInv, NEW l \in Users, NEW u \in Users, NEW c \in Assets, NEW d \in Assets,
         NEW n \in Amounts, NEW receive \in BOOLEAN, LiquidationCall(l, u, c, d, n, receive)
  PROVE  EModeKept
<1> DEFINE p     == account[u]
           terms == Terms(p, c, d, n)
           toLiquidator == terms.seized - terms.fee
           first == account[l].aToken[c] = 0
           all   == toLiquidator = p.aToken[c]
           received == IF receive
                       THEN [account EXCEPT ![l] = ReceiveLiquidated(@, c, toLiquidator, first)]
                       ELSE account
           taken  == [received EXCEPT ![u] = LiquidatedPosition(@, c, d, terms, all)]
<1>1. l \in Accounts /\ u \in Accounts /\ Treasury \in Accounts /\ n \in Nat
  BY InputsAssumption DEF Accounts
<1>2. /\ reserve[c].listed /\ config[c].lt > 0 /\ PricesAllow(c, d)
      /\ terms.debt <= DebtOf(p, d) /\ terms.fee <= terms.seized
      /\ account' = [taken EXCEPT ![Treasury] = MintAToken(@, c, terms.fee)]
  BY DEF LiquidationCall, ValidateLiquidationCall, Active
<1>3. terms.debt \in 0 .. DebtOf(p, d) /\ toLiquidator \in Nat
  <2>1. terms.debt \in Nat /\ DebtOf(p, d) \in Nat /\ terms.fee \in Nat
    BY <1>1, <1>2, LiquidationInputs, Balances
  <2>2. terms.seized \in 0 .. p.aToken[c]
    BY <1>1, <1>2, LiquidationInputs
  <2>3. p.aToken[c] \in Nat
    BY <1>1, Balances
  <2> HIDE DEF terms
  <2>4. QED
    BY <1>2, <2>1, <2>2, <2>3
<1> HIDE DEF terms
<1>4. first \in BOOLEAN /\ all \in BOOLEAN
  OBVIOUS
<1> HIDE DEF toLiquidator, first, all
<1>5. OwesNothingNew(account[l], ReceiveLiquidated(account[l], c, toLiquidator, first))
  BY <1>1, AccountsAreTyped, PlainChanges DEF ReceiveLiquidated
<1>6. NothingNew(account, received) /\ DOMAIN received = Accounts
  BY <1>1, <1>5, AccountsAreTyped, OneMoreNothingNew
<1>7. received[u] \in Account /\ DebtOf(received[u], d) = DebtOf(p, d)
  <2> DEFINE r == ReceiveLiquidated(account[l], c, toLiquidator, first)
  <2>1. Good(account[l]) /\ Id(c) \in Ids
    BY <1>1, <1>2, AccountsAreGood, ListedIds DEF AllGood, IndInv
  <2>2. r \in Account
    BY <1>3, <1>4, <2>1, ReceiveLiquidatedGood DEF Good
  <2>3. r.stable = account[l].stable /\ r.variable = account[l].variable
    BY <1>3, <1>4, <2>1, ReceiveLiquidatedKeeps
  <2> HIDE DEF r
  <2>4. received[u] = IF receive /\ l = u THEN r ELSE p
    BY <1>1, AccountsAreTyped DEF r
  <2>5. p \in Account
    BY <1>1, AccountsAreTyped
  <2> HIDE DEF received
  <2>6. QED
    BY <2>2, <2>3, <2>4, <2>5 DEF DebtOf
<1> HIDE DEF received
<1>8. OwesNothingNew(received[u], LiquidatedPosition(received[u], c, d, terms, all))
  BY <1>3, <1>4, <1>7, LiquidatedNothingNew
<1>9. NothingNew(account, taken) /\ DOMAIN taken = Accounts
  BY <1>1, <1>6, <1>8, OneMoreNothingNew
<1> HIDE DEF taken
<1>10. OwesNothingNew(taken[Treasury], MintAToken(taken[Treasury], c, terms.fee))
  BY DEF MintAToken, OwesNothingNew, DebtOf
<1>11. NothingNew(account, account')
  BY <1>1, <1>2, <1>9, <1>10, OneMoreNothingNew
<1>12. QED
  BY <1>11, NothingNewKeeps

\* A change of mode is allowed if every flagged reserve is of the new category,
\* and every debt is flagged.
LEMMA SetUserEModeKeeps ==
  ASSUME IndInv, NEW u \in Users, NEW c \in Categories \cup {0}, SetUserEMode(u, c)
  PROVE  EModeKept
<1> SUFFICES ASSUME NEW v \in Users, OwesInCategory(account[v]), config' = config
             PROVE  OwesInCategory(account[v])'
  BY DEF EModeKept
<1> DEFINE p == account[u]
           q == [p EXCEPT !.eMode = c]
<1>1. u \in Accounts /\ v \in Accounts /\ p \in Account
  BY AccountsAreTyped
<1>2. account' = [account EXCEPT ![u] = q] /\ ValidateSetUserEMode(p, c)
  BY DEF SetUserEMode
<1>3. q.eMode = c /\ \A b \in Assets : DebtOf(q, b) = DebtOf(p, b)
  BY <1>1 DEF Account, DebtOf
<1> HIDE DEF q
<1>4. CASE v # u
  <2>1. account'[v] = account[v]
    BY <1>1, <1>2, <1>4, AccountsAreTyped
  <2>2. QED
    BY <2>1 DEF OwesInCategory, DebtOf
<1>5. CASE v = u
  <2>1. account'[v] = q
    BY <1>1, <1>2, <1>5, AccountsAreTyped
  <2>2. ASSUME NEW b \in Assets, c # 0, DebtOf(p, b) > 0
        PROVE  config[b].category = c
    <3>1. reserve[b].listed /\ Id(b) \in p.borrowing
      BY <1>1, <2>2 DEF IndInv, DebtIsFlagged, DebtsFlagged
    <3>2. Id(b) \in 0 .. reservesCount - 1 /\ reservesList[Id(b)] = b
      BY <3>1 DEF IndInv, ListedAtOwnId
    <3>3. c > 0 /\ b # None
      BY <2>2, UnitsAssumption, AddressesAssumption
    <3>4. SlotCategory(Id(b)) = c
      BY <1>2, <3>1, <3>2, <3>3 DEF ValidateSetUserEMode
    <3>5. QED
      BY <3>2, <3>3, <3>4 DEF SlotCategory
  <2>3. QED
    BY <1>3, <2>1, <2>2 DEF OwesInCategory, DebtOf
<1>6. QED
  BY <1>4, <1>5

\* Bridges mint aTokens.
LEMMA BridgesKeep ==
  ASSUME IndInv, UnbackedMints \/ Backing
  PROVE  EModeKept
<1>1. ASSUME NEW u \in Users, NEW a \in Assets, NEW n \in Amounts, MintUnbacked(u, a, n)
      PROVE  EModeKept
  <2>1. u \in Accounts /\ account[u] \in Account
    BY AccountsAreTyped
  <2>2. OwesNothingNew(account[u], MintUnbackedTo(account[u], a, n))
    BY <2>1, PlainChanges DEF MintUnbackedTo
  <2>3. QED
    BY <1>1, <2>1, <2>2, OneAccountKeeps DEF MintUnbacked
<1>2. ASSUME NEW a \in Assets, NEW n, NEW fee, NEW x \in Accounts, BackUnbacked(a, n, fee, x)
      PROVE  EModeKept
  <2>1. account[x] \in Account
    BY AccountsAreTyped
  <2>2. OwesNothingNew(account[x], MintAToken(account[x], a, fee))
    BY <2>1, PlainChanges
  <2>3. account' = [account EXCEPT ![x] = MintAToken(account[x], a, fee)]
    BY <1>2 DEF BackUnbacked
  <2>4. QED
    BY <2>2, <2>3, OneAccountKeeps
<1>3. QED
  BY <1>1, <1>2 DEF UnbackedMints, Backing

\* Interest is on debts that are there.
LEMMA InterestKeeps ==
  ASSUME IndInv, Interest
  PROVE  EModeKept
<1> PICK u \in Users, x \in Accounts, a \in Assets, mode \in Modes : Accrue(u, x, a, mode)
  BY DEF Interest
<1> DEFINE owing == [account EXCEPT ![u] = MintDebt(@, a, 1, mode)]
<1>1. u \in Accounts /\ account[u] \in Account
  BY AccountsAreTyped
<1>2. DebtOf(account[u], a) > 0
  BY <1>1 DEF Accrue, Account, DebtOf, Modes
<1>3. NothingNew(account, owing) /\ DOMAIN owing = Accounts
  BY <1>1, <1>2, MintDebtNothingNew, AccountsAreTyped, OneMoreNothingNew
<1>4. account' = [owing EXCEPT ![x] = MintAToken(owing[x], a, 1)]
  BY DEF Accrue
<1> HIDE DEF owing
<1>5. OwesNothingNew(owing[x], MintAToken(owing[x], a, 1))
  BY DEF MintAToken, OwesNothingNew, DebtOf
<1>6. NothingNew(account, account')
  BY <1>3, <1>4, <1>5, OneMoreNothingNew
<1>7. QED
  BY <1>6, NothingNewKeeps

-----------------------------------------------------------------------------
(* Steps that are nobody's call leave the accounts alone.                   *)

LEMMA OthersLeaveAccounts ==
  ASSUME Market \/ AdminNext \/ UNCHANGED vars
  PROVE  account' = account
<1>1. ASSUME Market \/ UNCHANGED vars
      PROVE  account' = account
  BY <1>1 DEF Market, SetPrice, ToggleSentinel, vars
<1>2. ASSUME Listing
      PROVE  account' = account
  BY <1>2 DEF Listing, InitReserve, DropReserve, unchangedPositions
<1>3. QED
  BY <1>1, <1>2, SettersLeavePositions DEF AdminNext

-----------------------------------------------------------------------------
LEMMA EveryStepKeeps ==
  ASSUME IndInv, [Next]_vars
  PROVE  EModeKept
<1>1. CASE UserNext
  <2>1. ASSUME Liquidations
        PROVE  EModeKept
    BY <2>1, LiquidationKeeps DEF Liquidations
  <2>2. ASSUME EfficiencyMode
        PROVE  EModeKept
    BY <2>2, SetUserEModeKeeps DEF EfficiencyMode
  <2>3. QED
    BY <1>1, <2>1, <2>2, SupplySideKeeps, DebtSideKeeps, BridgesKeep DEF UserNext
<1>2. CASE Interest
  BY <1>2, InterestKeeps
<1>3. CASE Market \/ AdminNext \/ UNCHANGED vars
  <2>1. account' = account
    BY <1>3, OthersLeaveAccounts
  <2>2. QED
    BY <2>1, AccountsAreTyped, NothingNewKeeps
<1>4. QED
  BY <1>1, <1>2, <1>3 DEF Next

\* A user in an efficiency mode who owes only assets of his category owes only such
\* assets after every call, in whatever order he and everybody else borrow, repay,
\* liquidate and change modes; only the administration can end that, by moving an
\* asset to another category.
THEOREM EModeDebtsStay == Spec => EModeDebtsInCategory
<1>1. IndInv /\ [Next]_vars => [EModeKept]_vars
  BY EveryStepKeeps
<1>2. QED
  BY <1>1, Invariance, PTL DEF Spec, EModeDebtsInCategory, EModeKept

-----------------------------------------------------------------------------
(* Health.  The account data are sums over the slots of the list.  Burning  *)
(* collateral is followed by a look at the health; burning debt, or adding  *)
(* collateral at no less than the average threshold, can only improve it,   *)
(* through every division that truncates or rounds on the way.              *)

\* The percentage at which asset a counts in the average threshold of p.
ThresholdFor(p, a) == IF InCategory(p, a) THEN categories[p.eMode].lt ELSE config[a].lt

\* What the loop over the list adds up at each of its slots.
CollateralValues(p) == [i \in ListedSlots |-> CollateralValue(p, i)]
DebtValues(p)       == [i \in ListedSlots |-> DebtValue(p, i)]
Weights(p) ==
  [i \in ListedSlots |-> CollateralValue(p, i) * ThresholdFor(p, reservesList[i])]

\* What is added up at a slot is a natural number.
LEMMA SlotValues ==
  ASSUME IndInv, NEW p \in Account
  PROVE  /\ IsFiniteSet(ListedSlots)
         /\ \A i \in ListedSlots : /\ reservesList[i] \in Assets
                                   /\ PriceFor(p, reservesList[i]) \in Nat
                                   /\ ThresholdFor(p, reservesList[i]) \in Nat
                                   /\ CollateralValues(p)[i] \in Nat
                                   /\ DebtValues(p)[i] \in Nat
                                   /\ Weights(p)[i] \in Nat
<1>1. reservesCount \in Nat /\ ListedSlots \subseteq Ids
  BY UnitsAssumption DEF IndInv, TypeOK, ListedSlots, Ids
<1>2. IsFiniteSet(ListedSlots)
  <2>1. IsFiniteSet(0 .. reservesCount - 1)
    BY <1>1, FS_Interval
  <2>2. ListedSlots \subseteq 0 .. reservesCount - 1
    BY DEF ListedSlots
  <2>3. QED
    BY <2>1, <2>2, FS_Subset
<1>3. ASSUME NEW i \in ListedSlots
      PROVE  /\ reservesList[i] \in Assets
             /\ PriceFor(p, reservesList[i]) \in Nat
             /\ ThresholdFor(p, reservesList[i]) \in Nat
             /\ CollateralValues(p)[i] \in Nat
             /\ DebtValues(p)[i] \in Nat
             /\ Weights(p)[i] \in Nat
  <2> DEFINE a == reservesList[i]
  <2>1. a \in Assets
    BY <1>1, <1>3 DEF IndInv, TypeOK, ListedSlots
  <2> HIDE DEF a
  <2>2. categories[p.eMode] \in Category
    BY DEF IndInv, TypeOK, Account
  <2>3. PriceFor(p, a) \in Nat
    BY <2>1, <2>2 DEF IndInv, TypeOK, PriceFor, Category
  <2>4. ThresholdFor(p, a) \in Nat
    BY <2>1, <2>2 DEF IndInv, TypeOK, ThresholdFor, Category, ReserveConfig
  <2>5. p.aToken[a] \in Nat /\ DebtOf(p, a) \in Nat
    BY <2>1 DEF Account, DebtOf
  <2>6. PriceFor(p, a) * p.aToken[a] \in Nat /\ PriceFor(p, a) * DebtOf(p, a) \in Nat
    BY <2>3, <2>5, SMT
  <2>7. CollateralValue(p, i) \in Nat /\ DebtValue(p, i) \in Nat
    BY <2>6, QuotientIsNat, UnitsAssumption DEF CollateralValue, DebtValue, a
  <2>8. CollateralValue(p, i) * ThresholdFor(p, a) \in Nat
    BY <2>4, <2>7, SMT
  <2>9. QED
    BY <2>1, <2>3, <2>4, <2>7, <2>8 DEF CollateralValues, DebtValues, Weights, a
<1>4. QED
  BY <1>2, <1>3

\* The account data, as sums over slots.
LEMMA AccountData ==
  ASSUME IndInv, NEW p \in Account
  PROVE  LET slots == CollateralSlots(p)
             owed  == p.borrowing \cap ListedSlots
         IN /\ TotalCollateral(p) = SumFunctionOnSet(CollateralValues(p), slots)
            /\ TotalCollateral(p) \in Nat
            /\ SumFunctionOnSet(Weights(p), slots) \in Nat
            /\ AverageThreshold(p) =
                 (IF TotalCollateral(p) = 0 THEN 0
                  ELSE SumFunctionOnSet(Weights(p), slots) \div TotalCollateral(p))
            /\ AverageThreshold(p) \in Nat
            /\ TotalDebt(p) = SumFunctionOnSet(DebtValues(p), owed)
            /\ TotalDebt(p) \in Nat
<1> DEFINE slots == CollateralSlots(p)
           owed  == p.borrowing \cap ListedSlots
           own   == [a \in Assets |-> config[a].lt]
           weigh(i) == Weight(p, i, own, categories[p.eMode].lt)
           values == [i \in slots |-> CollateralValue(p, i)]
           debts  == [i \in owed |-> DebtValue(p, i)]
           weighed == [i \in slots |-> weigh(i)]
<1>1. slots \subseteq ListedSlots /\ owed \subseteq ListedSlots
  BY DEF CollateralSlots
<1>2. IsFiniteSet(slots) /\ IsFiniteSet(owed)
  BY <1>1, SlotValues, FS_Subset
<1>3. /\ \A i \in slots : values[i] = CollateralValues(p)[i]
      /\ \A i \in owed : debts[i] = DebtValues(p)[i]
  BY <1>1 DEF CollateralValues, DebtValues
<1>4. \A i \in slots : weighed[i] = Weights(p)[i]
  <2>1. ASSUME NEW i \in slots
        PROVE  weigh(i) = Weights(p)[i]
    BY <1>1, <2>1, SlotValues DEF Weight, Weights, ThresholdFor
  <2>2. QED
    BY <2>1
<1>5. \A i \in slots : own[reservesList[i]] > 0
  <2>1. ASSUME NEW i \in slots
        PROVE  own[reservesList[i]] > 0
    <3>1. reservesList[i] \in Assets /\ config[reservesList[i]].lt # 0
      BY <1>1, <2>1, SlotValues DEF CollateralSlots
    <3>2. config[reservesList[i]].lt \in Nat
      BY <3>1 DEF IndInv, TypeOK, ReserveConfig
    <3>3. QED
      BY <3>1, <3>2
  <2>2. QED
    BY <2>1
<1>6. {i \in slots : own[reservesList[i]] > 0} = slots
  BY <1>5
<1>7. TotalCollateral(p) = SumFunctionOnSet(values, slots)
  BY DEF TotalCollateral, SumFunction
<1>8. TotalDebt(p) = SumFunctionOnSet(debts, owed)
  BY DEF TotalDebt, SumFunction
<1>9. AverageThreshold(p) =
        IF TotalCollateral(p) = 0 THEN 0
        ELSE SumFunctionOnSet(weighed, slots) \div TotalCollateral(p)
  BY <1>6 DEF AverageThreshold, Average, SumFunction
<1> HIDE DEF slots, owed, values, debts, weighed
<1>10. /\ SumFunctionOnSet(values, slots) = SumFunctionOnSet(CollateralValues(p), slots)
       /\ SumFunctionOnSet(debts, owed) = SumFunctionOnSet(DebtValues(p), owed)
       /\ SumFunctionOnSet(weighed, slots) = SumFunctionOnSet(Weights(p), slots)
  BY <1>2, <1>3, <1>4, SumOfEquals
<1>11. /\ SumFunctionOnSet(CollateralValues(p), slots) \in Nat
       /\ SumFunctionOnSet(DebtValues(p), owed) \in Nat
       /\ SumFunctionOnSet(Weights(p), slots) \in Nat
  BY <1>1, <1>2, SlotValues, SumIsNat
<1>12. AverageThreshold(p) \in Nat
  BY <1>7, <1>9, <1>10, <1>11, QuotientIsNat
<1>13. QED
  BY <1>7, <1>8, <1>9, <1>10, <1>11, <1>12 DEF slots, owed

\* More collateral, at no lower threshold, for no more debt.
LEMMA BetterIsHealthy ==
  ASSUME IndInv, NEW p \in Account, NEW q \in Account, Healthy(p),
         TotalCollateral(q) >= TotalCollateral(p),
         AverageThreshold(q) >= AverageThreshold(p),
         TotalDebt(q) <= TotalDebt(p)
  PROVE  Healthy(q)
<1> DEFINE c == PercentMul(TotalCollateral(p), AverageThreshold(p))
           d == PercentMul(TotalCollateral(q), AverageThreshold(q))
<1>1. /\ TotalCollateral(p) \in Nat /\ AverageThreshold(p) \in Nat /\ TotalDebt(p) \in Nat
      /\ TotalCollateral(q) \in Nat /\ AverageThreshold(q) \in Nat /\ TotalDebt(q) \in Nat
  BY AccountData
<1>2. c \in Nat /\ d \in Nat /\ d >= c
  <2>1. PercentMul(TotalCollateral(p), AverageThreshold(p)) <=
          PercentMul(TotalCollateral(p), AverageThreshold(q))
    BY <1>1, PercentMulGrows
  <2>2. PercentMul(TotalCollateral(p), AverageThreshold(q)) <=
          PercentMul(TotalCollateral(q), AverageThreshold(q))
    BY <1>1, MulHalfUpGrows, PercentageAssumption DEF PercentMul
  <2>3. /\ c \in Nat /\ d \in Nat
        /\ PercentMul(TotalCollateral(p), AverageThreshold(q)) \in Nat
    BY <1>1, PercentMulIsNat
  <2>4. QED
    BY <2>1, <2>2, <2>3
<1> HIDE DEF c, d
<1>3. SUFFICES ASSUME TotalDebt(q) # 0 PROVE DivHalfUp(d, TotalDebt(q), WAD) >= WAD
  BY DEF Healthy, HealthAtLeast, HealthFactor, HEALTH_FACTOR_LIQUIDATION_THRESHOLD, d
<1>4. TotalDebt(p) # 0 /\ DivHalfUp(c, TotalDebt(p), WAD) >= WAD
  BY <1>1, <1>3 DEF Healthy, HealthAtLeast, HealthFactor, HEALTH_FACTOR_LIQUIDATION_THRESHOLD, c
<1>5. WAD \in Nat \ {0}
  BY UnitsAssumption
<1>6. QED
  BY <1>1, <1>2, <1>3, <1>4, <1>5, RatioStaysAboveOne

\* Debts that fall, or lose their flag, are worth less.
LEMMA DebtsWorthLess ==
  ASSUME IndInv, NEW p \in Account, NEW q \in Account,
         q.eMode = p.eMode, q.borrowing \subseteq p.borrowing,
         \A a \in Assets : DebtOf(q, a) <= DebtOf(p, a)
  PROVE  TotalDebt(q) <= TotalDebt(p)
<1> DEFINE S == p.borrowing \cap ListedSlots
           R == q.borrowing \cap ListedSlots
<1>1. R \subseteq S /\ S \subseteq ListedSlots
  OBVIOUS
<1>2. IsFiniteSet(S) /\ IsFiniteSet(R)
  BY <1>1, SlotValues, FS_Subset
<1>3. ASSUME NEW i \in ListedSlots
      PROVE  /\ DebtValues(q)[i] \in Nat /\ DebtValues(p)[i] \in Nat
             /\ DebtValues(q)[i] <= DebtValues(p)[i]
  <2> DEFINE a == reservesList[i]
  <2>1. a \in Assets /\ PriceFor(p, a) \in Nat /\ PriceFor(q, a) = PriceFor(p, a)
    BY <1>3, SlotValues DEF PriceFor, InCategory
  <2>2. DebtOf(p, a) \in Nat /\ DebtOf(q, a) \in Nat /\ DebtOf(q, a) <= DebtOf(p, a)
    BY <2>1 DEF Account, DebtOf
  <2>3. /\ DebtOf(q, a) * PriceFor(p, a) <= DebtOf(p, a) * PriceFor(p, a)
        /\ DebtOf(q, a) * PriceFor(p, a) \in Nat /\ DebtOf(p, a) * PriceFor(p, a) \in Nat
    BY <2>1, <2>2, ProductGrows
  <2>4. /\ DebtOf(q, a) * PriceFor(p, a) = PriceFor(q, a) * DebtOf(q, a)
        /\ DebtOf(p, a) * PriceFor(p, a) = PriceFor(p, a) * DebtOf(p, a)
    BY <2>1, <2>2, SMT
  <2>5. DebtValue(q, i) <= DebtValue(p, i)
    BY <2>3, <2>4, QuotientGrows, UnitsAssumption DEF DebtValue
  <2>6. QED
    BY <1>3, <2>5, SlotValues DEF DebtValues
<1> HIDE DEF S, R
<1>4. SumFunctionOnSet(DebtValues(q), R) <= SumFunctionOnSet(DebtValues(p), R)
  BY <1>1, <1>2, <1>3, SumGrows
<1>5. SumFunctionOnSet(DebtValues(p), R) <= SumFunctionOnSet(DebtValues(p), S)
  BY <1>1, <1>2, <1>3, SumOfSubset
<1>6. /\ TotalDebt(q) = SumFunctionOnSet(DebtValues(q), R) /\ TotalDebt(q) \in Nat
      /\ TotalDebt(p) = SumFunctionOnSet(DebtValues(p), S) /\ TotalDebt(p) \in Nat
  BY AccountData DEF R, S
<1>7. SumFunctionOnSet(DebtValues(p), R) \in Nat
  BY <1>1, <1>2, <1>3, SumIsNat
<1>8. QED
  BY <1>4, <1>5, <1>6, <1>7

\* In the same mode, the same balance is worth the same at the same threshold.
LEMMA SameDebtsSameWorth ==
  ASSUME IndInv, NEW p \in Account, NEW q \in Account, q.eMode = p.eMode
  PROVE  \A i \in ListedSlots :
           /\ ThresholdFor(q, reservesList[i]) = ThresholdFor(p, reservesList[i])
           /\ q.aToken[reservesList[i]] = p.aToken[reservesList[i]] =>
                /\ CollateralValues(q)[i] = CollateralValues(p)[i]
                /\ Weights(q)[i] = Weights(p)[i]
  BY DEF CollateralValues, Weights, CollateralValue, ThresholdFor, PriceFor, InCategory

\* What has lost its flag was worth nothing, and debts have only fallen.
LEMMA RelievedIsHealthy ==
  ASSUME IndInv, NEW p \in Account, NEW q \in Account, Healthy(p),
         q.eMode = p.eMode, q.borrowing \subseteq p.borrowing,
         \A a \in Assets : DebtOf(q, a) <= DebtOf(p, a),
         q.collateral \subseteq p.collateral,
         \A i \in CollateralSlots(p) :
           IF i \in q.collateral THEN q.aToken[reservesList[i]] = p.aToken[reservesList[i]]
                                 ELSE p.aToken[reservesList[i]] = 0
  PROVE  Healthy(q)
<1> DEFINE S == CollateralSlots(p)
           R == CollateralSlots(q)
<1>1. R \subseteq S /\ S \subseteq ListedSlots /\ \A i \in S : i \in R <=> i \in q.collateral
  BY DEF CollateralSlots
<1>2. IsFiniteSet(S) /\ IsFiniteSet(R)
  BY <1>1, SlotValues, FS_Subset
<1>3. \A i \in R : /\ CollateralValues(q)[i] = CollateralValues(p)[i]
                   /\ Weights(q)[i] = Weights(p)[i]
  BY <1>1, SameDebtsSameWorth
<1>4. ASSUME NEW i \in S \ R
      PROVE  CollateralValues(p)[i] = 0 /\ Weights(p)[i] = 0
  <2>1. i \in ListedSlots /\ p.aToken[reservesList[i]] = 0
    BY <1>1, <1>4
  <2>2. PriceFor(p, reservesList[i]) \in Nat /\ ThresholdFor(p, reservesList[i]) \in Nat
    BY <2>1, SlotValues
  <2>3. PriceFor(p, reservesList[i]) * 0 = 0 /\ 0 * ThresholdFor(p, reservesList[i]) = 0
    BY <2>2, SMT
  <2>4. 0 \div TOKEN_UNIT = 0
    BY UnitsAssumption, SMT
  <2>5. CollateralValue(p, i) = 0
    BY <2>1, <2>3, <2>4 DEF CollateralValue
  <2>6. QED
    BY <2>1, <2>3, <2>5 DEF CollateralValues, Weights
<1>5. \A i \in S : CollateralValues(p)[i] \in Nat /\ Weights(p)[i] \in Nat
  BY <1>1, SlotValues
<1> HIDE DEF S, R
<1>6. /\ SumFunctionOnSet(CollateralValues(p), R) = SumFunctionOnSet(CollateralValues(p), S)
      /\ SumFunctionOnSet(Weights(p), R) = SumFunctionOnSet(Weights(p), S)
  BY <1>1, <1>2, <1>4, <1>5, SumOfSubset
<1>7. /\ SumFunctionOnSet(CollateralValues(q), R) = SumFunctionOnSet(CollateralValues(p), R)
      /\ SumFunctionOnSet(Weights(q), R) = SumFunctionOnSet(Weights(p), R)
  BY <1>2, <1>3, SumOfEquals
<1>8. TotalCollateral(q) = TotalCollateral(p) /\ AverageThreshold(q) = AverageThreshold(p)
  BY <1>6, <1>7, AccountData DEF S, R
<1>9. /\ TotalCollateral(p) \in Nat /\ AverageThreshold(p) \in Nat
      /\ TotalDebt(q) <= TotalDebt(p)
  BY AccountData, DebtsWorthLess
<1>10. QED
  BY <1>8, <1>9, BetterIsHealthy

\* What is added as collateral counts for no less than the average.
LEMMA EnrichedIsHealthy ==
  ASSUME IndInv, NEW p \in Account, NEW q \in Account, Healthy(p), NEW a \in Assets,
         q.eMode = p.eMode, q.borrowing = p.borrowing,
         q.stable = p.stable, q.variable = p.variable,
         \/ q.collateral = p.collateral
         \/ q.collateral = p.collateral \cup {Id(a)},
         \A b \in Assets : b # a => q.aToken[b] = p.aToken[b],
         q.aToken[a] >= p.aToken[a],
         Id(a) \in ListedSlots => reservesList[Id(a)] = a,
         \A i \in p.collateral \cap ListedSlots : reservesList[i] = a => i = Id(a),
         config[a].lt # 0 => ThresholdFor(p, a) >= AverageThreshold(p)
  PROVE  Healthy(q)
<1> DEFINE e == Id(a)
           R == CollateralSlots(p)
           S == CollateralSlots(q)
<1>1. /\ R \subseteq S /\ S \subseteq ListedSlots
      /\ \A i \in S \ {e} : i \in R /\ reservesList[i] # a
      /\ e \in S => reservesList[e] = a /\ config[a].lt # 0
  BY DEF CollateralSlots
<1>2. IsFiniteSet(S) /\ IsFiniteSet(R)
  BY <1>1, SlotValues, FS_Subset
<1>3. \A i \in S \ {e} : /\ CollateralValues(q)[i] = CollateralValues(p)[i]
                         /\ Weights(q)[i] = Weights(p)[i]
  <2>1. \A i \in S \ {e} : q.aToken[reservesList[i]] = p.aToken[reservesList[i]]
    BY <1>1, SlotValues
  <2>2. QED
    BY <1>1, <2>1, SameDebtsSameWorth
<1>4. /\ TotalCollateral(p) = SumFunctionOnSet(CollateralValues(p), R)
      /\ TotalCollateral(q) = SumFunctionOnSet(CollateralValues(q), S)
      /\ AverageThreshold(p) =
           (IF TotalCollateral(p) = 0 THEN 0
            ELSE SumFunctionOnSet(Weights(p), R) \div TotalCollateral(p))
      /\ AverageThreshold(q) =
           (IF TotalCollateral(q) = 0 THEN 0
            ELSE SumFunctionOnSet(Weights(q), S) \div TotalCollateral(q))
      /\ TotalCollateral(p) \in Nat /\ TotalCollateral(q) \in Nat
      /\ SumFunctionOnSet(Weights(p), R) \in Nat /\ AverageThreshold(p) \in Nat
  BY AccountData
<1>5. TotalDebt(q) <= TotalDebt(p)
  <2>1. \A b \in Assets : DebtOf(q, b) = DebtOf(p, b) /\ DebtOf(p, b) \in Nat
    BY DEF DebtOf, Account
  <2>2. QED
    BY <2>1, DebtsWorthLess
<1>6. CASE e \notin S
  <2>1. R = S /\ \A i \in S : /\ CollateralValues(q)[i] = CollateralValues(p)[i]
                              /\ Weights(q)[i] = Weights(p)[i]
    BY <1>1, <1>3, <1>6
  <2> HIDE DEF R, S
  <2>2. /\ SumFunctionOnSet(CollateralValues(q), S) = SumFunctionOnSet(CollateralValues(p), S)
        /\ SumFunctionOnSet(Weights(q), S) = SumFunctionOnSet(Weights(p), S)
    BY <1>2, <2>1, SumOfEquals
  <2>3. TotalCollateral(q) = TotalCollateral(p) /\ AverageThreshold(q) = AverageThreshold(p)
    BY <1>4, <2>1, <2>2
  <2>4. QED
    BY <1>4, <1>5, <2>3, BetterIsHealthy
<1>7. CASE e \in S
  <2> DEFINE f == [i \in S |-> IF i \in R THEN CollateralValues(p)[i] ELSE 0]
             w == [i \in S |-> IF i \in R THEN Weights(p)[i] ELSE 0]
             t == ThresholdFor(p, a)
             added == CollateralValues(q)[e] - f[e]
  <2>1. /\ e \in ListedSlots /\ reservesList[e] = a
        /\ t \in Nat /\ t >= AverageThreshold(p)
    BY <1>1, <1>7, SlotValues
  <2>2. \A i \in S : f[i] \in Nat /\ w[i] \in Nat /\ CollateralValues(q)[i] \in Nat
                     /\ Weights(q)[i] \in Nat
    BY <1>1, SlotValues
  <2>3. CollateralValues(q)[e] >= f[e]
    <3>1. CASE e \in R
      <4>1. PriceFor(p, a) \in Nat /\ PriceFor(q, a) = PriceFor(p, a)
        BY <2>1, SlotValues DEF PriceFor, InCategory
      <4>2. p.aToken[a] \in Nat /\ q.aToken[a] \in Nat
        BY DEF Account
      <4>3. /\ p.aToken[a] * PriceFor(p, a) <= q.aToken[a] * PriceFor(p, a)
            /\ p.aToken[a] * PriceFor(p, a) \in Nat /\ q.aToken[a] * PriceFor(p, a) \in Nat
        BY <4>1, <4>2, ProductGrows
      <4>4. /\ p.aToken[a] * PriceFor(p, a) = PriceFor(p, a) * p.aToken[a]
            /\ q.aToken[a] * PriceFor(p, a) = PriceFor(q, a) * q.aToken[a]
        BY <4>1, <4>2, SMT
      <4>5. CollateralValue(p, e) <= CollateralValue(q, e)
        BY <2>1, <4>3, <4>4, QuotientGrows, UnitsAssumption DEF CollateralValue
      <4>6. QED
        BY <1>7, <2>1, <3>1, <4>5 DEF CollateralValues
    <3>2. CASE e \notin R
      BY <1>7, <2>2, <3>2
    <3>3. QED
      BY <3>1, <3>2
  <2>4. added \in Nat /\ CollateralValues(q)[e] = f[e] + added
    BY <1>7, <2>2, <2>3
  <2>5. Weights(q)[e] = w[e] + added * t
    <3>1. Weights(q)[e] = CollateralValues(q)[e] * t
      BY <2>1, SameDebtsSameWorth DEF Weights, CollateralValues
    <3>2. w[e] = f[e] * t
      <4>1. CASE e \in R
        BY <1>7, <2>1, <4>1 DEF Weights, CollateralValues
      <4>2. CASE e \notin R
        <5>1. 0 * t = 0
          BY <2>1, SMT
        <5>2. QED
          BY <1>7, <4>2, <5>1
      <4>3. QED
        BY <4>1, <4>2
    <3>3. f[e] \in Nat
      BY <1>7, <2>2
    <3> HIDE DEF f, w, t, added
    <3>4. (f[e] + added) * t = f[e] * t + added * t
      BY <2>1, <2>4, <3>3, SMT
    <3>5. QED
      BY <2>4, <3>1, <3>2, <3>4
  <2>6. /\ \A i \in S : i # e => CollateralValues(q)[i] = f[i] /\ Weights(q)[i] = w[i]
        /\ \A i \in R : f[i] = CollateralValues(p)[i] /\ w[i] = Weights(p)[i]
        /\ \A i \in S \ R : f[i] = 0 /\ w[i] = 0
    BY <1>1, <1>3
  <2> HIDE DEF f, w, t, added, R, S, e
  <2>7. /\ SumFunctionOnSet(f, R) = SumFunctionOnSet(CollateralValues(p), R)
        /\ SumFunctionOnSet(w, R) = SumFunctionOnSet(Weights(p), R)
    BY <1>2, <2>6, SumOfEquals
  <2>8. /\ SumFunctionOnSet(f, R) = SumFunctionOnSet(f, S)
        /\ SumFunctionOnSet(w, R) = SumFunctionOnSet(w, S)
    BY <1>1, <1>2, <2>2, <2>6, SumOfSubset
  <2>9. /\ SumFunctionOnSet(CollateralValues(q), S) =
             SumFunctionOnSet(f, S) + (CollateralValues(q)[e] - f[e])
        /\ SumFunctionOnSet(Weights(q), S) = SumFunctionOnSet(w, S) + (Weights(q)[e] - w[e])
    BY <1>2, <1>7, <2>2, <2>6, SumWithOneChanged
  <2>10. f[e] \in Nat /\ w[e] \in Nat /\ added * t \in Nat
    BY <1>7, <2>1, <2>2, <2>4, SMT
  <2>11. /\ TotalCollateral(q) = TotalCollateral(p) + added
         /\ SumFunctionOnSet(Weights(q), S) = SumFunctionOnSet(Weights(p), R) + added * t
    BY <1>4, <2>4, <2>5, <2>7, <2>8, <2>9, <2>10
  <2>12. AverageThreshold(q) >= AverageThreshold(p)
    <3>1. CASE TotalCollateral(q) = 0
      <4>1. TotalCollateral(p) = 0
        BY <1>4, <2>4, <2>11, <3>1
      <4>2. QED
        BY <1>4, <3>1, <4>1
    <3>2. CASE TotalCollateral(q) # 0
      <4>1. (SumFunctionOnSet(Weights(p), R) + added * t) \div (TotalCollateral(p) + added)
              >= AverageThreshold(p)
        BY <1>4, <2>1, <2>4, <2>11, <3>2, AverageStays
      <4>2. QED
        BY <1>4, <2>11, <3>2, <4>1
    <3>3. QED
      BY <3>1, <3>2
  <2>13. QED
    BY <1>4, <1>5, <2>4, <2>11, <2>12, BetterIsHealthy
<1>8. QED
  BY <1>6, <1>7

\* A call that leaves configuration and prices alone changes health by the position.
LEMMA HealthOfAPosition ==
  ASSUME NEW u \in Users, unchangedConfig, unchangedMarket
  PROVE  Healthy(account[u])' <=> Healthy(account'[u])
  BY DEF unchangedConfig, unchangedMarket, Healthy, HealthAtLeast, HealthFactor, TotalDebt, TotalCollateral,
    AverageThreshold, Average, Weight, CollateralSlots, ListedSlots, CollateralValue, DebtValue,
    PriceFor, InCategory, DebtOf, HEALTH_FACTOR_LIQUIDATION_THRESHOLD, PercentMul

\* What u may do to his own health, or let others do.  He borrows.
Borrows(u) == \E a \in Assets : DebtOf(account'[u], a) > DebtOf(account[u], a)

\* He enters a category, whose thresholds setUserEMode takes to be higher.
EntersCategory(u) == account'[u].eMode \notin {0, account[u].eMode}

\* He pays a debt with his aTokens.
PaysWithATokens(u) ==
  \E v \in Users, a \in Assets, n \in Nat, mode \in Modes : RepayWithATokens(u, v, a, n, mode)

\* More of an asset counts as his collateral than before: he has more of it, or has
\* set its flag.
Adds(p, q, a) ==
  /\ config[a].lt # 0
  /\ q.aToken[a] > p.aToken[a] \/ Id(a) \in q.collateral \ p.collateral

\* Collateral is added that pulls his average threshold down.
Dilutes(p, q) ==
  \E a \in Assets : Adds(p, q, a) /\ ThresholdFor(p, a) < AverageThreshold(p)
DilutesCollateral(u) == Dilutes(account[u], account'[u])

TakesRisk(u) ==
  Borrows(u) \/ EntersCategory(u) \/ PaysWithATokens(u) \/ DilutesCollateral(u)

-----------------------------------------------------------------------------

\* The flags of an account are at the slots of the reserves they are about.
LEMMA OwnSlots ==
  ASSUME IndInv, FlagsListed, NEW x \in Accounts, NEW a \in Assets, reserve[a].listed
  PROVE  /\ reservesList[Id(a)] = a
         /\ \A i \in account[x].collateral : reservesList[i] = a => i = Id(a)
<1>1. \A b \in Assets : reserve[b].listed => reservesList[Id(b)] = b
  BY DEF IndInv, ListedAtOwnId
<1>2. QED
  BY <1>1 DEF FlagsListed

\* No fewer aTokens, and perhaps the flag of the reserve.
LEMMA GainIsHealthy ==
  ASSUME IndInv, FlagsListed, NEW x \in Accounts, Healthy(account[x]),
         NEW a \in Assets, reserve[a].listed, NEW q \in Account,
         q.eMode = account[x].eMode, q.borrowing = account[x].borrowing,
         q.stable = account[x].stable, q.variable = account[x].variable,
         \/ q.collateral = account[x].collateral
         \/ q.collateral = account[x].collateral \cup {Id(a)},
         \A b \in Assets : b # a => q.aToken[b] = account[x].aToken[b],
         q.aToken[a] >= account[x].aToken[a],
         ~Dilutes(account[x], q)
  PROVE  Healthy(q)
<1> DEFINE p == account[x]
<1>1. p \in Account
  BY AccountsAreTyped
<1>2. \A b \in Assets : DebtOf(q, b) = DebtOf(p, b) /\ DebtOf(p, b) \in Nat
  BY <1>1 DEF DebtOf, Account
<1>3. p.aToken[a] \in Nat /\ q.aToken[a] \in Nat
  BY <1>1 DEF Account
<1> HIDE DEF p
<1>4. CASE Adds(p, q, a)
  <2>1. ThresholdFor(p, a) \in Nat /\ AverageThreshold(p) \in Nat
    <3>1. categories[p.eMode] \in Category /\ config[a] \in ReserveConfig
      BY <1>1 DEF IndInv, TypeOK, Account
    <3>2. QED
      BY <1>1, <3>1, AccountData DEF ThresholdFor, Category, ReserveConfig
  <2>2. ThresholdFor(p, a) >= AverageThreshold(p)
    BY <1>4, <2>1 DEF Dilutes, p
  <2>3. QED
    BY <1>1, <2>2, OwnSlots, EnrichedIsHealthy DEF p
<1>5. CASE ~Adds(p, q, a) /\ config[a].lt # 0
  <2>1. q.aToken[a] = p.aToken[a] /\ q.collateral = p.collateral
    BY <1>3, <1>5 DEF Adds, p
  <2>2. \A i \in CollateralSlots(p) : q.aToken[reservesList[i]] = p.aToken[reservesList[i]]
    BY <1>1, <2>1, SlotValues DEF CollateralSlots, p
  <2>3. CollateralSlots(p) \subseteq p.collateral
    BY DEF CollateralSlots
  <2>4. \A b \in Assets : DebtOf(q, b) <= DebtOf(p, b)
    BY <1>2 DEF p
  <2>5. q.eMode = p.eMode /\ q.borrowing = p.borrowing /\ Healthy(p)
    BY DEF p
  <2>6. QED
    BY <1>1, <2>1, <2>2, <2>3, <2>4, <2>5, RelievedIsHealthy
<1>6. CASE config[a].lt = 0
  BY <1>1, <1>6, OwnSlots, EnrichedIsHealthy DEF p
<1>7. QED
  BY <1>4, <1>5, <1>6

\* Minting n aTokens, and perhaps setting the flag of the reserve.
LEMMA MintIsHealthy ==
  ASSUME IndInv, FlagsListed, NEW x \in Accounts, Healthy(account[x]),
         NEW a \in Assets, reserve[a].listed, NEW n \in Nat,
         NEW q \in Account, ~Dilutes(account[x], q),
         \/ q = MintAToken(account[x], a, n)
         \/ q = SetUsingAsCollateral(MintAToken(account[x], a, n), a, TRUE)
  PROVE  Healthy(q)
<1>1. account[x] \in Account /\ account[x].aToken[a] \in Nat
  BY AccountsAreTyped DEF Account
<1>2. /\ q.eMode = account[x].eMode /\ q.borrowing = account[x].borrowing
      /\ q.stable = account[x].stable /\ q.variable = account[x].variable
      /\ \/ q.collateral = account[x].collateral
         \/ q.collateral = account[x].collateral \cup {Id(a)}
      /\ q.aToken = [account[x].aToken EXCEPT ![a] = account[x].aToken[a] + n]
  BY <1>1 DEF MintAToken, SetUsingAsCollateral, Account
<1>3. /\ \A b \in Assets : b # a => q.aToken[b] = account[x].aToken[b]
      /\ q.aToken[a] >= account[x].aToken[a]
  BY <1>1, <1>2 DEF Account
<1>4. QED
  BY <1>2, <1>3, GainIsHealthy

\* Giving up collateral, after which the health is looked at if it backs a loan.
LEMMA GiveUpIsHealthy ==
  ASSUME IndInv, FlagsListed, NEW x \in Accounts, Healthy(account[x]),
         NEW a \in Assets, reserve[a].listed, NEW n \in 0 .. account[x].aToken[a],
         MayGiveUp(account[x], a, n)
  PROVE  Healthy(GiveUp(account[x], a, n))
<1> DEFINE p == account[x]
           b == BurnAToken(p, a, n)
           q == GiveUp(p, a, n)
<1>1. p \in Account /\ n \in Nat /\ p.aToken[a] - n \in Nat
  <2>1. p \in Account
    BY AccountsAreTyped
  <2>2. p.aToken[a] \in Nat
    BY <2>1 DEF Account
  <2>3. QED
    BY <2>1, <2>2
<1>2. /\ b \in Account
      /\ b.collateral = p.collateral /\ b.borrowing = p.borrowing /\ b.eMode = p.eMode
      /\ b.stable = p.stable /\ b.variable = p.variable
      /\ b.aToken = [p.aToken EXCEPT ![a] = p.aToken[a] - n]
  BY <1>1 DEF BurnAToken, Account
<1>3. /\ q \in Account
      /\ q.borrowing = b.borrowing /\ q.eMode = b.eMode
      /\ q.stable = b.stable /\ q.variable = b.variable /\ q.aToken = b.aToken
      /\ \/ q.collateral = b.collateral
         \/ q.collateral = b.collateral \ {Id(a)} /\ n = p.aToken[a]
  BY <1>2 DEF GiveUp, SetUsingAsCollateral, Account
<1>4. \A c \in Assets : /\ DebtOf(q, c) = DebtOf(p, c) /\ DebtOf(b, c) = DebtOf(p, c)
                        /\ DebtOf(p, c) \in Nat
  BY <1>1, <1>2, <1>3 DEF DebtOf, Account
<1>5. /\ \A i \in CollateralSlots(p) : i \in p.collateral /\ reservesList[i] \in Assets
      /\ CollateralSlots(b) = CollateralSlots(p)
  BY <1>1, <1>2, SlotValues DEF CollateralSlots
<1>6. reservesList[Id(a)] = a /\ \A i \in p.collateral : reservesList[i] = a => i = Id(a)
  BY OwnSlots
<1> HIDE DEF p, b, q
<1>7. CASE UsesAsCollateral(p, a) /\ p.borrowing # {}
  <2>1. Healthy(b)
    BY <1>7 DEF MayGiveUp, HealthAndLtv, b, p
  <2>2. \A i \in CollateralSlots(b) :
          IF i \in q.collateral THEN q.aToken[reservesList[i]] = b.aToken[reservesList[i]]
                                ELSE b.aToken[reservesList[i]] = 0
    BY <1>1, <1>2, <1>3, <1>5, <1>6 DEF Account
  <2>3. \A c \in Assets : DebtOf(q, c) <= DebtOf(b, c)
    BY <1>4
  <2>4. Healthy(q)
    BY <1>2, <1>3, <2>1, <2>2, <2>3, RelievedIsHealthy
  <2>5. QED
    BY <2>4 DEF q, p
<1>8. CASE p.borrowing = {}
  <2>1. q.borrowing \cap ListedSlots = {}
    BY <1>2, <1>3, <1>8
  <2>2. TotalDebt(q) = 0
    BY <1>3, <2>1, AccountData, SumOfNothing
  <2>3. QED
    BY <2>2 DEF Healthy, HealthAtLeast, q, p
<1>9. CASE ~UsesAsCollateral(p, a)
  <2>1. q.collateral = p.collateral
    BY <1>2, <1>3, <1>9 DEF UsesAsCollateral
  <2>2. \A i \in CollateralSlots(p) : q.aToken[reservesList[i]] = p.aToken[reservesList[i]]
    <3>1. ASSUME NEW i \in CollateralSlots(p)
          PROVE  reservesList[i] # a
      BY <1>5, <1>6, <1>9, <3>1 DEF UsesAsCollateral
    <3>2. QED
      BY <1>1, <1>2, <1>3, <1>5, <3>1 DEF Account
  <2>3. \A c \in Assets : DebtOf(q, c) <= DebtOf(p, c)
    BY <1>4
  <2>4. Healthy(p)
    BY DEF p
  <2>5. Healthy(q)
    BY <1>1, <1>2, <1>3, <1>5, <2>1, <2>2, <2>3, <2>4, RelievedIsHealthy
  <2>6. QED
    BY <2>5 DEF q, p
<1>10. QED
  BY <1>7, <1>8, <1>9

\* An account whose collateral is as it was and whose debts have not grown.
LEMMA SameCollateralIsHealthy ==
  ASSUME IndInv, NEW p \in Account, NEW q \in Account, Healthy(p),
         q.eMode = p.eMode, q.collateral = p.collateral, q.aToken = p.aToken,
         q.borrowing \subseteq p.borrowing, \A a \in Assets : DebtOf(q, a) <= DebtOf(p, a)
  PROVE  Healthy(q)
<1>1. CollateralSlots(p) \subseteq p.collateral
  BY DEF CollateralSlots
<1>2. QED
  BY <1>1, RelievedIsHealthy

\* Supplying, withdrawing, transferring and setting the collateral flag.
LEMMA SupplySideKeepsHealth ==
  ASSUME IndInv, IndInv', FlagsListed, SupplySide,
         NEW u \in Users, Healthy(account[u]), ~TakesRisk(u)
  PROVE  Healthy(account'[u])
<1> PICK w \in Users, a \in Assets :
      \/ \E n \in Amounts : Supply(w, a, n)
      \/ \E n \in Amounts \cup {account[w].aToken[a]} : Withdraw(w, a, n)
      \/ \E to \in Accounts, n \in Amounts \cup {account[w].aToken[a]} : Transfer(w, to, a, n)
      \/ \E use \in BOOLEAN : SetUserUseReserveAsCollateral(w, a, use)
  BY DEF SupplySide
<1> DEFINE p == account[w]
<1>1. /\ u \in Accounts /\ w \in Accounts /\ p \in Account
      /\ account[u] \in Account /\ account'[u] \in Account
  BY AccountsAreTyped DEF IndInv, TypeOK
<1>amounts. p.aToken[a] \in Nat /\ Amounts \cup {p.aToken[a]} \subseteq Nat
  BY <1>1, InputsAssumption DEF Account
<1>2. ~Dilutes(account[u], account'[u])
  BY DEF TakesRisk, DilutesCollateral
<1>3. SUFFICES ASSUME account'[u] # account[u] PROVE Healthy(account'[u])
  OBVIOUS
<1>4. ASSUME NEW n \in Amounts, Supply(w, a, n)
      PROVE  Healthy(account'[u])
  <2>1. reserve[a].listed /\ account' = [account EXCEPT ![w] = SupplyTo(p, a, n)]
    BY <1>4 DEF Supply, ValidateSupply, Active
  <2>2. u = w /\ account'[u] = SupplyTo(account[u], a, n) /\ n \in Nat
    BY <1>1, <1>amounts, <1>3, <2>1, AccountsAreTyped
  <2>3. \/ account'[u] = MintAToken(account[u], a, n)
        \/ account'[u] = SetUsingAsCollateral(MintAToken(account[u], a, n), a, TRUE)
    BY <2>2 DEF SupplyTo
  <2>4. QED
    BY <1>1, <1>2, <2>1, <2>2, <2>3, MintIsHealthy
<1>5. ASSUME NEW n \in Amounts \cup {p.aToken[a]}, Withdraw(w, a, n)
      PROVE  Healthy(account'[u])
  <2>1. /\ reserve[a].listed /\ n <= p.aToken[a] /\ MayGiveUp(p, a, n)
        /\ account' = [account EXCEPT ![w] = GiveUp(p, a, n)]
    BY <1>5 DEF Withdraw, ValidateWithdraw, Active
  <2>2. u = w /\ account'[u] = GiveUp(p, a, n) /\ n \in 0 .. p.aToken[a]
    BY <1>1, <1>amounts, <1>3, <2>1, AccountsAreTyped
  <2>3. QED
    BY <1>1, <2>1, <2>2, GiveUpIsHealthy
<1>6. ASSUME NEW to \in Accounts, NEW n \in Amounts \cup {p.aToken[a]}, Transfer(w, to, a, n)
      PROVE  Healthy(account'[u])
  <2>1. /\ reserve[a].listed /\ n <= p.aToken[a] /\ MayGiveUp(p, a, n) /\ w # to
        /\ account' = [account EXCEPT ![w] = GiveUp(p, a, n),
                                      ![to] = ReceiveTransfer(account[to], a, n)]
    BY <1>1, <1>6, AccountsAreTyped DEF Transfer, ValidateTransfer
  <2>2. CASE u = w
    <3>1. account'[u] = GiveUp(p, a, n) /\ n \in 0 .. p.aToken[a]
      BY <1>1, <1>amounts, <2>1, <2>2, AccountsAreTyped
    <3>2. QED
      BY <1>1, <2>1, <2>2, <3>1, GiveUpIsHealthy
  <2>3. CASE u # w
    <3>1. account'[u] = ReceiveTransfer(account[u], a, n)
      BY <1>1, <1>3, <2>1, <2>3, AccountsAreTyped
    <3>2. \/ account'[u] = MintAToken(account[u], a, n)
          \/ account'[u] = SetUsingAsCollateral(MintAToken(account[u], a, n), a, TRUE)
      BY <3>1 DEF ReceiveTransfer
    <3>3. n \in Nat
      BY <1>amounts
    <3>4. QED
      BY <1>1, <1>2, <2>1, <3>2, <3>3, MintIsHealthy
  <2>4. QED
    BY <2>2, <2>3
<1>7. ASSUME NEW use \in BOOLEAN, SetUserUseReserveAsCollateral(w, a, use)
      PROVE  Healthy(account'[u])
  <2> DEFINE q == SetUsingAsCollateral(p, a, use)
  <2>1. /\ reserve[a].listed /\ account' = [account EXCEPT ![w] = q]
        /\ ~use => Healthy(q)
    BY <1>7 DEF SetUserUseReserveAsCollateral, ValidateSetUseReserveAsCollateral, Active,
                HealthAndLtv
  <2>2. u = w /\ account'[u] = q
    BY <1>1, <1>amounts, <1>3, <2>1, AccountsAreTyped
  <2>3. CASE use
    <3>1. /\ q.eMode = p.eMode /\ q.borrowing = p.borrowing
          /\ q.stable = p.stable /\ q.variable = p.variable /\ q.aToken = p.aToken
          /\ q.collateral = p.collateral \cup {Id(a)}
      BY <1>1, <2>3 DEF SetUsingAsCollateral, Account
    <3> HIDE DEF q
    <3>2. q.aToken[a] >= p.aToken[a]
      BY <1>amounts, <3>1
    <3>3. QED
      BY <1>1, <1>2, <2>1, <2>2, <3>1, <3>2, GainIsHealthy
  <2>4. QED
    BY <2>1, <2>2, <2>3
<1>8. QED
  BY <1>4, <1>5, <1>6, <1>7

\* A repayment.
LEMMA RepayIsHealthy ==
  ASSUME IndInv, NEW p \in Account, Healthy(p), NEW a \in Assets, NEW mode \in Modes,
         NEW n \in Nat, RepayOf(p, a, Payback(p, a, n, mode), mode) \in Account
  PROVE  Healthy(RepayOf(p, a, Payback(p, a, n, mode), mode))
<1> DEFINE k == Payback(p, a, n, mode)
           q == RepayOf(p, a, k, mode)
<1>1. k \in Nat /\ p.stable \in [Assets -> Nat] /\ p.variable \in [Assets -> Nat]
  BY DEF Account, Modes, Payback, Least
<1> HIDE DEF k
<1>2. /\ q.eMode = p.eMode /\ q.collateral = p.collateral /\ q.aToken = p.aToken
      /\ q.borrowing \subseteq p.borrowing
      /\ \/ q.stable = p.stable /\ q.variable = [p.variable EXCEPT ![a] = p.variable[a] - k]
         \/ q.variable = p.variable /\ q.stable = [p.stable EXCEPT ![a] = p.stable[a] - k]
  BY DEF RepayOf, BurnDebt, SetBorrowing, Account
<1> HIDE DEF q
<1>3. \A b \in Assets : DebtOf(q, b) <= DebtOf(p, b)
  BY <1>1, <1>2 DEF DebtOf
<1>4. QED
  BY <1>2, <1>3, SameCollateralIsHealthy DEF q, k

\* Repaying and swapping; loans and payments with aTokens are risks.
LEMMA DebtSideKeepsHealth ==
  ASSUME IndInv, IndInv', DebtSide, NEW u \in Users, Healthy(account[u]), ~TakesRisk(u)
  PROVE  Healthy(account'[u])
<1> PICK w \in Users, a \in Assets, mode \in Modes :
      \/ \E n \in Amounts : Borrow(w, a, n, mode)
      \/ \E n \in Amounts \cup {account[w][mode][a]} : Repay(w, a, n, mode)
      \/ \E sender \in Users, n \in Amounts \cup {account[w][mode][a]} :
           RepayWithATokens(sender, w, a, n, mode)
      \/ SwapBorrowRateMode(w, a, mode)
  BY DEF DebtSide
<1> DEFINE p == account[w]
<1>1. /\ u \in Accounts /\ w \in Accounts /\ p \in Account
      /\ account[u] \in Account /\ account'[u] \in Account
      /\ Amounts \cup {p[mode][a]} \subseteq Nat
  BY AccountsAreTyped, InputsAssumption DEF IndInv, TypeOK, Account, Modes
<1>2. SUFFICES ASSUME account'[u] # account[u] PROVE Healthy(account'[u])
  OBVIOUS
<1>3. ASSUME NEW n \in Amounts, Borrow(w, a, n, mode)
      PROVE  Healthy(account'[u])
  <2>1. n # 0 /\ account' = [account EXCEPT ![w] = BorrowFor(p, a, n, mode)]
    BY <1>3 DEF Borrow, ValidateBorrow
  <2>2. u = w /\ account'[u] = BorrowFor(p, a, n, mode) /\ n \in Nat
    BY <1>1, <1>2, <2>1, AccountsAreTyped
  <2>3. DebtOf(BorrowFor(p, a, n, mode), a) = DebtOf(p, a) + n
    BY <1>1, <2>2 DEF BorrowFor, MintDebt, SetBorrowing, DebtOf, Account, Modes
  <2>4. DebtOf(p, a) \in Nat
    BY <1>1 DEF DebtOf, Account
  <2>5. Borrows(u)
    BY <2>1, <2>2, <2>3, <2>4 DEF Borrows
  <2>6. QED
    BY <2>5 DEF TakesRisk
<1>4. ASSUME NEW n \in Amounts \cup {p[mode][a]}, Repay(w, a, n, mode)
      PROVE  Healthy(account'[u])
  <2>1. account' = [account EXCEPT ![w] = RepayOf(p, a, Payback(p, a, n, mode), mode)]
    BY <1>4 DEF Repay
  <2>2. u = w /\ account'[u] = RepayOf(p, a, Payback(p, a, n, mode), mode) /\ n \in Nat
    BY <1>1, <1>2, <2>1, AccountsAreTyped
  <2>3. QED
    BY <1>1, <2>2, RepayIsHealthy
<1>5. ASSUME NEW sender \in Users, NEW n \in Amounts \cup {p[mode][a]},
             RepayWithATokens(sender, w, a, n, mode)
      PROVE  Healthy(account'[u])
  <2>1. n \in Nat /\ u # sender
    BY <1>1, <1>5 DEF TakesRisk, PaysWithATokens
  <2> DEFINE repaid == [account EXCEPT ![w] = RepayOf(p, a, Payback(p, a, n, mode), mode)]
  <2>2. account' = [repaid EXCEPT ![sender] = BurnAToken(repaid[sender], a, Payback(p, a, n, mode))]
    BY <1>5, AccountsAreTyped DEF RepayWithATokens, Accounts
  <2>3. account'[u] = repaid[u]
    BY <1>1, <2>1, <2>2, AccountsAreTyped
  <2>4. u = w /\ account'[u] = RepayOf(p, a, Payback(p, a, n, mode), mode)
    BY <1>1, <1>2, <2>3, AccountsAreTyped
  <2>5. QED
    BY <1>1, <2>1, <2>4, RepayIsHealthy
<1>6. ASSUME SwapBorrowRateMode(w, a, mode)
      PROVE  Healthy(account'[u])
  <2> DEFINE n == p[mode][a]
             q == MintDebt(BurnDebt(p, a, n, mode), a, n, OtherMode(mode))
  <2>1. account' = [account EXCEPT ![w] = q]
    BY <1>6 DEF SwapBorrowRateMode
  <2>2. u = w /\ account'[u] = q
    BY <1>1, <1>2, <2>1, AccountsAreTyped
  <2>3. /\ q.eMode = p.eMode /\ q.collateral = p.collateral /\ q.aToken = p.aToken
        /\ q.borrowing = p.borrowing
    BY DEF MintDebt, BurnDebt
  <2>4. \A b \in Assets : DebtOf(q, b) <= DebtOf(p, b)
    <3>1. CASE mode = "stable"
      <4>1. /\ q.stable = [p.stable EXCEPT ![a] = p.stable[a] - p.stable[a]]
            /\ q.variable = [p.variable EXCEPT ![a] = p.variable[a] + p.stable[a]]
        BY <1>1, <3>1 DEF MintDebt, BurnDebt, OtherMode, Account
      <4> HIDE DEF q
      <4>2. QED
        BY <1>1, <4>1 DEF DebtOf, Account
    <3>2. CASE mode = "variable"
      <4>1. /\ q.variable = [p.variable EXCEPT ![a] = p.variable[a] - p.variable[a]]
            /\ q.stable = [p.stable EXCEPT ![a] = p.stable[a] + p.variable[a]]
        BY <1>1, <3>2 DEF MintDebt, BurnDebt, OtherMode, Account
      <4> HIDE DEF q
      <4>2. QED
        BY <1>1, <4>1 DEF DebtOf, Account
    <3>3. QED
      BY <3>1, <3>2 DEF Modes
  <2> HIDE DEF q
  <2>5. QED
    BY <1>1, <2>2, <2>3, <2>4, SameCollateralIsHealthy
<1>7. QED
  BY <1>3, <1>4, <1>5, <1>6

\* Those who are liquidated were not healthy, and a liquidator who takes the
\* aTokens gains collateral.
LEMMA LiquidationsKeepHealth ==
  ASSUME IndInv, IndInv', FlagsListed, Liquidations,
         NEW u \in Users, Healthy(account[u]), ~TakesRisk(u)
  PROVE  Healthy(account'[u])
<1> PICK l \in Users, v \in Users, c \in Assets, d \in Assets, n \in Amounts, receive \in BOOLEAN :
      LiquidationCall(l, v, c, d, n, receive)
  BY DEF Liquidations
<1> DEFINE p     == account[v]
           terms == Terms(p, c, d, n)
           got   == terms.seized - terms.fee
           first == account[l].aToken[c] = 0
           all   == got = p.aToken[c]
           q     == ReceiveLiquidated(account[l], c, got, first)
           received == IF receive THEN [account EXCEPT ![l] = q] ELSE account
           seized == LiquidatedPosition(received[v], c, d, terms, all)
           taken == [received EXCEPT ![v] = seized]
<1>1. /\ reserve[c].listed /\ ~Healthy(p)
      /\ PricesAllow(c, d) /\ config[c].lt > 0 /\ terms.fee <= terms.seized
      /\ account' = [taken EXCEPT ![Treasury] = MintAToken(taken[Treasury], c, terms.fee)]
  BY DEF LiquidationCall, ValidateLiquidationCall, Active
<1>2. /\ u \in Accounts /\ v \in Accounts /\ l \in Accounts
      /\ account'[u] \in Account /\ n \in Nat /\ u # v /\ u # Treasury
  BY <1>1, AccountsAreTyped, InputsAssumption, AddressesAssumption DEF IndInv, TypeOK
<1>3. got \in Nat
  <2>1. terms.seized \in Nat /\ terms.fee \in Nat
    BY <1>1, <1>2, LiquidationInputs
  <2> HIDE DEF terms
  <2>2. QED
    BY <1>1, <2>1
<1> HIDE DEF got, all, first, terms, seized, q
<1>4. account'[u] = received[u]
  BY <1>1, <1>2, AccountsAreTyped
<1>5. SUFFICES ASSUME account'[u] # account[u] PROVE Healthy(account'[u])
  OBVIOUS
<1>6. u = l /\ account'[u] = q
  BY <1>2, <1>4, <1>5, AccountsAreTyped
<1>7. \/ account'[u] = MintAToken(account[u], c, got)
      \/ account'[u] = SetUsingAsCollateral(MintAToken(account[u], c, got), c, TRUE)
  BY <1>6 DEF q, ReceiveLiquidated
<1>8. ~Dilutes(account[u], account'[u])
  BY DEF TakesRisk, DilutesCollateral
<1>9. QED
  BY <1>1, <1>2, <1>3, <1>7, <1>8, MintIsHealthy

\* Bridges mint aTokens, and earners get their fees.
LEMMA BridgesKeepHealth ==
  ASSUME IndInv, IndInv', FlagsListed, UnbackedMints \/ Backing,
         NEW u \in Users, Healthy(account[u]), ~TakesRisk(u)
  PROVE  Healthy(account'[u])
<1>1. u \in Accounts /\ account'[u] \in Account /\ ~Dilutes(account[u], account'[u])
  BY AccountsAreTyped DEF IndInv, TypeOK, TakesRisk, DilutesCollateral
<1>2. SUFFICES ASSUME account'[u] # account[u] PROVE Healthy(account'[u])
  OBVIOUS
<1>3. ASSUME NEW w \in Users, NEW a \in Assets, NEW n \in Amounts, MintUnbacked(w, a, n)
      PROVE  Healthy(account'[u])
  <2>1. reserve[a].listed /\ account' = [account EXCEPT ![w] = MintUnbackedTo(account[w], a, n)]
    BY <1>3 DEF MintUnbacked, ValidateSupply, Active
  <2>2. account'[u] = MintUnbackedTo(account[u], a, n) /\ n \in Nat
    BY <1>1, <1>2, <2>1, AccountsAreTyped, InputsAssumption
  <2>3. \/ account'[u] = MintAToken(account[u], a, n)
        \/ account'[u] = SetUsingAsCollateral(MintAToken(account[u], a, n), a, TRUE)
    BY <2>2 DEF MintUnbackedTo
  <2>4. QED
    BY <1>1, <2>1, <2>2, <2>3, MintIsHealthy
<1>4. ASSUME NEW a \in Assets, NEW n \in Amounts, NEW fee \in Amounts \cup {0}, NEW x \in Accounts,
             BackUnbacked(a, n, fee, x)
      PROVE  Healthy(account'[u])
  <2>1. reserve[a].listed /\ account' = [account EXCEPT ![x] = MintAToken(account[x], a, fee)]
    BY <1>4 DEF BackUnbacked
  <2>2. account'[u] = MintAToken(account[u], a, fee) /\ fee \in Nat
    BY <1>1, <1>2, <2>1, AccountsAreTyped, InputsAssumption
  <2>3. QED
    BY <1>1, <2>1, <2>2, MintIsHealthy
<1>5. QED
  BY <1>3, <1>4 DEF UnbackedMints, Backing

\* Leaving a category is looked at; what is left is to enter one.
LEMMA EfficiencyModeKeepsHealth ==
  ASSUME IndInv, EfficiencyMode, NEW u \in Users, Healthy(account[u]), ~TakesRisk(u)
  PROVE  Healthy(account'[u])
<1> PICK w \in Users, c \in Categories \cup {0} : SetUserEMode(w, c)
  BY DEF EfficiencyMode
<1> DEFINE q == [account[w] EXCEPT !.eMode = c]
<1>1. /\ account' = [account EXCEPT ![w] = q]
      /\ account[w].eMode # 0 /\ c = 0 => Healthy(q)
  BY DEF SetUserEMode
<1>2. u \in Accounts /\ w \in Accounts /\ account[w] \in Account
  BY AccountsAreTyped
<1>3. q.eMode = c /\ (c = account[w].eMode => q = account[w])
  BY <1>2 DEF Account
<1>4. SUFFICES ASSUME account'[u] # account[u] PROVE Healthy(account'[u])
  OBVIOUS
<1> HIDE DEF q
<1>5. u = w /\ account'[u] = q
  BY <1>1, <1>2, <1>4, AccountsAreTyped
<1>6. c = 0 /\ account[w].eMode # 0
  BY <1>3, <1>4, <1>5 DEF TakesRisk, EntersCategory
<1>7. QED
  BY <1>1, <1>5, <1>6

\* No call of a user changes what positions are valued with.
LEMMA CallsLeaveValues ==
  ASSUME UserNext
  PROVE  unchangedConfig /\ unchangedMarket
<1>1. CASE SupplySide
  BY <1>1 DEF SupplySide, Supply, Withdraw, Transfer, SetUserUseReserveAsCollateral
<1>2. CASE DebtSide
  BY <1>2 DEF DebtSide, Borrow, Repay, RepayWithATokens, SwapBorrowRateMode
<1>3. CASE Liquidations
  BY <1>3 DEF Liquidations, LiquidationCall
<1>4. CASE UnbackedMints \/ Backing \/ EfficiencyMode
  BY <1>4 DEF UnbackedMints, Backing, EfficiencyMode, MintUnbacked, BackUnbacked, SetUserEMode
<1>5. QED
  BY <1>1, <1>2, <1>3, <1>4 DEF UserNext

\* A step in which u falls below health factor 1.
LosesHealth(u) == Healthy(account[u]) /\ ~Healthy(account[u])'

\* Together: who loses his health by a call was exposed to a risk.
LEMMA CallsKeepHealth ==
  ASSUME IndInv, IndInv', FlagsListed, [Next]_vars, NEW u \in Users, LosesHealth(u)
  PROVE  Market \/ Interest \/ AdminNext \/ TakesRisk(u)
<1>1. ASSUME UserNext
      PROVE  TakesRisk(u)
  <2>1. Healthy(account[u]) /\ ~Healthy(account'[u])
    BY <1>1, CallsLeaveValues, HealthOfAPosition DEF LosesHealth
  <2>2. QED
    BY <1>1, <2>1, SupplySideKeepsHealth, DebtSideKeepsHealth, LiquidationsKeepHealth,
       BridgesKeepHealth, EfficiencyModeKeepsHealth DEF UserNext
<1>2. CASE UNCHANGED vars
  <2>1. Healthy(account[u])' <=> Healthy(account'[u])
    BY <1>2, HealthOfAPosition DEF vars, unchangedConfig, unchangedMarket
  <2>2. account' = account
    BY <1>2 DEF vars
  <2>3. QED
    BY <2>1, <2>2 DEF LosesHealth
<1>3. QED
  BY <1>1, <1>2 DEF Next

\* The steps in which a user may lose his health.
HealthKept == \A u \in Users : LosesHealth(u) => Market \/ Interest \/ AdminNext \/ TakesRisk(u)

\* A healthy user becomes unhealthy by prices, by interest, by the administration or
\* by one of four risks: a loan of his, his entering a category, a debt paid with his
\* aTokens, or new collateral of his, given by whomever, below his average threshold,
\* whose truncation then rounds down.  But for these, no withdrawal, transfer,
\* repayment, swap, liquidation, bridged mint or change of flag does it, to himself or
\* to another, while no reserve is dropped under a flag (a flag left at a slot of a
\* relisted asset is not looked at when its aTokens go).
THEOREM HealthIsLostByRiskOnly ==
  Spec /\ [][DropsUnflagged]_vars => [][HealthKept]_vars
<1>1. Init => FlagsListed
  BY DEF Init, NoPosition, FlagsListed
<1>2. IndInv /\ FlagsListed /\ [Next]_vars /\ [DropsUnflagged]_vars => FlagsListed'
  <2>1. ASSUME FlagsListed, UNCHANGED vars
        PROVE  FlagsListed'
    BY <2>1 DEF vars, FlagsListed, Id
  <2>2. QED
    BY <2>1, FlagsStayListed
<1>3. IndInv /\ IndInv' /\ FlagsListed /\ [Next]_vars => [HealthKept]_vars
  BY CallsKeepHealth DEF HealthKept
<1>4. QED
  BY <1>1, <1>2, <1>3, Invariance, PTL DEF Spec

\* While nobody is exposed to one of these risks, no call of a user makes a position
\* unhealthy: only prices, interest and the administration do.
COROLLARY NobodyElseTakesHealth ==
  Spec /\ [][DropsUnflagged]_vars /\ [][\A u \in Users : ~TakesRisk(u)]_vars => HealthPreserved
<1> DEFINE NoRisk == \A u \in Users : ~TakesRisk(u)
           Kept   == \A u \in Users : Healthy(account[u]) /\ ~Healthy(account[u])' =>
                       Market \/ Interest \/ AdminNext
<1>1. [HealthKept]_vars /\ [NoRisk]_vars => [Kept]_vars
  BY DEF HealthKept, LosesHealth
<1>2. HealthPreserved <=> [][Kept]_vars
  BY DEF HealthPreserved
<1> HIDE DEF NoRisk, Kept
<1>3. [][HealthKept]_vars /\ [][NoRisk]_vars => [][Kept]_vars
  BY <1>1, PTL
<1>4. QED
  BY <1>2, <1>3, HealthIsLostByRiskOnly DEF NoRisk

-----------------------------------------------------------------------------
(* Loans.  What a loan is checked with is the average LTV of the collateral  *)
(* and its own worth; what it leaves is judged by the average threshold and  *)
(* the worth of all the debt.                                               *)

\* An LTV is at most its threshold, and a threshold at most 100%.
Ordered(c) == c.ltv <= c.lt /\ c.lt <= PERCENTAGE_FACTOR
RiskOrdered ==
  /\ \A a \in Assets : Ordered(config[a])
  /\ \A c \in Categories \cup {0} : Ordered(categories[c])

\* What no step writes stays in order.
LEMMA SameRiskOrdered ==
  ASSUME RiskOrdered, UNCHANGED <<config, categories>>
  PROVE  RiskOrdered'
  BY DEF RiskOrdered, Ordered

\* The two places where a threshold is set leave room for the bonus under it.
LEMMA RoomForBonus ==
  ASSUME NEW lt \in Nat, NEW bonus \in Nat, bonus > PERCENTAGE_FACTOR,
         PercentMul(lt, bonus) <= PERCENTAGE_FACTOR
  PROVE  lt <= PERCENTAGE_FACTOR
<1>1. PercentMul(lt, bonus) \in Nat /\ PercentMul(lt, bonus) >= lt
  BY PercentMulIsNat, PercentMulAtLeast, PercentageAssumption
<1>2. QED
  BY <1>1, PercentageAssumption

\* No setter of the configurator puts an LTV above its threshold.
LEMMA SettersKeepOrder ==
  ASSUME IndInv, RiskOrdered, RiskParameters \/ Switches \/ CategoryParameters
  PROVE  RiskOrdered'
<1>1. config \in [Assets -> ReserveConfig] /\ categories \in [Categories \cup {0} -> Category]
  BY DEF IndInv, TypeOK
<1>2. ASSUME NEW a \in Assets, NEW c, SetConfig(a, c), Ordered(c)
      PROVE  RiskOrdered'
  BY <1>1, <1>2 DEF SetConfig, RiskOrdered, Ordered
<1>3. ASSUME NEW a \in Assets, NEW c, SetConfig(a, c), c.ltv = config[a].ltv, c.lt = config[a].lt
      PROVE  RiskOrdered'
  <2>1. Ordered(c)
    BY <1>3 DEF RiskOrdered, Ordered
  <2>2. QED
    BY <1>2, <1>3, <2>1
<1>4. ASSUME NEW c \in ReserveConfig, NEW d, NEW v, NEW w, NEW x,
             \/ d = [c EXCEPT !.borrowing = TRUE, !.borrowCap = v, !.stableBorrowing = w]
             \/ d = [c EXCEPT !.borrowing = FALSE]
             \/ d = [c EXCEPT !.ceiling = v]
             \/ d = [c EXCEPT !.borrowCap = v]
             \/ d = [c EXCEPT !.supplyCap = v]
             \/ d = [c EXCEPT !.unbackedCap = v]
             \/ d = [c EXCEPT !.stableBorrowing = v]
             \/ d = [c EXCEPT !.isolationBorrowable = v]
             \/ d = [c EXCEPT !.fee = v]
             \/ d = [c EXCEPT !.frozen = v]
             \/ d = [c EXCEPT !.paused = v]
             \/ d = [c EXCEPT !.category = v]
             \/ d = [c EXCEPT !.active = v]
      PROVE  d.ltv = c.ltv /\ d.lt = c.lt
  BY <1>4 DEF ReserveConfig
<1>5. ASSUME NEW a \in Assets, CollateralParameters(a)
      PROVE  RiskOrdered'
  <2>1. PICK ltv \in Percentages, lt \in Percentages, bonus \in Percentages :
          ConfigureReserveAsCollateral(a, ltv, lt, bonus)
    BY <1>5 DEF CollateralParameters
  <2> DEFINE c == [config[a] EXCEPT !.ltv = ltv, !.lt = lt, !.bonus = bonus]
  <2>2. c.ltv = ltv /\ c.lt = lt
    BY <1>1 DEF ReserveConfig
  <2>3. /\ SetConfig(a, c) /\ ltv <= lt
        /\ lt # 0 => bonus > PERCENTAGE_FACTOR /\ PercentMul(lt, bonus) <= PERCENTAGE_FACTOR
    BY <2>1 DEF ConfigureReserveAsCollateral
  <2> HIDE DEF c
  <2>4. lt <= PERCENTAGE_FACTOR
    BY <2>3, RoomForBonus, ConfigInputsAssumption, PercentageAssumption
  <2>5. QED
    BY <1>2, <2>2, <2>3, <2>4 DEF Ordered
<1>6. ASSUME NEW a \in Assets, LimitParameters(a) \/ FeeParameters(a)
      PROVE  RiskOrdered'
  <2>1. config[a] \in ReserveConfig
    BY <1>1
  <2>2. ASSUME NEW n, NEW on, EnableBorrowingOnReserve(a, n, on)
        PROVE  RiskOrdered'
    BY <1>3, <1>4, <2>1, <2>2 DEF EnableBorrowingOnReserve
  <2>3. ASSUME NEW n, SetDebtCeiling(a, n) \/ SetBorrowCap(a, n) \/ SetSupplyCap(a, n)
        PROVE  RiskOrdered'
    BY <1>3, <1>4, <2>1, <2>3 DEF SetDebtCeiling, SetBorrowCap, SetSupplyCap
  <2>4. ASSUME NEW n, SetUnbackedMintCap(a, n) \/ SetLiquidationProtocolFee(a, n)
        PROVE  RiskOrdered'
    BY <1>3, <1>4, <2>1, <2>4 DEF SetUnbackedMintCap, SetLiquidationProtocolFee
  <2>5. ASSUME NEW on, SetReserveStableRate(a, on) \/ SetBorrowableInIsolation(a, on)
        PROVE  RiskOrdered'
    BY <1>3, <1>4, <2>1, <2>5 DEF SetReserveStableRate, SetBorrowableInIsolation
  <2>6. QED
    BY <1>6, <2>2, <2>3, <2>4, <2>5 DEF LimitParameters, FeeParameters
<1>7. ASSUME NEW a \in Assets,
             \/ ActivateReserve(a) \/ DeactivateReserve(a) \/ DisableBorrowingOnReserve(a)
             \/ \E on \in BOOLEAN : SetReserveFreeze(a, on) \/ SetReservePause(a, on)
             \/ \E c \in Categories \cup {0} : SetAssetEModeCategory(a, c)
      PROVE  RiskOrdered'
  <2>1. config[a] \in ReserveConfig
    BY <1>1
  <2>2. QED
    BY <1>3, <1>4, <1>7, <2>1
       DEF ActivateReserve, DeactivateReserve, DisableBorrowingOnReserve, SetReserveFreeze,
           SetReservePause, SetAssetEModeCategory
<1>8. ASSUME NEW on \in BOOLEAN, SetPoolPause(on)
      PROVE  RiskOrdered'
  <2>1. /\ \A a \in Assets : config'[a] \in {config[a], [config[a] EXCEPT !.paused = on]}
        /\ categories' = categories
    BY <1>8 DEF SetPoolPause
  <2>2. \A a \in Assets : config'[a].ltv = config[a].ltv /\ config'[a].lt = config[a].lt
    BY <1>1, <2>1 DEF ReserveConfig
  <2>3. QED
    BY <2>1, <2>2 DEF RiskOrdered, Ordered
<1>9. ASSUME NEW c \in Categories, NEW ltv \in Percentages, NEW lt \in Percentages,
             NEW bonus \in Percentages, NEW f, SetEModeCategory(c, ltv, lt, bonus, f)
      PROVE  RiskOrdered'
  <2> DEFINE new == [ltv |-> ltv, lt |-> lt, bonus |-> bonus, source |-> f]
  <2>1. /\ ltv <= lt /\ bonus > PERCENTAGE_FACTOR /\ PercentMul(lt, bonus) <= PERCENTAGE_FACTOR
        /\ categories' = [categories EXCEPT ![c] = new] /\ config' = config
    BY <1>9 DEF SetEModeCategory
  <2>2. Ordered(new)
    BY <2>1, RoomForBonus, ConfigInputsAssumption DEF Ordered
  <2> HIDE DEF new
  <2>3. QED
    BY <1>1, <2>1, <2>2 DEF RiskOrdered, Ordered
<1>10. QED
  BY <1>5, <1>6, <1>7, <1>8, <1>9 DEF RiskParameters, Switches, CategoryParameters

\* Nor does any other step.
LEMMA RiskStaysOrdered ==
  ASSUME IndInv, RiskOrdered, [Next]_vars
  PROVE  RiskOrdered'
<1>1. CASE UserNext \/ Interest \/ Market \/ UNCHANGED vars
  <2>1. UNCHANGED <<config, categories>>
    BY <1>1, CallsLeaveValues
       DEF Interest, Accrue, Market, SetPrice, ToggleSentinel, vars, unchangedConfig
  <2>2. QED
    BY <2>1, SameRiskOrdered
<1>2. CASE RiskParameters \/ Switches \/ CategoryParameters
  BY <1>2, SettersKeepOrder
<1>3. ASSUME NEW a \in Assets, InitReserve(a)
      PROVE  RiskOrdered'
  <2>1. /\ config' = [config EXCEPT ![a].active = TRUE, ![a].paused = FALSE, ![a].frozen = FALSE]
        /\ categories' = categories /\ config \in [Assets -> ReserveConfig]
    BY <1>3 DEF InitReserve, IndInv, TypeOK
  <2>2. \A b \in Assets : config'[b].ltv = config[b].ltv /\ config'[b].lt = config[b].lt
    BY <2>1 DEF ReserveConfig
  <2>3. QED
    BY <2>1, <2>2 DEF RiskOrdered, Ordered
<1>4. ASSUME NEW a \in Assets, DropReserve(a)
      PROVE  RiskOrdered'
  <2>1. /\ config' = [config EXCEPT ![a] = NoConfig] /\ categories' = categories
        /\ config \in [Assets -> ReserveConfig]
    BY <1>4 DEF DropReserve, IndInv, TypeOK
  <2>2. Ordered(NoConfig)
    BY PercentageAssumption DEF Ordered, NoConfig
  <2>3. QED
    BY <2>1, <2>2 DEF RiskOrdered, Ordered
<1>5. QED
  BY <1>1, <1>2, <1>3, <1>4 DEF Next, AdminNext, Listing

\* At first everything is zero.
LEMMA RiskOrderedAtFirst == Init => RiskOrdered
  BY PercentageAssumption DEF Init, RiskOrdered, Ordered, NoConfig, NoCategory

\* The percentage at which asset a counts in the average LTV of p.
LtvFor(p, a) == IF InCategory(p, a) THEN categories[p.eMode].ltv ELSE config[a].ltv
LtvWeights(p) ==
  [i \in ListedSlots |-> CollateralValue(p, i) * LtvFor(p, reservesList[i])]

\* The average LTV is at most the average threshold, which is at most 100%.
LEMMA AveragesOrdered ==
  ASSUME IndInv, RiskOrdered, NEW p \in Account
  PROVE  /\ AverageLtv(p) \in Nat
         /\ AverageLtv(p) <= AverageThreshold(p)
         /\ AverageThreshold(p) <= PERCENTAGE_FACTOR
<1> DEFINE slots == CollateralSlots(p)
           own   == [a \in Assets |-> config[a].ltv]
           R     == {i \in slots : own[reservesList[i]] > 0}
           weigh(i) == Weight(p, i, own, categories[p.eMode].ltv)
           weighed  == [i \in R |-> weigh(i)]
           total    == TotalCollateral(p)
           ltvs     == SumFunctionOnSet(LtvWeights(p), R)
           weights  == SumFunctionOnSet(Weights(p), slots)
<1>1. slots \subseteq ListedSlots /\ R \subseteq slots
  BY DEF CollateralSlots
<1>2. IsFiniteSet(slots) /\ IsFiniteSet(R)
  BY <1>1, SlotValues, FS_Subset
<1>3. ASSUME NEW i \in ListedSlots
      PROVE  /\ CollateralValues(p)[i] \in Nat /\ Weights(p)[i] \in Nat
             /\ LtvWeights(p)[i] \in Nat /\ LtvWeights(p)[i] <= Weights(p)[i]
             /\ Weights(p)[i] <= CollateralValues(p)[i] * PERCENTAGE_FACTOR
  <2> DEFINE a == reservesList[i]
             v == CollateralValue(p, i)
             l == LtvFor(p, a)
             t == ThresholdFor(p, a)
  <2>1. a \in Assets /\ t \in Nat /\ v \in Nat /\ Weights(p)[i] \in Nat
    BY <1>3, SlotValues DEF CollateralValues
  <2>2. l \in Nat /\ l <= t /\ t <= PERCENTAGE_FACTOR
    <3>1. categories[p.eMode] \in Category /\ p.eMode \in Categories \cup {0}
          /\ config[a] \in ReserveConfig
      BY <2>1 DEF IndInv, TypeOK, Account
    <3>2. QED
      BY <2>1, <3>1 DEF LtvFor, ThresholdFor, RiskOrdered, Ordered, Category, ReserveConfig
  <2>3. /\ CollateralValues(p)[i] = v /\ Weights(p)[i] = v * t /\ LtvWeights(p)[i] = v * l
    BY <1>3 DEF CollateralValues, Weights, LtvWeights
  <2> HIDE DEF v, l, t
  <2>4. /\ v * l \in Nat /\ l * v <= t * v /\ t * v <= PERCENTAGE_FACTOR * v
        /\ PERCENTAGE_FACTOR * v \in Nat /\ t * v \in Nat
    BY <2>1, <2>2, ProductGrows, PercentageAssumption, SMT
  <2>5. v * l = l * v /\ v * t = t * v /\ v * PERCENTAGE_FACTOR = PERCENTAGE_FACTOR * v
    BY <2>1, <2>2, PercentageAssumption, SMT
  <2>6. QED
    BY <2>1, <2>3, <2>4, <2>5
<1>4. \A i \in R : weighed[i] = LtvWeights(p)[i]
  <2>1. ASSUME NEW i \in R
        PROVE  weigh(i) = LtvWeights(p)[i]
    BY <1>1, <2>1, SlotValues DEF Weight, LtvWeights, LtvFor
  <2>2. QED
    BY <2>1
<1>5. AverageLtv(p) = IF total = 0 THEN 0 ELSE SumFunctionOnSet(weighed, R) \div total
  BY DEF AverageLtv, Average, SumFunction
<1>6. /\ total \in Nat /\ weights \in Nat /\ total = SumFunctionOnSet(CollateralValues(p), slots)
      /\ AverageThreshold(p) = (IF total = 0 THEN 0 ELSE weights \div total)
      /\ AverageThreshold(p) \in Nat
  BY AccountData
<1> HIDE DEF slots, R, weighed, total
<1>7. SumFunctionOnSet(weighed, R) = ltvs
  BY <1>2, <1>4, SumOfEquals
<1>8. ltvs \in Nat /\ ltvs <= weights
  <2>1. /\ SumFunctionOnSet(LtvWeights(p), slots) \in Nat
        /\ ltvs \in Nat
    BY <1>1, <1>2, <1>3, SumIsNat
  <2>2. ltvs <= SumFunctionOnSet(LtvWeights(p), slots)
    BY <1>1, <1>2, <1>3, SumOfSubset
  <2>3. SumFunctionOnSet(LtvWeights(p), slots) <= weights
    BY <1>1, <1>2, <1>3, SumGrows
  <2>4. QED
    BY <1>6, <2>1, <2>2, <2>3
<1>9. weights <= total * PERCENTAGE_FACTOR
  BY <1>1, <1>2, <1>3, <1>6, SumAtMost, PercentageAssumption
<1> HIDE DEF ltvs, weights
<1>10. AverageThreshold(p) <= PERCENTAGE_FACTOR
  BY <1>6, <1>9, AverageAtMost, PercentageAssumption
<1>11. AverageLtv(p) \in Nat /\ AverageLtv(p) <= AverageThreshold(p)
  <2>1. total # 0 => ltvs \div total \in Nat /\ ltvs \div total <= weights \div total
    BY <1>6, <1>8, QuotientIsNat, QuotientGrows
  <2>2. QED
    BY <1>5, <1>6, <1>7, <2>1
<1>12. QED
  BY <1>10, <1>11

\* The same collateral is worth the same.
LEMMA SameCollateralSameWorth ==
  ASSUME IndInv, NEW p \in Account, NEW q \in Account,
         q.eMode = p.eMode, q.collateral = p.collateral, q.aToken = p.aToken
  PROVE  /\ TotalCollateral(q) = TotalCollateral(p)
         /\ AverageThreshold(q) = AverageThreshold(p)
<1> DEFINE S == CollateralSlots(p)
<1>1. S \subseteq ListedSlots /\ CollateralSlots(q) = S
  BY DEF CollateralSlots
<1>2. IsFiniteSet(S)
  BY <1>1, SlotValues, FS_Subset
<1>3. \A i \in S : /\ CollateralValues(q)[i] = CollateralValues(p)[i]
                   /\ Weights(q)[i] = Weights(p)[i]
  BY <1>1, SameDebtsSameWorth
<1> HIDE DEF S
<1>4. /\ SumFunctionOnSet(CollateralValues(q), S) = SumFunctionOnSet(CollateralValues(p), S)
      /\ SumFunctionOnSet(Weights(q), S) = SumFunctionOnSet(Weights(p), S)
  BY <1>2, <1>3, SumOfEquals
<1>5. QED
  BY <1>1, <1>4, AccountData DEF S

\* What m of asset a is worth in the debt of p.
Worth(p, a, m) == (PriceFor(p, a) * m) \div TOKEN_UNIT

\* A loan raises the debt by what the whole debt in its asset is worth more.
LEMMA LoanIsAdded ==
  ASSUME IndInv, FlagsListed, NEW x \in Accounts, NEW a \in Assets, reserve[a].listed,
         NEW q \in Account, q.eMode = account[x].eMode,
         q.borrowing = account[x].borrowing \cup {Id(a)},
         \A b \in Assets : b # a => DebtOf(q, b) = DebtOf(account[x], b)
  PROVE  TotalDebt(q) = TotalDebt(account[x])
                          + (Worth(q, a, DebtOf(q, a))
                              - Worth(account[x], a, DebtOf(account[x], a)))
<1> DEFINE p == account[x]
           i == Id(a)
           S == q.borrowing \cap ListedSlots
           R == p.borrowing \cap ListedSlots
<1>1. p \in Account
  BY AccountsAreTyped
<1>2. i \in ListedSlots /\ reservesList[i] = a
  BY AddressesAssumption DEF IndInv, ListedAtOwnId, ListedSlots
<1>3. \A j \in S : reservesList[j] = a => j = i
  <2>1. ASSUME NEW j \in p.borrowing, reservesList[j] = a
        PROVE  j = i
    <3>1. PICK b \in Assets : reserve[b].listed /\ Id(b) = j
      BY <2>1 DEF FlagsListed
    <3>2. reservesList[j] = b
      BY <3>1 DEF IndInv, ListedAtOwnId
    <3>3. QED
      BY <2>1, <3>1, <3>2
  <2>2. QED
    BY <2>1
<1>4. i \in S /\ S = R \cup {i} /\ S \subseteq ListedSlots
  BY <1>2
<1>5. IsFiniteSet(S) /\ R \subseteq S
  BY <1>1, <1>4, SlotValues, FS_Subset
<1>6. \A j \in S : /\ DebtValues(p)[j] \in Nat /\ DebtValues(q)[j] \in Nat
                   /\ reservesList[j] \in Assets
  BY <1>1, <1>4, SlotValues
<1>7. /\ TotalDebt(q) = SumFunctionOnSet(DebtValues(q), S)
      /\ TotalDebt(p) = SumFunctionOnSet(DebtValues(p), R)
  BY <1>1, AccountData
<1>8. /\ DebtValues(q)[i] = Worth(q, a, DebtOf(q, a))
      /\ DebtValues(p)[i] = Worth(p, a, DebtOf(p, a))
  BY <1>2 DEF DebtValues, DebtValue, Worth
<1>9. \A j \in S : j # i => DebtValues(q)[j] = DebtValues(p)[j]
  <2>1. ASSUME NEW j \in S, j # i
        PROVE  DebtValues(q)[j] = DebtValues(p)[j]
    <3>1. reservesList[j] \in Assets /\ reservesList[j] # a /\ j \in ListedSlots
      BY <1>3, <1>4, <1>6, <2>1
    <3>2. DebtValue(q, j) = DebtValue(p, j)
      BY <3>1 DEF DebtValue, PriceFor, InCategory
    <3>3. QED
      BY <3>1, <3>2 DEF DebtValues
  <2>2. QED
    BY <2>1
<1>10. \A j \in S \ R : DebtValues(p)[j] = 0
  <2>1. SUFFICES ASSUME i \notin p.borrowing
                 PROVE  DebtValues(p)[i] = 0
    BY <1>4
  <2>2. DebtOf(p, a) = 0
    <3>1. DebtOf(p, a) \in Nat
      BY <1>1 DEF Account, DebtOf
    <3>2. DebtsFlagged(p)
      BY DEF IndInv, DebtIsFlagged
    <3>3. QED
      BY <2>1, <3>1, <3>2 DEF DebtsFlagged
  <2>3. PriceFor(p, a) \in Nat
    BY <1>1, <1>2, SlotValues
  <2>4. PriceFor(p, a) * 0 = 0 /\ 0 \div TOKEN_UNIT = 0
    BY <2>3, UnitsAssumption, SMT
  <2>5. QED
    BY <1>8, <2>2, <2>4 DEF Worth
<1> HIDE DEF p, i, S, R
<1>11. SumFunctionOnSet(DebtValues(p), R) = SumFunctionOnSet(DebtValues(p), S)
  BY <1>5, <1>6, <1>10, SumOfSubset
<1>12. SumFunctionOnSet(DebtValues(q), S)
         = SumFunctionOnSet(DebtValues(p), S) + (DebtValues(q)[i] - DebtValues(p)[i])
  BY <1>4, <1>5, <1>6, <1>9, SumWithOneChanged
<1>13. QED
  BY <1>7, <1>8, <1>11, <1>12 DEF p

\* The position after a loan.
LEMMA LoanedPosition ==
  ASSUME IndInv, NEW x \in Accounts, NEW a \in Assets, reserve[a].listed,
         NEW n \in Nat, NEW mode \in Modes
  PROVE  LET p == account[x]
             q == BorrowFor(p, a, n, mode)
         IN /\ q \in Account /\ q.eMode = p.eMode
            /\ q.collateral = p.collateral /\ q.aToken = p.aToken
            /\ q.borrowing = p.borrowing \cup {Id(a)}
            /\ \A b \in Assets : DebtOf(q, b) = DebtOf(p, b) + Only(a, b, n)
            /\ \A b \in Assets : b # a => DebtOf(q, b) = DebtOf(p, b)
<1> DEFINE p == account[x]
           q == BorrowFor(p, a, n, mode)
<1>1. p \in Account /\ DebtsFlagged(p)
  BY DEF IndInv, TypeOK, DebtIsFlagged
<1>2. Moves(p, q, a, 0, n)
  BY <1>1, BorrowForMoves, ListedIds DEF IndInv
<1>3. \A b \in Assets : b # a => DebtOf(q, b) = DebtOf(p, b)
  <2>1. ASSUME NEW b \in Assets, b # a
        PROVE  DebtOf(q, b) = DebtOf(p, b)
    BY <1>1, <1>2, <2>1 DEF Moves, Only, DebtOf, Account
  <2>2. QED
    BY <2>1
<1>4. p[mode][a] # 0 => Id(a) \in p.borrowing
  <2>1. p.stable[a] \in Nat /\ p.variable[a] \in Nat
    BY <1>1 DEF Account
  <2>2. p[mode][a] # 0 => DebtOf(p, a) > 0
    BY <2>1 DEF DebtOf, Modes
  <2>3. QED
    BY <1>1, <2>2 DEF DebtsFlagged
<1>5. /\ q.eMode = p.eMode /\ q.collateral = p.collateral /\ q.aToken = p.aToken
      /\ q.borrowing = IF p[mode][a] = 0 THEN p.borrowing \cup {Id(a)} ELSE p.borrowing
  BY <1>1 DEF BorrowFor, MintDebt, SetBorrowing, Account
<1>6. q.borrowing = p.borrowing \cup {Id(a)}
  BY <1>4, <1>5
<1>7. QED
  BY <1>2, <1>3, <1>5, <1>6 DEF Moves

\* A loan is valued like the debt that it becomes, unless the feed of the user's
\* category is silent, and then the loan counts for nothing.
FeedIsSilent(p) ==
  LET source == categories[p.eMode].source
  IN p.eMode # 0 /\ source # None /\ price[source] = 0

\* The debt of p in asset a is worth a fraction of a unit of account.
WorthFraction(p, a) == (PriceFor(p, a) * DebtOf(p, a)) % TOKEN_UNIT # 0

\* Between the average LTV and the average threshold there is not even one unit.
Tight(p) ==
  (AverageThreshold(p) - AverageLtv(p)) * TotalCollateral(p) < PERCENTAGE_FACTOR

\* A loan of asset a that its checks do not judge as the health factor does.
Misjudged(p, a) ==
  AverageLtv(p) = 0 \/ FeedIsSilent(p) \/ (Tight(p) /\ WorthFraction(p, a))

\* What a loan is checked with is what it adds to the debt, up to one unit.
LEMMA LoanIsJudged ==
  ASSUME IndInv, FlagsListed, NEW u \in Users, NEW a \in Assets, NEW n \in Amounts,
         NEW mode \in Modes, Borrow(u, a, n, mode), ~FeedIsSilent(account[u])
  PROVE  LET p    == account[u]
             q    == BorrowFor(p, a, n, mode)
             loan == (BorrowPrice(p, a) * n) \div TOKEN_UNIT
         IN /\ loan \in Nat
            /\ TotalDebt(q) <= TotalDebt(p) + loan + 1
            /\ ~WorthFraction(p, a) => TotalDebt(q) <= TotalDebt(p) + loan
<1> DEFINE p    == account[u]
           q    == BorrowFor(p, a, n, mode)
           P    == PriceFor(p, a)
           d    == DebtOf(p, a)
           loan == (BorrowPrice(p, a) * n) \div TOKEN_UNIT
           old  == P * d
           new  == P * n
<1>1. /\ u \in Accounts /\ p \in Account /\ n \in Nat /\ reserve[a].listed
      /\ p.eMode # 0 => config[a].category = p.eMode
  BY AccountsAreTyped, InputsAssumption DEF Borrow, ValidateBorrow, Active
<1>2. /\ q \in Account /\ q.eMode = p.eMode
      /\ q.borrowing = p.borrowing \cup {Id(a)}
      /\ DebtOf(q, a) = d + Only(a, a, n)
      /\ \A b \in Assets : b # a => DebtOf(q, b) = DebtOf(p, b)
  BY <1>1, LoanedPosition
<1>3. DebtOf(q, a) = d + n /\ d \in Nat
  BY <1>1, <1>2 DEF Only, DebtOf, Account
<1>4. P \in Nat /\ PriceFor(q, a) = P
  <2>1. Id(a) \in ListedSlots /\ reservesList[Id(a)] = a
    BY <1>1, AddressesAssumption DEF IndInv, ListedAtOwnId, ListedSlots
  <2>2. P \in Nat
    BY <1>1, <2>1, SlotValues
  <2>3. QED
    BY <1>2, <2>2 DEF PriceFor, InCategory
<1>5. BorrowPrice(p, a) = P
  <2>1. categories[p.eMode] \in Category /\ price \in [Assets \cup Feeds -> Nat]
    BY <1>1 DEF IndInv, TypeOK, Account
  <2>2. \A f \in Feeds : price[f] # 0 => price[f] > 0
    BY <2>1
  <2>3. QED
    BY <1>1, <2>1, <2>2 DEF BorrowPrice, PriceFor, InCategory, FeedIsSilent, Category
<1>6. TotalDebt(q) = TotalDebt(p) + (Worth(q, a, DebtOf(q, a)) - Worth(p, a, d))
  <2> HIDE DEF q
  <2>1. QED
    BY <1>1, <1>2, LoanIsAdded
<1>7. TotalDebt(p) \in Nat /\ TotalDebt(q) \in Nat
  BY <1>1, <1>2, AccountData
<1> HIDE DEF p, q, P, d
<1>8. P * (d + n) = old + new /\ old \in Nat /\ new \in Nat
  BY <1>1, <1>3, <1>4, SMT
<1>9. /\ Worth(p, a, d) = old \div TOKEN_UNIT /\ Worth(q, a, DebtOf(q, a)) = (old + new) \div TOKEN_UNIT
      /\ loan = new \div TOKEN_UNIT
  BY <1>3, <1>4, <1>5, <1>8 DEF Worth, P
<1>10. ~WorthFraction(p, a) => old % TOKEN_UNIT = 0
  BY DEF WorthFraction, P, d
<1> HIDE DEF old, new, loan
<1>11. /\ (old + new) \div TOKEN_UNIT <= old \div TOKEN_UNIT + new \div TOKEN_UNIT + 1
       /\ old % TOKEN_UNIT = 0 =>
            (old + new) \div TOKEN_UNIT <= old \div TOKEN_UNIT + new \div TOKEN_UNIT
       /\ old \div TOKEN_UNIT \in Nat /\ new \div TOKEN_UNIT \in Nat
       /\ (old + new) \div TOKEN_UNIT \in Nat
  <2>1. old + new \in Nat /\ TOKEN_UNIT \in Nat \ {0}
    BY <1>8, UnitsAssumption
  <2>2. QED
    BY <1>8, <2>1, QuotientOfSum, QuotientIsNat
<1>12. /\ loan \in Nat
       /\ TotalDebt(q) <= TotalDebt(p) + loan + 1
       /\ ~WorthFraction(p, a) => TotalDebt(q) <= TotalDebt(p) + loan
  BY <1>6, <1>7, <1>9, <1>10, <1>11
<1>13. QED
  BY <1>12 DEF p, q, loan

\* A loan that is not misjudged leaves its borrower healthy.
LEMMA LoanLeavesHealth ==
  ASSUME IndInv, FlagsListed, RiskOrdered, NEW u \in Users, NEW a \in Assets,
         NEW n \in Amounts, NEW mode \in Modes, Borrow(u, a, n, mode),
         ~Misjudged(account[u], a)
  PROVE  Healthy(BorrowFor(account[u], a, n, mode))
<1> DEFINE p    == account[u]
           q    == BorrowFor(p, a, n, mode)
           loan == (BorrowPrice(p, a) * n) \div TOKEN_UNIT
           x    == TotalDebt(p) + loan
           C    == TotalCollateral(p)
           L    == AverageLtv(p)
           T    == AverageThreshold(p)
           m    == PercentMul(C, T)
<1>1. /\ u \in Accounts /\ p \in Account /\ n \in Nat /\ reserve[a].listed
      /\ PercentDiv(x, L) <= C
  BY AccountsAreTyped, InputsAssumption DEF Borrow, ValidateBorrow, Active, CollateralNeeded
<1>2. /\ loan \in Nat
      /\ TotalDebt(q) <= x + 1
      /\ ~WorthFraction(p, a) => TotalDebt(q) <= x
  BY LoanIsJudged DEF Misjudged
<1>3. /\ q \in Account /\ q.eMode = p.eMode
      /\ q.collateral = p.collateral /\ q.aToken = p.aToken
  BY <1>1, LoanedPosition
<1> HIDE DEF q
<1>4. TotalCollateral(q) = C /\ AverageThreshold(q) = T
  BY <1>1, <1>3, SameCollateralSameWorth
<1>5. /\ C \in Nat /\ T \in Nat /\ TotalDebt(p) \in Nat /\ TotalDebt(q) \in Nat
      /\ L \in Nat /\ L <= T /\ T <= PERCENTAGE_FACTOR
  BY <1>1, <1>3, AccountData, AveragesOrdered
<1>6. L # 0 /\ (Tight(p) => ~WorthFraction(p, a))
  BY DEF Misjudged
<1>7. ~Tight(p) => (T - L) * C >= PERCENTAGE_FACTOR
  <2>1. (T - L) * C \in Int /\ PERCENTAGE_FACTOR \in Int
    BY <1>5, PercentageAssumption, SMT
  <2>2. QED
    BY <2>1 DEF Tight
<1> HIDE DEF p, loan, L, T, C
<1>8. x \in Nat /\ L \in 1 .. PERCENTAGE_FACTOR
  BY <1>2, <1>5, <1>6, PercentageAssumption
<1> HIDE DEF x
<1>9. m >= x /\ ((T - L) * C >= PERCENTAGE_FACTOR => m >= x + 1) /\ m \in Nat
  BY <1>1, <1>5, <1>8, LoanIsCovered, PercentMulIsNat
<1> HIDE DEF m
<1>10. TotalDebt(q) <= m
  BY <1>2, <1>5, <1>6, <1>7, <1>8, <1>9
<1>11. TotalDebt(q) # 0 => DivHalfUp(m, TotalDebt(q), WAD) >= WAD
  BY <1>5, <1>9, <1>10, RatioAboveOne, UnitsAssumption
<1>12. Healthy(q)
  BY <1>4, <1>11
     DEF Healthy, HealthAtLeast, HealthFactor, HEALTH_FACTOR_LIQUIDATION_THRESHOLD, m
<1>13. QED
  BY <1>12 DEF q, p

\* Debts are natural numbers.
LEMMA DebtsAreNat ==
  ASSUME IndInv, NEW u \in Users, NEW b \in Assets
  PROVE  DebtOf(account[u], b) \in Nat
<1>1. account[u] \in Account
  BY AccountsAreTyped DEF IndInv, TypeOK
<1>2. QED
  BY <1>1 DEF DebtOf, Account

\* Neither a step that moves no debt nor a payment is a loan.
LEMMA UnowedIsNotLent ==
  ASSUME IndInv, NEW u \in Users,
         NothingOwed \/ \E v \in Users, a \in Assets : \E n \in Nat : Paid(v, a, n)
  PROVE  ~LoanTaken(u)
<1>1. u \in Accounts /\ \A b \in Assets : DebtOf(account[u], b) \in Nat
  BY AccountsAreTyped, DebtsAreNat
<1>2. \A b \in Assets : ~(DebtOf(account'[u], b) > DebtOf(account[u], b))
  BY <1>1 DEF NothingOwed, DebtsStay, Paid, DebtMoves, Only
<1>3. QED
  BY <1>2 DEF LoanTaken

\* Underlying leaves a reserve as a loan of u only when u borrows.
LEMMA LoanIsBorrowed ==
  ASSUME IndInv, [Next]_vars, NEW u \in Users, LoanTaken(u)
  PROVE  \E a \in Assets, n \in Amounts, mode \in Modes :
           Borrow(u, a, n, mode) /\ DebtOf(account'[u], a) > DebtOf(account[u], a)
<1>1. u \in Accounts /\ \A b \in Assets : DebtOf(account[u], b) \in Nat
  BY AccountsAreTyped, DebtsAreNat
<1>2. ~NothingOwed /\ ~ \E v \in Users, a \in Assets : \E n \in Nat : Paid(v, a, n)
  BY UnowedIsNotLent
<1>3. CASE DebtSide
  <2>1. PICK w \in Users, a \in Assets, mode \in Modes :
          \/ \E n \in Amounts : Borrow(w, a, n, mode)
          \/ \E n \in Amounts \cup {account[w][mode][a]} : Repay(w, a, n, mode)
          \/ \E sender \in Users, n \in Amounts \cup {account[w][mode][a]} :
               RepayWithATokens(sender, w, a, n, mode)
          \/ SwapBorrowRateMode(w, a, mode)
    BY <1>3 DEF DebtSide
  <2>2. PICK n \in Amounts : Borrow(w, a, n, mode)
    BY <1>2, <2>1, RepayIsPaid, RepayWithATokensIsPaid, SwapOwesNothing
  <2>3. n \in Nat \ {0} /\ DebtMoves(account, account', w, a, n)
    BY <2>2, BorrowIsLent DEF Lent
  <2>4. PICK b \in Assets : DebtOf(account'[u], b) > DebtOf(account[u], b)
    BY DEF LoanTaken
  <2>5. u = w /\ b = a
    BY <1>1, <2>3, <2>4 DEF DebtMoves, Only
  <2>6. QED
    BY <2>2, <2>4, <2>5
<1>4. CASE Interest
  <2>1. liquidity' = liquidity /\ liquidity \in [Assets -> Nat]
    BY <1>4 DEF Interest, Accrue, IndInv, TypeOK
  <2>2. QED
    BY <2>1 DEF LoanTaken
<1>5. CASE SupplySide
  BY <1>2, <1>5, SupplySideOwesNothing
<1>6. CASE Liquidations
  BY <1>2, <1>6, LiquidationIsPaid DEF Liquidations
<1>7. CASE UnbackedMints \/ Backing
  BY <1>2, <1>7, BridgesOweNothing
<1>8. CASE EfficiencyMode
  BY <1>2, <1>8, ModeOwesNothing
<1>9. CASE Market \/ AdminNext \/ UNCHANGED vars
  BY <1>2, <1>9, OthersOweNothing
<1>10. QED
  BY <1>3, <1>4, <1>5, <1>6, <1>7, <1>8, <1>9 DEF Next, UserNext

\* u takes a loan that its checks do not judge as the health factor does.
MisjudgedLoan(u) ==
  \E a \in Assets :
    DebtOf(account'[u], a) > DebtOf(account[u], a) /\ Misjudged(account[u], a)

\* Every loan leaves its borrower healthy, or was misjudged.
LoansJudged ==
  \A u \in Users : LoanTaken(u) => Healthy(account[u])' \/ MisjudgedLoan(u)

\* Together: a loan leaves health, or it was misjudged.
LEMMA LoansAreJudged ==
  ASSUME IndInv, FlagsListed, RiskOrdered, [Next]_vars
  PROVE  LoansJudged
<1> SUFFICES ASSUME NEW u \in Users, LoanTaken(u), ~MisjudgedLoan(u)
             PROVE  Healthy(account[u])'
  BY DEF LoansJudged
<1>1. PICK a \in Assets, n \in Amounts, mode \in Modes :
        Borrow(u, a, n, mode) /\ DebtOf(account'[u], a) > DebtOf(account[u], a)
  BY LoanIsBorrowed
<1>2. ~Misjudged(account[u], a)
  BY <1>1 DEF MisjudgedLoan
<1>3. Healthy(BorrowFor(account[u], a, n, mode))
  BY <1>1, <1>2, LoanLeavesHealth
<1>4. account'[u] = BorrowFor(account[u], a, n, mode) /\ unchangedConfig /\ unchangedMarket
  BY <1>1, AccountsAreTyped DEF Borrow
<1>5. QED
  BY <1>3, <1>4, HealthOfAPosition

\* validateBorrow compares the collateral with the loan at the average LTV, and leaves
\* the borrower healthy at the average threshold through every truncation on the way,
\* whatever the configuration, the prices and his other debts, but in three cases that
\* are named: the average LTV is zero, where the division is by zero; the feed of his
\* category has no price, so that the loan counts for nothing; or LTV and threshold lie
\* less than a unit of account apart and his debt in the asset was truncated.
THEOREM LoansAreHealthyButForThree ==
  Spec /\ [][DropsUnflagged]_vars => [][LoansJudged]_vars
<1>1. Init => FlagsListed
  BY DEF Init, NoPosition, FlagsListed
<1>2. IndInv /\ FlagsListed /\ [Next]_vars /\ [DropsUnflagged]_vars => FlagsListed'
  <2>1. ASSUME FlagsListed, UNCHANGED vars
        PROVE  FlagsListed'
    BY <2>1 DEF vars, FlagsListed, Id
  <2>2. QED
    BY <2>1, FlagsStayListed
<1>3. IndInv /\ RiskOrdered /\ [Next]_vars => RiskOrdered'
  BY RiskStaysOrdered
<1>4. IndInv /\ FlagsListed /\ RiskOrdered /\ [Next]_vars => [LoansJudged]_vars
  BY LoansAreJudged
<1>5. QED
  BY <1>1, <1>2, <1>3, <1>4, RiskOrderedAtFirst, Invariance, PTL DEF Spec

\* While no loan is misjudged, no loan leaves its borrower open to liquidation.
COROLLARY JudgedLoansAreHealthy ==
  Spec /\ [][DropsUnflagged]_vars /\ [][\A u \in Users : ~MisjudgedLoan(u)]_vars => LoanIsHealthy
<1> DEFINE Judged  == \A u \in Users : ~MisjudgedLoan(u)
           Healthily == \A u \in Users : LoanTaken(u) => Healthy(account[u])'
<1>1. [LoansJudged]_vars /\ [Judged]_vars => [Healthily]_vars
  BY DEF LoansJudged
<1>2. LoanIsHealthy <=> [][Healthily]_vars
  BY DEF LoanIsHealthy
<1> HIDE DEF Judged, Healthily
<1>3. [][LoansJudged]_vars /\ [][Judged]_vars => [][Healthily]_vars
  BY <1>1, PTL
<1>4. QED
  BY <1>2, <1>3, LoansAreHealthyButForThree DEF Judged

\* The debt that the average LTV of p allows, the largest that needs no more collateral
\* than there is: one unit more if the debt in the asset of the loan was truncated.
LtvAllows(p, a) ==
  LET c == TotalCollateral(p)
      l == AverageLtv(p)
  IN ((c + 1) * l - l \div 2 - 1) \div PERCENTAGE_FACTOR
       + (IF WorthFraction(p, a) THEN 1 ELSE 0)

\* A loan leaves no more debt than the LTV of the collateral allows.
LEMMA LoanStaysWithinLtv ==
  ASSUME IndInv, FlagsListed, RiskOrdered, NEW u \in Users, NEW a \in Assets,
         NEW n \in Amounts, NEW mode \in Modes, Borrow(u, a, n, mode),
         AverageLtv(account[u]) # 0, ~FeedIsSilent(account[u])
  PROVE  LET p == account[u]
             q == BorrowFor(p, a, n, mode)
         IN /\ q \in Account
            /\ TotalCollateral(q) = TotalCollateral(p)
            /\ LtvAllows(p, a) \in Nat
            /\ TotalDebt(q) <= LtvAllows(p, a)
<1> DEFINE p    == account[u]
           q    == BorrowFor(p, a, n, mode)
           loan == (BorrowPrice(p, a) * n) \div TOKEN_UNIT
           x    == TotalDebt(p) + loan
           C    == TotalCollateral(p)
           L    == AverageLtv(p)
           m    == ((C + 1) * L - L \div 2 - 1) \div PERCENTAGE_FACTOR
<1>1. /\ u \in Accounts /\ p \in Account /\ n \in Nat /\ reserve[a].listed
      /\ PercentDiv(x, L) <= C
  BY AccountsAreTyped, InputsAssumption DEF Borrow, ValidateBorrow, Active, CollateralNeeded
<1>2. /\ loan \in Nat /\ TotalDebt(q) <= x + 1
      /\ ~WorthFraction(p, a) => TotalDebt(q) <= x
  BY LoanIsJudged
<1>3. /\ q \in Account /\ q.eMode = p.eMode
      /\ q.collateral = p.collateral /\ q.aToken = p.aToken
  BY <1>1, LoanedPosition
<1> HIDE DEF q
<1>4. TotalCollateral(q) = C
  BY <1>1, <1>3, SameCollateralSameWorth
<1>5. /\ C \in Nat /\ TotalDebt(p) \in Nat /\ TotalDebt(q) \in Nat
      /\ L \in Nat /\ L <= AverageThreshold(p) /\ AverageThreshold(p) \in Nat
      /\ AverageThreshold(p) <= PERCENTAGE_FACTOR
  BY <1>1, <1>3, AccountData, AveragesOrdered
<1> HIDE DEF loan, L, C
<1>6. x \in Nat /\ L \in 1 .. PERCENTAGE_FACTOR
  <2>1. L # 0
    BY DEF L
  <2>2. QED
    BY <1>2, <1>5, <2>1, PercentageAssumption
<1> HIDE DEF x
<1>7. x <= m /\ m \in Nat
  BY <1>1, <1>5, <1>6, LoanIsWithin
<1> HIDE DEF m
<1>8. LET f == IF WorthFraction(p, a) THEN 1 ELSE 0
      IN m + f \in Nat /\ TotalDebt(q) <= m + f
  BY <1>2, <1>5, <1>6, <1>7
<1>9. QED
  BY <1>3, <1>4, <1>8 DEF p, q, C, L, m, LtvAllows

\* A call that leaves configuration and prices alone values a position by itself.
LEMMA WorthOfAPosition ==
  ASSUME NEW u \in Users, unchangedConfig, unchangedMarket
  PROVE  /\ TotalCollateral(account[u])' = TotalCollateral(account'[u])
         /\ TotalDebt(account[u])' = TotalDebt(account'[u])
  BY DEF unchangedConfig, unchangedMarket, TotalDebt, TotalCollateral,
    CollateralSlots, ListedSlots, CollateralValue, DebtValue, PriceFor, InCategory, DebtOf

\* A loan of asset a to p that the LTV does not bound, or bounds at more than the
\* collateral pays for at the bonus of one of its assets.
Oversized(p, a) ==
  \/ AverageLtv(p) = 0 \/ FeedIsSilent(p)
  \/ \E c \in Assets :
       /\ UsesAsCollateral(p, c)
       /\ TotalCollateral(p) < PercentMul(LtvAllows(p, a), LiquidationBonus(p, c))

\* The collateral of u, after a loan, pays for his debt at the bonus of each asset of it.
CoversBonus(u) ==
  \A c \in Assets : UsesAsCollateral(account[u], c) =>
    TotalCollateral(account[u])' >=
      PercentMul(TotalDebt(account[u])', LiquidationBonus(account[u], c))

\* u borrows an asset of which a loan is oversized.
OversizedLoan(u) ==
  \E a \in Assets :
    DebtOf(account'[u], a) > DebtOf(account[u], a) /\ Oversized(account[u], a)

\* Of each loan: the bonus is covered, or the loan is oversized.
LoansSized == \A u \in Users : LoanTaken(u) => CoversBonus(u) \/ OversizedLoan(u)

\* The bonus of the debt that the LTV allows is no less than that of the debt there is.
LEMMA LoansAreSized ==
  ASSUME IndInv, FlagsListed, RiskOrdered, [Next]_vars
  PROVE  LoansSized
<1> SUFFICES ASSUME NEW u \in Users, LoanTaken(u), ~OversizedLoan(u),
                    NEW c \in Assets, UsesAsCollateral(account[u], c)
             PROVE  TotalCollateral(account[u])' >=
                      PercentMul(TotalDebt(account[u])', LiquidationBonus(account[u], c))
  BY DEF LoansSized, CoversBonus
<1>1. PICK a \in Assets, n \in Amounts, mode \in Modes :
        Borrow(u, a, n, mode) /\ DebtOf(account'[u], a) > DebtOf(account[u], a)
  BY LoanIsBorrowed
<1> DEFINE p == account[u]
           b == LiquidationBonus(p, c)
           C == TotalCollateral(p)
           m == LtvAllows(p, a)
           q == BorrowFor(p, a, n, mode)
           d == TotalDebt(q)
<1>2. /\ AverageLtv(p) # 0 /\ ~FeedIsSilent(p)
      /\ ~(C < PercentMul(m, b))
  BY <1>1 DEF OversizedLoan, Oversized
<1>3. q \in Account /\ TotalCollateral(q) = C /\ m \in Nat /\ d <= m
  BY <1>1, <1>2, LoanStaysWithinLtv
<1>4. account'[u] = q /\ unchangedConfig /\ unchangedMarket
  BY <1>1, AccountsAreTyped DEF Borrow
<1>5. TotalCollateral(account[u])' = TotalCollateral(q) /\ TotalDebt(account[u])' = d
  BY <1>4, WorthOfAPosition
<1>6. p \in Account /\ b \in Nat
  <2>1. p \in Account
    BY AccountsAreTyped
  <2>2. categories[p.eMode] \in Category /\ config[c] \in ReserveConfig
    BY <2>1 DEF IndInv, TypeOK, Account
  <2>3. QED
    BY <2>1, <2>2 DEF LiquidationBonus, Category, ReserveConfig
<1>7. C \in Nat /\ m \in Nat /\ d \in Nat
  BY <1>3, <1>6, AccountData
<1> HIDE DEF p, q, b, C, m, d
<1>8. PercentMul(d, b) <= PercentMul(m, b) /\ PercentMul(d, b) \in Nat /\ PercentMul(m, b) \in Nat
  BY <1>3, <1>6, <1>7, MulHalfUpGrows, PercentMulIsNat, PercentageAssumption DEF PercentMul
<1>9. C >= PercentMul(d, b)
  BY <1>2, <1>7, <1>8
<1>10. QED
  BY <1>3, <1>5, <1>9 DEF p, b

\* validateBorrow looks at the LTV and never at the bonus.  A loan leaves no more debt
\* than the average LTV allows, through every truncation on the way, so the collateral
\* pays for the debt at a bonus unless that much debt at the bonus is more than it:
\* configureReserveAsCollateral and setEModeCategory require threshold times bonus to be
\* at most 100% of each reserve and category, which says nothing of an average LTV with
\* the bonus of another reserve.
THEOREM LoansCoverBonusWithinLtv ==
  Spec /\ [][DropsUnflagged]_vars => [][LoansSized]_vars
<1>1. Init => FlagsListed
  BY DEF Init, NoPosition, FlagsListed
<1>2. IndInv /\ FlagsListed /\ [Next]_vars /\ [DropsUnflagged]_vars => FlagsListed'
  <2>1. ASSUME FlagsListed, UNCHANGED vars
        PROVE  FlagsListed'
    BY <2>1 DEF vars, FlagsListed, Id
  <2>2. QED
    BY <2>1, FlagsStayListed
<1>3. IndInv /\ RiskOrdered /\ [Next]_vars => RiskOrdered'
  BY RiskStaysOrdered
<1>4. IndInv /\ FlagsListed /\ RiskOrdered /\ [Next]_vars => [LoansSized]_vars
  BY LoansAreSized
<1>5. QED
  BY <1>1, <1>2, <1>3, <1>4, RiskOrderedAtFirst, Invariance, PTL DEF Spec

\* While no loan is oversized, no loan leaves a debt that its collateral could not pay
\* for at the bonus a liquidator is owed.
COROLLARY SizedLoansCoverBonus ==
  Spec /\ [][DropsUnflagged]_vars /\ [][\A u \in Users : ~OversizedLoan(u)]_vars => LoanCoversBonus
<1> DEFINE Sized     == \A u \in Users : ~OversizedLoan(u)
           BonusPaid == \A u \in Users : LoanTaken(u) => CoversBonus(u)
<1>1. [LoansSized]_vars /\ [Sized]_vars => [BonusPaid]_vars
  BY DEF LoansSized
<1>2. LoanCoversBonus <=> [][BonusPaid]_vars
  BY DEF LoanCoversBonus, CoversBonus
<1> HIDE DEF Sized, BonusPaid
<1>3. [][LoansSized]_vars /\ [][Sized]_vars => [][BonusPaid]_vars
  BY <1>1, PTL
<1>4. QED
  BY <1>2, <1>3, LoansCoverBonusWithinLtv DEF Sized

-----------------------------------------------------------------------------
(* What a liquidation leaves.                                               *)

\* q is p without k aTokens of c and without n of its debt in d; flags may have gone,
\* that of c as a collateral only when no aTokens are left.
SettledFrom(p, q, c, k, d, n) ==
  /\ q \in Account /\ q.eMode = p.eMode
  /\ q.borrowing \subseteq p.borrowing /\ q.collateral \subseteq p.collateral
  /\ \A i \in p.collateral \ q.collateral : i = Id(c) /\ q.aToken[c] = 0
  /\ \A b \in Assets : /\ q.aToken[b] = p.aToken[b] - Only(c, b, k)
                       /\ DebtOf(q, b) = DebtOf(p, b) - Only(d, b, n)

\* aTokens that go take with them what they are worth, and up to one unit more.
LEMMA CollateralTaken ==
  ASSUME IndInv, FlagsListed, NEW x \in Accounts, NEW c \in Assets, reserve[c].listed,
         NEW d \in Assets, NEW k \in Nat, NEW n \in Nat,
         NEW q, SettledFrom(account[x], q, c, k, d, n)
  PROVE  /\ TotalCollateral(account[x]) <=
              TotalCollateral(q) + ((PriceFor(account[x], c) * k) \div TOKEN_UNIT + 1)
         /\ config[c].lt = 0 => TotalCollateral(q) = TotalCollateral(account[x])
<1> DEFINE p == account[x]
           P == PriceFor(p, c)
           i == Id(c)
           S == CollateralSlots(p)
           R == CollateralSlots(q)
           f == CollateralValues(p)
           g == CollateralValues(q)
           t == (P * k) \div TOKEN_UNIT
<1>1. p \in Account /\ q \in Account /\ q.eMode = p.eMode
  BY AccountsAreTyped DEF SettledFrom
<1>2. R \subseteq S /\ S \subseteq ListedSlots /\ S \subseteq p.collateral
  BY DEF SettledFrom, CollateralSlots
<1>3. IsFiniteSet(S)
  BY <1>1, <1>2, SlotValues, FS_Subset
<1>4. \A j \in S : f[j] \in Nat /\ g[j] \in Nat /\ reservesList[j] \in Assets
  BY <1>1, <1>2, SlotValues
<1>5. reservesList[i] = c /\ \A j \in S : reservesList[j] = c => j = i
  BY <1>2, OwnSlots
<1>6. i \in ListedSlots /\ P \in Nat /\ PriceFor(q, c) = P
  <2>1. i \in ListedSlots
    BY AddressesAssumption DEF IndInv, ListedAtOwnId, ListedSlots
  <2>2. P \in Nat
    BY <1>1, <1>5, <2>1, SlotValues
  <2>3. QED
    BY <1>1, <2>1, <2>2 DEF PriceFor, InCategory
<1>7. /\ q.aToken[c] \in Nat /\ p.aToken[c] \in Nat /\ p.aToken[c] = q.aToken[c] + k
  BY <1>1 DEF SettledFrom, Only, Account
<1>8. \A j \in S : j # i => g[j] = f[j]
  <2>1. ASSUME NEW j \in S, j # i
        PROVE  g[j] = f[j]
    <3> DEFINE a == reservesList[j]
    <3>1. a \in Assets /\ a # c /\ j \in ListedSlots
      BY <1>2, <1>4, <1>5, <2>1
    <3>2. p.aToken[a] \in Nat
      BY <1>1, <3>1 DEF Account
    <3>3. q.aToken[a] = p.aToken[a]
      BY <3>1, <3>2 DEF SettledFrom, Only
    <3>4. QED
      BY <1>1, <3>1, <3>3, SameDebtsSameWorth
  <2>2. QED
    BY <2>1
<1>9. \A j \in S \ R : g[j] = 0
  <2>1. SUFFICES ASSUME NEW j \in S \ R
                 PROVE  g[j] = 0
    OBVIOUS
  <2>2. j = i /\ q.aToken[c] = 0
    BY <1>2, <2>1 DEF SettledFrom, CollateralSlots
  <2>3. g[i] = (P * 0) \div TOKEN_UNIT
    BY <1>5, <1>6, <2>2 DEF CollateralValues, CollateralValue
  <2>4. P * 0 = 0 /\ 0 \div TOKEN_UNIT = 0
    BY <1>6, UnitsAssumption, SMT
  <2>5. QED
    BY <2>2, <2>3, <2>4
<1>10. /\ f[i] = (P * p.aToken[c]) \div TOKEN_UNIT
       /\ g[i] = (P * q.aToken[c]) \div TOKEN_UNIT
  BY <1>5, <1>6 DEF CollateralValues, CollateralValue
<1>11. /\ TotalCollateral(p) = SumFunctionOnSet(f, S) /\ TotalCollateral(p) \in Nat
       /\ TotalCollateral(q) = SumFunctionOnSet(g, R) /\ TotalCollateral(q) \in Nat
  BY <1>1, AccountData
<1>12. /\ i \in S => f[i] \in Nat /\ g[i] \in Nat
       /\ config[c].lt = 0 => i \notin S
  BY <1>4, <1>5 DEF CollateralSlots
<1> HIDE DEF p, P, i, S, R, f, g
<1>13. SumFunctionOnSet(g, R) = SumFunctionOnSet(g, S)
  BY <1>2, <1>3, <1>4, <1>9, SumOfSubset
<1>14. t \in Nat
  <2>1. P * k \in Nat
    BY <1>6, SMT
  <2>2. QED
    BY <2>1, QuotientIsNat, UnitsAssumption
<1>15. f[i] <= g[i] + t + 1
  <2> DEFINE y == P * q.aToken[c]
             z == P * k
  <2>1. y \in Nat /\ z \in Nat /\ P * p.aToken[c] = y + z
    BY <1>6, <1>7, SMT
  <2>2. f[i] = (y + z) \div TOKEN_UNIT /\ g[i] = y \div TOKEN_UNIT /\ t = z \div TOKEN_UNIT
    BY <1>10, <2>1
  <2> HIDE DEF y, z, t
  <2>3. (y + z) \div TOKEN_UNIT <= y \div TOKEN_UNIT + z \div TOKEN_UNIT + 1
    BY <2>1, QuotientOfSum, UnitsAssumption
  <2>4. QED
    BY <2>2, <2>3
<1> HIDE DEF t
<1>16. CASE i \in S
  <2>1. SumFunctionOnSet(g, S) = SumFunctionOnSet(f, S) + (g[i] - f[i])
    BY <1>3, <1>4, <1>8, <1>16, SumWithOneChanged
  <2>2. QED
    BY <1>11, <1>12, <1>13, <1>14, <1>15, <1>16, <2>1 DEF p, P, t
<1>17. CASE i \notin S
  <2>1. \A j \in S : f[j] = g[j]
    BY <1>8, <1>17
  <2>2. SumFunctionOnSet(f, S) = SumFunctionOnSet(g, S)
    BY <1>3, <2>1, SumOfEquals
  <2>3. QED
    BY <1>11, <1>13, <1>14, <2>2 DEF p, P, t
<1>18. QED
  BY <1>16, <1>17

\* A payment takes from the debt at least what it is worth.
LEMMA DebtTaken ==
  ASSUME IndInv, FlagsListed, NEW x \in Accounts, NEW d \in Assets, reserve[d].listed,
         NEW c \in Assets, NEW k \in Nat, NEW n \in Nat \ {0},
         NEW q, SettledFrom(account[x], q, c, k, d, n)
  PROVE  TotalDebt(q) + (PriceFor(account[x], d) * n) \div TOKEN_UNIT <= TotalDebt(account[x])
<1> DEFINE p == account[x]
           P == PriceFor(p, d)
           i == Id(d)
           S == p.borrowing \cap ListedSlots
           R == q.borrowing \cap ListedSlots
           f == DebtValues(p)
           g == DebtValues(q)
           t == (P * n) \div TOKEN_UNIT
<1>1. p \in Account /\ q \in Account /\ q.eMode = p.eMode
  BY AccountsAreTyped DEF SettledFrom
<1>2. R \subseteq S /\ S \subseteq ListedSlots
  BY DEF SettledFrom
<1>3. IsFiniteSet(S)
  BY <1>1, <1>2, SlotValues, FS_Subset
<1>4. \A j \in S : f[j] \in Nat /\ g[j] \in Nat /\ reservesList[j] \in Assets
  BY <1>1, <1>2, SlotValues
<1>5. i \in ListedSlots /\ reservesList[i] = d
  BY AddressesAssumption DEF IndInv, ListedAtOwnId, ListedSlots
<1>6. \A j \in S : reservesList[j] = d => j = i
  <2>1. ASSUME NEW j \in p.borrowing, reservesList[j] = d
        PROVE  j = i
    <3>1. PICK b \in Assets : reserve[b].listed /\ Id(b) = j
      BY <2>1 DEF FlagsListed
    <3>2. reservesList[j] = b
      BY <3>1 DEF IndInv, ListedAtOwnId
    <3>3. QED
      BY <2>1, <3>1, <3>2
  <2>2. QED
    BY <2>1
<1>7. P \in Nat /\ PriceFor(q, d) = P
  <2>1. P \in Nat
    BY <1>1, <1>5, SlotValues
  <2>2. QED
    BY <1>1, <2>1 DEF PriceFor, InCategory
<1>8. /\ DebtOf(q, d) \in Nat /\ DebtOf(p, d) \in Nat /\ DebtOf(p, d) = DebtOf(q, d) + n
  BY <1>1 DEF SettledFrom, Only, Account, DebtOf
<1>9. i \in S
  <2>1. DebtsFlagged(p)
    BY DEF IndInv, DebtIsFlagged
  <2>2. QED
    BY <1>5, <1>8, <2>1 DEF DebtsFlagged
<1>10. \A j \in S : j # i => g[j] = f[j]
  <2>1. ASSUME NEW j \in S, j # i
        PROVE  g[j] = f[j]
    <3> DEFINE a == reservesList[j]
    <3>1. a \in Assets /\ a # d /\ j \in ListedSlots
      BY <1>2, <1>4, <1>6, <2>1
    <3>2. DebtOf(p, a) \in Nat
      BY <1>1, <3>1 DEF Account, DebtOf
    <3>3. DebtOf(q, a) = DebtOf(p, a)
      BY <3>1, <3>2 DEF SettledFrom, Only
    <3>4. DebtValue(q, j) = DebtValue(p, j)
      BY <1>1, <3>1, <3>3 DEF DebtValue, PriceFor, InCategory
    <3>5. QED
      BY <3>1, <3>4 DEF DebtValues
  <2>2. QED
    BY <2>1
<1>11. /\ f[i] = (P * DebtOf(p, d)) \div TOKEN_UNIT
       /\ g[i] = (P * DebtOf(q, d)) \div TOKEN_UNIT
  BY <1>5, <1>7 DEF DebtValues, DebtValue
<1>12. /\ TotalDebt(p) = SumFunctionOnSet(f, S) /\ TotalDebt(p) \in Nat
       /\ TotalDebt(q) = SumFunctionOnSet(g, R) /\ TotalDebt(q) \in Nat
  BY <1>1, AccountData
<1> DEFINE z == DebtOf(p, d)
           y == DebtOf(q, d)
<1>13. z \in Nat /\ y \in Nat /\ z = y + n
  BY <1>8
<1>14. f[i] = (P * z) \div TOKEN_UNIT /\ g[i] = (P * y) \div TOKEN_UNIT
  BY <1>11
<1> HIDE DEF p, P, i, S, R, f, g, y, z
<1>15. SumFunctionOnSet(g, R) <= SumFunctionOnSet(g, S)
  BY <1>2, <1>3, <1>4, SumOfSubset
<1>16. SumFunctionOnSet(g, S) = SumFunctionOnSet(f, S) + (g[i] - f[i])
  BY <1>3, <1>4, <1>9, <1>10, SumWithOneChanged
<1>17. g[i] + t <= f[i] /\ t \in Nat
  <2> DEFINE v == P * y
             w == P * n
  <2>1. v \in Nat /\ w \in Nat /\ P * z = v + w
    BY <1>7, <1>13, SMT
  <2>2. f[i] = (v + w) \div TOKEN_UNIT /\ g[i] = v \div TOKEN_UNIT /\ t = w \div TOKEN_UNIT
    BY <1>14, <2>1
  <2> HIDE DEF v, w, t
  <2>3. /\ v \div TOKEN_UNIT + w \div TOKEN_UNIT <= (v + w) \div TOKEN_UNIT
        /\ w \div TOKEN_UNIT \in Nat
    BY <2>1, QuotientOfParts, QuotientIsNat, UnitsAssumption
  <2>4. QED
    BY <2>2, <2>3
<1> HIDE DEF t
<1>18. f[i] \in Nat /\ g[i] \in Nat
  BY <1>4, <1>9
<1>19. SumFunctionOnSet(g, S) \in Nat
  BY <1>3, <1>4, SumIsNat
<1>20. TotalDebt(q) + t <= TotalDebt(p)
  BY <1>12, <1>15, <1>16, <1>17, <1>18, <1>19
<1>21. QED
  BY <1>20 DEF t, P, p

\* The bonus of a liquidation is a premium where there is a threshold.
LEMMA BonusAbove ==
  ASSUME IndInv, NEW x \in Accounts, NEW c \in Assets
  PROVE  /\ LiquidationBonus(account[x], c) \in Nat
         /\ config[c].lt > 0 => LiquidationBonus(account[x], c) > PERCENTAGE_FACTOR
<1>1. account[x].eMode \in Categories \cup {0} /\ config[c].lt \in Nat
  BY DEF IndInv, TypeOK, Account, ReserveConfig
<1>2. CASE account[x].eMode = 0
  BY <1>2 DEF LiquidationBonus, IndInv, TypeOK, BonusIsPremium, ReserveConfig
<1>3. CASE account[x].eMode # 0
  BY <1>1, <1>3 DEF LiquidationBonus, IndInv, TypeOK, BonusIsPremium, Category
<1>4. QED
  BY <1>2, <1>3

\* k aTokens of c are worth no more than n of the debt in d with the bonus, but for
\* the roundings on the way.
WithinBonus(p, c, k, d, n) ==
  PERCENTAGE_FACTOR * price[c] * k <= LiquidationBonus(p, c) * (price[d] * (n + 2) + price[c])

\* What a liquidation takes of the collateral.
LEMMA TermsAreWithinBonus ==
  ASSUME IndInv, NEW u \in Accounts, NEW c \in Assets, NEW d \in Assets, NEW n \in Nat,
         PricesAllow(c, d), config[c].lt > 0
  PROVE  LET terms == Terms(account[u], c, d, n)
         IN WithinBonus(account[u], c, terms.seized, d, terms.debt)
<1> DEFINE p     == account[u]
           cover == Least(n, PercentMul(DebtOf(p, d), CloseFactor(p)))
           bonus == LiquidationBonus(p, c)
           q     == [collateralPrice |-> price[c], debtPrice |-> price[d],
                     fee |-> config[c].fee, debtToCover |-> cover,
                     balance |-> p.aToken[c], bonus |-> bonus]
<1>1. CloseFactor(p) \in Nat /\ DebtOf(p, d) \in Nat /\ p.aToken[c] \in Nat
  BY PercentageAssumption, QuotientIsNat, Balances
     DEF CloseFactor, DEFAULT_LIQUIDATION_CLOSE_FACTOR, MAX_LIQUIDATION_CLOSE_FACTOR
<1>2. PercentMul(DebtOf(p, d), CloseFactor(p)) \in Nat
  BY <1>1, PercentMulIsNat
<1>3. cover \in Nat
  BY <1>2 DEF Least
<1>4. bonus \in Nat /\ bonus > PERCENTAGE_FACTOR
  BY BonusAbove
<1>5. /\ price[c] \in Nat \ {0} /\ price[d] \in Nat \ {0}
      /\ config[c].fee \in Nat
  BY DEF PricesAllow, IndInv, TypeOK, ReserveConfig
<1> HIDE DEF p, cover, bonus
<1>6. q \in LiquidationInput /\ q.bonus >= PERCENTAGE_FACTOR
  BY <1>1, <1>3, <1>4, <1>5, PercentageAssumption DEF LiquidationInput
<1>7. Terms(p, c, d, n) = LiquidationTerms(q)
  BY DEF Terms, cover, bonus
<1>8. q.collateralPrice = price[c] /\ q.debtPrice = price[d] /\ q.bonus = LiquidationBonus(p, c)
  BY DEF bonus
<1> HIDE DEF q
<1>9. QED
  BY <1>6, <1>7, <1>8, TermsWithinBonus DEF p, WithinBonus

\* The flags of p are those of q, but for that of c as a collateral if all is taken.
KeepsFlags(p, q, c, all) ==
  /\ q.eMode = p.eMode /\ q.borrowing = p.borrowing
  /\ q.collateral = IF all THEN p.collateral \ {Id(c)} ELSE p.collateral

\* What a liquidation does to the flags of the position.
LEMMA LiquidatedFlags ==
  ASSUME NEW p \in Account, NEW c \in Assets, NEW d \in Assets, NEW all \in BOOLEAN,
         NEW terms, terms.debt \in Int, terms.seized \in Int
  PROVE  KeepsFlags(p, LiquidatedPosition(p, c, d, terms, all), c, all)
<1> DEFINE n == Least(terms.debt, p.variable[d])
           m == terms.debt - n
           q == BurnDebt(p, d, n, "variable")
           r == BurnDebt(q, d, m, "stable")
           s == BurnAToken(r, c, terms.seized)
           t == SetUsingAsCollateral(s, c, FALSE)
           Same(x) == x.eMode = p.eMode /\ x.borrowing = p.borrowing /\ x.collateral = p.collateral
<1>1. p \in Position /\ n \in Int /\ m \in Int
  BY DEF Account, Position, Least, Ids
<1>2. q \in Position /\ Same(q)
  <2> HIDE DEF n
  <2>1. QED
    BY <1>1 DEF Position, BurnDebt
<1> HIDE DEF n, m
<1>3. r \in Position /\ Same(r)
  <2> HIDE DEF q
  <2>1. QED
    BY <1>1, <1>2 DEF Position, BurnDebt
<1>4. r = BurnLiquidated(p, d, terms.debt)
  BY DEF BurnLiquidated, n, m
<1> HIDE DEF q, r
<1>5. s \in Position /\ Same(s)
  BY <1>3 DEF Position, BurnAToken
<1>6. LiquidatedPosition(p, c, d, terms, all) = IF all THEN t ELSE s
  BY <1>4 DEF LiquidatedPosition
<1> HIDE DEF s
<1>7. /\ t.eMode = s.eMode /\ t.borrowing = s.borrowing
      /\ t.collateral = s.collateral \ {Id(c)}
  BY <1>5 DEF Position, SetUsingAsCollateral
<1> HIDE DEF t
<1>8. QED
  BY <1>5, <1>6, <1>7 DEF KeepsFlags

\* A step that takes aTokens of c from u, and debt in d, the one worth the other with
\* the bonus if c has a threshold.
Settlement(u, c, d) ==
  /\ reserve[c].listed /\ reserve[d].listed
  /\ \E k \in Nat, n \in Nat \ {0} :
       /\ SettledFrom(account[u], account'[u], c, k, d, n)
       /\ config[c].lt = 0 \/ WithinBonus(account[u], c, k, d, n)

\* A liquidator who takes aTokens of his own position gives the fee only.
LEMMA LiquidationSettles ==
  ASSUME IndInv, NEW l \in Users, NEW u \in Users, NEW c \in Assets, NEW d \in Assets,
         NEW n \in Amounts, NEW receive \in BOOLEAN, LiquidationCall(l, u, c, d, n, receive),
         NEW x \in Assets, account'[u].aToken[x] < account[u].aToken[x]
  PROVE  x = c /\ Settlement(u, c, d)
<1> DEFINE p     == account[u]
           terms == Terms(p, c, d, n)
           k     == terms.debt
           s     == terms.seized
           f     == terms.fee
           toLiquidator == s - f
           first == account[l].aToken[c] = 0
           all   == toLiquidator = p.aToken[c]
           got   == ReceiveLiquidated(account[l], c, toLiquidator, first)
           received == IF receive THEN [account EXCEPT ![l] = got] ELSE account
           q     == LiquidatedPosition(received[u], c, d, terms, all)
           taken == [received EXCEPT ![u] = q]
           fed   == MintAToken(taken[Treasury], c, f)
<1>1. /\ l \in Accounts /\ u \in Accounts /\ Treasury \in Accounts /\ n \in Nat /\ u # Treasury
      /\ account \in [Accounts -> Account] /\ p \in Account
  BY InputsAssumption, AddressesAssumption DEF Accounts, IndInv, TypeOK
<1>2. /\ reserve[c].listed /\ reserve[d].listed /\ config[c].lt > 0 /\ PricesAllow(c, d)
      /\ k > 0 /\ k <= DebtOf(p, d) /\ f <= s
      /\ account' = [taken EXCEPT ![Treasury] = fed]
  BY DEF LiquidationCall, ValidateLiquidationCall, Active
<1>3. s \in 0 .. p.aToken[c] /\ f \in Nat /\ k \in Nat
  BY <1>1, <1>2, LiquidationInputs
<1>4. p.aToken[c] \in Nat /\ DebtOf(p, d) \in Nat /\ Id(c) \in Ids
  BY <1>1, <1>2, Balances, ListedIds DEF IndInv
<1>5. WithinBonus(p, c, s, d, k)
  BY <1>1, <1>2, TermsAreWithinBonus
<1>6. account'[u] = q
  <2>1. received \in [Accounts -> {received[v] : v \in Accounts}]
    BY <1>1
  <2> HIDE DEF received, q, fed
  <2>2. QED
    BY <1>1, <1>2, <2>1
<1> HIDE DEF fed, taken
<1>7. terms.debt = k /\ terms.seized = s /\ terms.debt \in Int /\ terms.seized \in Int
  BY <1>3, <1>4
<1> HIDE DEF terms, k, s, f
<1>8. CASE receive /\ l = u
  <2>1. received[u] = ReceiveLiquidated(p, c, toLiquidator, first) /\ toLiquidator \in Nat
    BY <1>1, <1>2, <1>3, <1>8
  <2> DEFINE r == received[u]
  <2>2. Moves(p, r, c, toLiquidator, 0) /\ first \in BOOLEAN
    BY <1>1, <1>4, <1>8, <2>1, ReceivingMoves
  <2> HIDE DEF received
  <2>3. r \in Account /\ DebtOf(r, d) = DebtOf(p, d) /\ r.aToken[c] = p.aToken[c] + toLiquidator
    <3>1. DebtOf(p, d) + 0 = DebtOf(p, d)
      BY <1>4
    <3>2. QED
      BY <2>2, <3>1 DEF Moves, Only
  <2>4. k \in 0 .. DebtOf(r, d) /\ s \in 0 .. r.aToken[c] /\ all \in BOOLEAN
    BY <1>2, <1>3, <1>4, <2>1, <2>3
  <2>5. Seizes(r, q, c, d, s, k)
    BY <1>7, <2>3, <2>4, LiquidatedPositionSeizes
  <2>6. KeepsFlags(r, q, c, all)
    <3> HIDE DEF all
    <3>1. QED
      BY <1>7, <2>3, <2>4, LiquidatedFlags
  <2> HIDE DEF q
  <2>7. q.aToken[c] = p.aToken[c] - f
    BY <1>3, <1>4, <2>1, <2>3, <2>5 DEF Seizes, Only
  <2>0. x = c
    <3>1. p.aToken[x] \in Nat
      BY <1>1 DEF Account
    <3>2. x # c => r.aToken[x] = p.aToken[x]
      BY <2>2, <3>1 DEF Moves, Only
    <3>3. x # c => q.aToken[x] = p.aToken[x]
      BY <2>5, <3>1, <3>2 DEF Seizes, Only
    <3>4. QED
      BY <1>6, <3>1, <3>3
  <2>8. ~first /\ ~all
    <3>1. p.aToken[c] - f < p.aToken[c]
      BY <1>6, <2>0, <2>7
    <3>2. f > 0 /\ s > 0 /\ s <= p.aToken[c] /\ s \in Nat
      BY <1>2, <1>3, <1>4, <3>1
    <3>3. account[l].aToken[c] = p.aToken[c]
      BY <1>8
    <3>4. QED
      BY <1>3, <1>4, <3>2, <3>3
  <2>9. r = MintAToken(p, c, toLiquidator)
    BY <2>1, <2>8 DEF ReceiveLiquidated
  <2>10. r.eMode = p.eMode /\ r.borrowing = p.borrowing /\ r.collateral = p.collateral
    BY <1>1, <2>9 DEF MintAToken, Account
  <2> HIDE DEF r, toLiquidator, all
  <2>11. SettledFrom(p, q, c, f, d, k)
    <3>1. \A b \in Assets : p.aToken[b] \in Nat /\ DebtOf(p, b) \in Nat
      BY <1>1 DEF Account, DebtOf
    <3>2. ASSUME NEW b \in Assets
          PROVE  /\ q.aToken[b] = p.aToken[b] - Only(c, b, f)
                 /\ DebtOf(q, b) = DebtOf(p, b) - Only(d, b, k)
      <4>1. /\ q.aToken[b] = r.aToken[b] - Only(c, b, s)
            /\ DebtOf(q, b) = DebtOf(r, b) - Only(d, b, k)
        BY <2>5 DEF Seizes
      <4>2. /\ r.aToken[b] = p.aToken[b] + Only(c, b, toLiquidator)
            /\ DebtOf(r, b) = DebtOf(p, b) + Only(c, b, 0)
        BY <2>2 DEF Moves
      <4>3. DebtOf(r, b) = DebtOf(p, b)
        BY <3>1, <4>2 DEF Only
      <4>4. b # c => q.aToken[b] = p.aToken[b]
        BY <3>1, <4>1, <4>2 DEF Only
      <4>5. p.aToken[b] - 0 = p.aToken[b]
        BY <3>1
      <4>6. QED
        BY <2>7, <4>1, <4>3, <4>4, <4>5 DEF Only
    <3>3. QED
      BY <2>5, <2>6, <2>8, <2>10, <3>2 DEF SettledFrom, Seizes, KeepsFlags, all
  <2>12. WithinBonus(p, c, f, d, k)
    <3> DEFINE P == price[c]
               F == PERCENTAGE_FACTOR
               z == LiquidationBonus(p, c) * (price[d] * (k + 2) + P)
    <3>1. P \in Nat /\ F \in Nat /\ price[d] \in Nat /\ LiquidationBonus(p, c) \in Nat
      BY <1>1, PercentageAssumption, BonusAbove DEF IndInv, TypeOK
    <3>2. z \in Nat /\ F * P * s <= z
      <4>1. price[d] * (k + 2) + P \in Nat
        BY <1>3, <3>1, SMT
      <4>2. QED
        BY <1>5, <3>1, <4>1 DEF WithinBonus
    <3> HIDE DEF P, F, z
    <3>3. s \in Nat /\ f <= s /\ F * P \in Nat
      BY <1>2, <1>3, <1>4, <3>1, SMT
    <3>4. f * (F * P) <= s * (F * P)
      BY <1>3, <3>3, ProductGrows
    <3>5. f * (F * P) = F * P * f /\ s * (F * P) = F * P * s /\ F * P * f \in Nat /\ F * P * s \in Nat
      BY <1>3, <3>1, <3>3, SMT
    <3>6. F * P * f <= z
      BY <3>2, <3>4, <3>5
    <3>7. QED
      BY <3>6 DEF WithinBonus, P, F, z
  <2>13. QED
    BY <1>2, <1>3, <1>6, <2>0, <2>11, <2>12 DEF Settlement
<1>9. CASE ~(receive /\ l = u)
  <2>1. received[u] = p
    BY <1>1, <1>9
  <2> HIDE DEF received
  <2>2. k \in 0 .. DebtOf(p, d) /\ s \in 0 .. p.aToken[c] /\ all \in BOOLEAN
    BY <1>2, <1>3, <1>4
  <2>3. Seizes(p, q, c, d, s, k)
    BY <1>1, <1>7, <2>1, <2>2, LiquidatedPositionSeizes
  <2>4. KeepsFlags(p, q, c, all)
    <3> HIDE DEF all
    <3>1. QED
      BY <1>1, <1>7, <2>1, <2>2, LiquidatedFlags
  <2> HIDE DEF q
  <2>5. q.aToken[c] = p.aToken[c] - s
    BY <2>3 DEF Seizes, Only
  <2>6. all => q.aToken[c] = 0
    BY <1>2, <1>3, <1>4, <2>5
  <2> HIDE DEF all
  <2>7. SettledFrom(p, q, c, s, d, k)
    BY <2>3, <2>4, <2>6 DEF SettledFrom, Seizes, KeepsFlags
  <2>8. s \in Nat
    BY <1>3, <1>4
  <2>9. x = c
    <3>1. p.aToken[x] \in Nat
      BY <1>1 DEF Account
    <3>2. x # c => q.aToken[x] = p.aToken[x]
      BY <2>3, <3>1 DEF Seizes, Only
    <3>3. QED
      BY <1>6, <3>1, <3>2
  <2>10. QED
    BY <1>2, <1>3, <1>5, <1>6, <2>7, <2>8, <2>9 DEF Settlement
<1>10. QED
  BY <1>8, <1>9

\* u loses aTokens of c and debt in d.
Settled(u, c, d) ==
  /\ account'[u].aToken[c] < account[u].aToken[c]
  /\ DebtOf(account'[u], d) < DebtOf(account[u], d)

\* Who pays a debt of his own with his aTokens gives as many of them as he owed.
LEMMA RepaymentSettles ==
  ASSUME IndInv, NEW sender \in Users, NEW w \in Users, NEW a \in Assets, NEW mode \in Modes,
         NEW n \in Amounts \cup {account[w][mode][a]}, RepayWithATokens(sender, w, a, n, mode),
         NEW u \in Users, NEW c \in Assets, NEW d \in Assets, Settled(u, c, d)
  PROVE  Settlement(u, c, d)
<1> DEFINE p == account[u]
           k == Payback(account[w], a, n, mode)
           r == RepayOf(account[w], a, k, mode)
           q == BurnAToken(r, a, k)
           repaid == [account EXCEPT ![w] = r]
           paying == BurnAToken(repaid[sender], a, k)
<1>1. /\ u \in Accounts /\ w \in Accounts /\ sender \in Accounts
      /\ account \in [Accounts -> Account] /\ p \in Account /\ account[w] \in Account
  BY AccountsAreTyped
<1>2. k \in 0 .. account[w][mode][a] /\ account[w][mode][a] \in Nat /\ k \in Nat
  BY <1>1, PaybackIsOwed, Balances
<1>3. reserve[a].listed /\ account' = [repaid EXCEPT ![sender] = paying]
      /\ k <= account[sender].aToken[a]
  BY DEF RepayWithATokens, ValidateRepay, Active
<1>4. \A b \in Assets : p.aToken[b] \in Nat /\ DebtOf(p, b) \in Nat
  BY <1>1 DEF Account, DebtOf
<1> DEFINE m == -k
<1>5. Moves(account[w], r, a, 0, m)
  BY <1>1, <1>2, RepayOfMoves
<1>6. /\ r.eMode = account[w].eMode /\ r.collateral = account[w].collateral
      /\ r.aToken = account[w].aToken /\ r.borrowing \subseteq account[w].borrowing
  BY <1>1 DEF RepayOf, BurnDebt, SetBorrowing, Account
<1> HIDE DEF k, r, m
<1>7. u = sender
  <2>1. u # sender => account'[u] = p \/ (account'[u] = r /\ u = w)
    BY <1>1, <1>3
  <2>2. u # sender => account'[u].aToken = p.aToken
    BY <1>6, <2>1
  <2>3. QED
    BY <1>4, <2>2 DEF Settled
<1>8. u = w
  <2>1. u # w => account'[u] = BurnAToken(p, a, k)
    BY <1>1, <1>3, <1>7
  <2>2. DebtOf(BurnAToken(p, a, k), d) = DebtOf(p, d)
    BY DEF BurnAToken, DebtOf
  <2>3. QED
    BY <1>4, <2>1, <2>2 DEF Settled
<1>9. account'[u] = q
  BY <1>1, <1>3, <1>7, <1>8
<1>10. r \in Account /\ r.aToken[a] = p.aToken[a]
  BY <1>5, <1>6, <1>8 DEF Moves
<1>11. Moves(r, q, a, -k, 0) /\ k \in 0 .. r.aToken[a]
  <2>1. k \in 0 .. r.aToken[a]
    BY <1>2, <1>3, <1>4, <1>7, <1>10
  <2>2. QED
    BY <1>10, <2>1, BurnATokenMoves
<1>12. q.eMode = r.eMode /\ q.collateral = r.collateral /\ q.borrowing = r.borrowing
  BY <1>10 DEF BurnAToken, Account
<1> HIDE DEF q
<1>13. \A b \in Assets : /\ q.aToken[b] = p.aToken[b] - Only(a, b, k)
                         /\ DebtOf(q, b) = DebtOf(p, b) - Only(a, b, k)
  <2>1. SUFFICES ASSUME NEW b \in Assets
                 PROVE  /\ q.aToken[b] = p.aToken[b] - Only(a, b, k)
                        /\ DebtOf(q, b) = DebtOf(p, b) - Only(a, b, k)
    OBVIOUS
  <2>2. /\ r.aToken[b] = p.aToken[b]
        /\ DebtOf(r, b) = DebtOf(p, b) + Only(a, b, m)
    BY <1>5, <1>6, <1>8 DEF Moves
  <2>3. /\ q.aToken[b] = r.aToken[b] + Only(a, b, -k)
        /\ DebtOf(q, b) = DebtOf(r, b) + Only(a, b, 0)
    BY <1>11 DEF Moves
  <2>4. CASE a = b
    BY <1>2, <1>4, <2>2, <2>3, <2>4 DEF Only, m
  <2>5. CASE a # b
    BY <1>2, <1>4, <2>2, <2>3, <2>5 DEF Only, m
  <2>6. QED
    BY <2>4, <2>5
<1>14. c = a /\ d = a /\ k # 0
  <2>1. q.aToken[c] < p.aToken[c] /\ DebtOf(q, d) < DebtOf(p, d)
    BY <1>9 DEF Settled
  <2>2. q.aToken[c] = p.aToken[c] - Only(a, c, k) /\ DebtOf(q, d) = DebtOf(p, d) - Only(a, d, k)
    BY <1>13
  <2>3. Only(a, c, k) # 0 /\ Only(a, d, k) # 0
    BY <1>4, <2>1, <2>2
  <2>4. QED
    BY <2>3 DEF Only
<1>15. SettledFrom(p, q, c, k, d, k)
  BY <1>6, <1>8, <1>11, <1>12, <1>13, <1>14 DEF SettledFrom, Moves
<1>16. config[c].lt = 0 \/ WithinBonus(p, c, k, d, k)
  <2> DEFINE P == price[c]
             F == PERCENTAGE_FACTOR
             B == LiquidationBonus(p, c)
             z == P * (k + 2) + P
  <2>1. P \in Nat /\ F \in Nat /\ B \in Nat /\ config[c].lt \in Nat
        /\ (config[c].lt > 0 => B > F)
    BY <1>1, PercentageAssumption, BonusAbove DEF IndInv, TypeOK, ReserveConfig
  <2> HIDE DEF P, F, B
  <2>2. P * k \in Nat /\ F * (P * k) \in Nat /\ F * P * k = F * (P * k) /\ z \in Nat /\ z >= P * k
    BY <1>2, <2>1, SMT
  <2> HIDE DEF z
  <2>3. ASSUME config[c].lt # 0
        PROVE  F * (P * k) <= B * z
    <3>1. F * (P * k) <= B * (P * k)
      <4> DEFINE y == P * k
      <4>1. y \in Nat /\ F <= B
        BY <2>1, <2>2, <2>3
      <4> HIDE DEF y
      <4>2. F * y <= B * y
        BY <2>1, <4>1, ProductGrows
      <4>3. QED
        BY <4>2 DEF y
    <3>2. (P * k) * B <= z * B
      BY <2>1, <2>2, ProductGrows
    <3>3. (P * k) * B = B * (P * k) /\ z * B = B * z /\ B * (P * k) \in Nat /\ B * z \in Nat
      BY <2>1, <2>2, SMT
    <3>4. QED
      BY <2>2, <3>1, <3>2, <3>3
  <2>4. QED
    BY <1>14, <2>2, <2>3 DEF WithinBonus, P, F, B, z
<1>17. QED
  BY <1>2, <1>3, <1>9, <1>14, <1>15, <1>16 DEF Settlement

\* Aside from liquidations, only a payment with aTokens takes both.
LEMMA SettledByCall ==
  ASSUME IndInv, [Next]_vars, NEW u \in Users, NEW c \in Assets, NEW d \in Assets,
         Settled(u, c, d)
  PROVE  Settlement(u, c, d) /\ unchangedConfig /\ unchangedMarket
<1>1. u \in Accounts /\ \A b \in Assets : account[u].aToken[b] \in Nat /\ DebtOf(account[u], b) \in Nat
  BY AccountsAreTyped, Balances
<1>2. ~NothingOwed
  BY <1>1 DEF NothingOwed, DebtsStay, Settled
<1>3. ASSUME NEW v \in Users, NEW b \in Assets, NEW n \in Nat, DebtMoves(account, account', v, b, n)
      PROVE  FALSE
  <2>1. DebtOf(account'[u], d) = DebtOf(account[u], d) + (IF u = v THEN Only(b, d, n) ELSE 0)
    BY <1>1, <1>3 DEF DebtMoves
  <2>2. DebtOf(account'[u], d) >= DebtOf(account[u], d)
    BY <1>1, <2>1 DEF Only
  <2>3. QED
    BY <1>1, <2>1, <2>2 DEF Settled, Only
<1>4. CASE DebtSide
  <2>1. PICK w \in Users, a \in Assets, mode \in Modes :
          \/ \E n \in Amounts : Borrow(w, a, n, mode)
          \/ \E n \in Amounts \cup {account[w][mode][a]} : Repay(w, a, n, mode)
          \/ \E sender \in Users, n \in Amounts \cup {account[w][mode][a]} :
               RepayWithATokens(sender, w, a, n, mode)
          \/ SwapBorrowRateMode(w, a, mode)
    BY <1>4 DEF DebtSide
  <2>2. ASSUME NEW n \in Amounts, Borrow(w, a, n, mode)
        PROVE  FALSE
    BY <1>3, <2>2, BorrowIsLent DEF Lent
  <2>3. ASSUME NEW n, Repay(w, a, n, mode)
        PROVE  FALSE
    <3> DEFINE q == RepayOf(account[w], a, Payback(account[w], a, n, mode), mode)
    <3>1. account' = [account EXCEPT ![w] = q] /\ w \in Accounts /\ account[w] \in Account
      BY <2>3, AccountsAreTyped DEF Repay
    <3>2. q.aToken = account[w].aToken
      BY <3>1 DEF RepayOf, BurnDebt, SetBorrowing, Account
    <3> HIDE DEF q
    <3>3. account'[u].aToken = account[u].aToken
      BY <1>1, <3>1, <3>2, AccountsAreTyped
    <3>4. QED
      BY <1>1, <3>3 DEF Settled
  <2>4. ASSUME NEW sender \in Users, NEW n \in Amounts \cup {account[w][mode][a]},
               RepayWithATokens(sender, w, a, n, mode)
        PROVE  Settlement(u, c, d) /\ unchangedConfig /\ unchangedMarket
    <3>1. Settlement(u, c, d)
      BY <2>4, RepaymentSettles
    <3>2. QED
      BY <2>4, <3>1 DEF RepayWithATokens
  <2>5. QED
    BY <1>2, <2>1, <2>2, <2>3, <2>4, SwapOwesNothing
<1>5. CASE Liquidations
  <2>1. PICK l \in Users, v \in Users, e \in Assets, b \in Assets, n \in Amounts, receive \in BOOLEAN :
          LiquidationCall(l, v, e, b, n, receive)
    BY <1>5 DEF Liquidations
  <2>2. PICK k \in Nat : Paid(v, b, k)
    BY <2>1, LiquidationIsPaid
  <2>3. u = v /\ d = b
    <3>1. DebtOf(account'[u], d) = DebtOf(account[u], d) + (IF u = v THEN Only(b, d, -k) ELSE 0)
      BY <1>1, <2>2 DEF Paid, DebtMoves
    <3>2. QED
      BY <1>1, <3>1 DEF Settled, Only
  <2>4. c = e /\ Settlement(u, c, d)
    BY <2>1, <2>3, LiquidationSettles DEF Settled
  <2>5. QED
    BY <2>1, <2>4 DEF LiquidationCall
<1>6. CASE Interest
  <2>1. PICK v \in Users, x \in Accounts, a \in Assets, mode \in Modes : Accrue(v, x, a, mode)
    BY <1>6 DEF Interest
  <2>2. DebtMoves(account, account', v, a, 1) /\ 1 \in Nat
    BY <2>1, InterestIsAccrued DEF Accrued
  <2>3. QED
    BY <1>3, <2>2
<1>7. CASE SupplySide
  BY <1>2, <1>7, SupplySideOwesNothing
<1>8. CASE UnbackedMints \/ Backing
  BY <1>2, <1>8, BridgesOweNothing
<1>9. CASE EfficiencyMode
  BY <1>2, <1>9, ModeOwesNothing
<1>10. CASE Market \/ AdminNext \/ UNCHANGED vars
  BY <1>2, <1>10, OthersOweNothing
<1>11. QED
  BY <1>4, <1>5, <1>6, <1>7, <1>8, <1>9, <1>10 DEF Next, UserNext

\* The prices of a position are those of a feed of its category.
ValuedByFeed(p) == p.eMode # 0 /\ categories[p.eMode].source # None

\* What the roundings of a liquidation may cost the position, in units of account:
\* up to two units of the debt and one of the collateral, with the bonus, where the
\* debt paid and the collateral seized are divided by prices and percentages, and a
\* few units of account where they are valued.
Rounding(p, c, d) ==
  (LiquidationBonus(p, c) * (2 * price[d] + price[c] + TOKEN_UNIT))
    \div (PERCENTAGE_FACTOR * TOKEN_UNIT) + 2

\* What was covered with the bonus is so again, up to the rounding.
CoverKept ==
  \A u \in Users, c \in Assets, d \in Assets :
    Settled(u, c, d) /\ Covered(account[u], c, 0) =>
      \/ ValuedByFeed(account[u])
      \/ TotalCollateral(account[u])' + Rounding(account[u], c, d) >=
           PercentMul(TotalDebt(account[u])', LiquidationBonus(account[u], c)')

LEMMA SettlementKeepsCover ==
  ASSUME IndInv, FlagsListed, [Next]_vars
  PROVE  CoverKept
<1> SUFFICES ASSUME NEW u \in Users, NEW c \in Assets, NEW d \in Assets, Settled(u, c, d),
                    Covered(account[u], c, 0), ~ValuedByFeed(account[u])
             PROVE  TotalCollateral(account[u])' + Rounding(account[u], c, d) >=
                      PercentMul(TotalDebt(account[u])', LiquidationBonus(account[u], c)')
  BY DEF CoverKept
<1> DEFINE p == account[u]
           q == account'[u]
           bonus == LiquidationBonus(p, c)
           slack == Rounding(p, c, d)
           cp == price[c]
           dp == price[d]
<1>1. u \in Accounts /\ p \in Account
  BY AccountsAreTyped
<1>2. Settlement(u, c, d) /\ unchangedConfig /\ unchangedMarket
  BY SettledByCall
<1>3. /\ TotalCollateral(account[u])' = TotalCollateral(q)
      /\ TotalDebt(account[u])' = TotalDebt(q)
  BY <1>2, WorthOfAPosition
<1>4. PICK k \in Nat, m \in Nat \ {0} :
        /\ SettledFrom(p, q, c, k, d, m)
        /\ config[c].lt = 0 \/ WithinBonus(p, c, k, d, m)
  BY <1>2 DEF Settlement
<1>5. q \in Account /\ LiquidationBonus(account[u], c)' = bonus
  BY <1>2, <1>4 DEF SettledFrom, LiquidationBonus, unchangedConfig
<1>6. reserve[c].listed /\ reserve[d].listed
  BY <1>2 DEF Settlement
<1>7. PriceFor(p, c) = cp /\ PriceFor(p, d) = dp
  BY DEF PriceFor, InCategory, ValuedByFeed
<1>8. /\ TotalCollateral(p) <= TotalCollateral(q) + ((cp * k) \div TOKEN_UNIT + 1)
      /\ config[c].lt = 0 => TotalCollateral(q) = TotalCollateral(p)
      /\ TotalDebt(q) + (dp * m) \div TOKEN_UNIT <= TotalDebt(p)
  BY <1>1, <1>4, <1>6, <1>7, CollateralTaken, DebtTaken
<1>9. /\ TotalCollateral(p) \in Nat /\ TotalCollateral(q) \in Nat
      /\ TotalDebt(p) \in Nat /\ TotalDebt(q) \in Nat
  BY <1>1, <1>5, AccountData
<1>10. bonus \in Nat /\ cp \in Nat /\ dp \in Nat /\ TOKEN_UNIT \in Nat \ {0}
  BY <1>1, BonusAbove, UnitsAssumption DEF IndInv, TypeOK
<1>11. TotalCollateral(p) >= PercentMul(TotalDebt(p), bonus)
  <2>1. TotalCollateral(p) + 0 >= PercentMul(TotalDebt(p), bonus)
    BY DEF Covered
  <2>2. QED
    BY <1>9, <2>1
<1> DEFINE x == (cp * k) \div TOKEN_UNIT + 1
           y == (dp * m) \div TOKEN_UNIT
           F == PERCENTAGE_FACTOR
<1>12. /\ slack = (bonus * (2 * dp + cp + TOKEN_UNIT)) \div (F * TOKEN_UNIT) + 2
       /\ config[c].lt # 0 => F * cp * k <= bonus * (dp * (m + 2) + cp)
  BY <1>4 DEF Rounding, WithinBonus
<1> HIDE DEF p, q, bonus, slack, cp, dp
<1>13. slack \in Nat /\ x \in Nat /\ y \in Nat /\ F \in Nat \ {0}
  <2> DEFINE w == bonus * (2 * dp + cp + TOKEN_UNIT)
             v == F * TOKEN_UNIT
  <2>1. w \in Nat /\ v \in Nat \ {0} /\ cp * k \in Nat /\ dp * m \in Nat /\ F \in Nat \ {0}
    BY <1>4, <1>10, PercentageAssumption, SMT
  <2>2. w \div v \in Nat /\ (cp * k) \div TOKEN_UNIT \in Nat /\ (dp * m) \div TOKEN_UNIT \in Nat
    <3> HIDE DEF w, v
    <3>1. QED
      BY <1>10, <2>1, QuotientIsNat
  <2>3. slack = w \div v + 2
    BY <1>12
  <2> HIDE DEF w, v
  <2>4. QED
    BY <2>1, <2>2, <2>3
<1>14. CASE config[c].lt = 0
  <2>1. F * 0 = 0 /\ F * slack \in Nat /\ y * bonus \in Nat
    BY <1>10, <1>13, SMT
  <2>2. F * 0 <= F * slack + y * bonus
    BY <2>1
  <2> HIDE DEF y
  <2>3. /\ TotalCollateral(q) + 0 >= TotalCollateral(p)
        /\ TotalDebt(q) + y <= TotalDebt(p)
    BY <1>8, <1>9, <1>14 DEF y
  <2>4. TotalCollateral(q) + slack >= PercentMul(TotalDebt(q), bonus)
    BY <1>9, <1>10, <1>11, <1>13, <2>2, <2>3, CoverLeft
  <2>5. QED
    BY <1>3, <1>5, <2>4 DEF slack, p
<1>15. CASE config[c].lt # 0
  <2>1. F * x <= F * slack + y * bonus
    BY <1>4, <1>10, <1>12, <1>15, RoundingCovers
  <2> HIDE DEF x, y
  <2>2. TotalCollateral(q) + x >= TotalCollateral(p) /\ TotalDebt(q) + y <= TotalDebt(p)
    BY <1>8, <1>9, <1>13 DEF x, y
  <2>3. TotalCollateral(q) + slack >= PercentMul(TotalDebt(q), bonus)
    BY <1>9, <1>10, <1>11, <1>13, <2>1, <2>2, CoverLeft
  <2>4. QED
    BY <1>3, <1>5, <2>3 DEF slack, p
<1>16. QED
  BY <1>14, <1>15

\* The values before and after such a step are natural numbers.
LEMMA SettledValues ==
  ASSUME IndInv, [Next]_vars, NEW u \in Users, NEW c \in Assets, NEW d \in Assets,
         Settled(u, c, d)
  PROVE  /\ price' = price /\ price[c] \in Nat
         /\ TotalCollateral(account[u])' \in Nat
         /\ PercentMul(TotalDebt(account[u])', LiquidationBonus(account[u], c)') \in Nat
         /\ Rounding(account[u], c, d) \in Nat
<1> DEFINE p == account[u]
           q == account'[u]
           bonus == LiquidationBonus(p, c)
<1>1. u \in Accounts /\ p \in Account /\ bonus \in Nat
  BY AccountsAreTyped, BonusAbove
<1>2. Settlement(u, c, d) /\ unchangedConfig /\ unchangedMarket
  BY SettledByCall
<1>3. q \in Account /\ LiquidationBonus(account[u], c)' = bonus
  BY <1>2 DEF Settlement, SettledFrom, LiquidationBonus, unchangedConfig
<1>4. /\ TotalCollateral(account[u])' = TotalCollateral(q) /\ TotalCollateral(q) \in Nat
      /\ TotalDebt(account[u])' = TotalDebt(q) /\ TotalDebt(q) \in Nat
  BY <1>2, <1>3, AccountData, WorthOfAPosition
<1>5. price' = price /\ price[c] \in Nat /\ price[d] \in Nat
  BY <1>2 DEF unchangedMarket, IndInv, TypeOK
<1>6. PercentMul(TotalDebt(q), bonus) \in Nat
  BY <1>1, <1>4, PercentMulIsNat
<1>7. Rounding(p, c, d) \in Nat
  <2> DEFINE w == bonus * (2 * price[d] + price[c] + TOKEN_UNIT)
             v == PERCENTAGE_FACTOR * TOKEN_UNIT
  <2>1. Rounding(p, c, d) = w \div v + 2
    BY DEF Rounding
  <2> HIDE DEF bonus
  <2>2. w \in Nat /\ v \in Nat \ {0}
    BY <1>1, <1>5, PercentageAssumption, UnitsAssumption, SMT
  <2> HIDE DEF w, v
  <2>3. w \div v \in Nat
    BY <2>2, QuotientIsNat
  <2>4. QED
    BY <2>1, <2>3
<1>8. QED
  BY <1>3, <1>4, <1>5, <1>6, <1>7

\* A position whose collateral pays for all of its debt with the bonus still does once
\* it has been liquidated, or has paid with its own aTokens, in whatever aTokens the
\* liquidator takes it, with whatever fee, close factor and price, and by whomever,
\* himself too: the divisions of the liquidation and of the valuation together cost it
\* no more than Rounding.  A position that a feed values is left out, for a liquidation
\* is priced by the oracle of the assets and never by the feed.
THEOREM LiquidationsKeepCoverUpToRounding ==
  Spec /\ [][DropsUnflagged]_vars => [][CoverKept]_vars
<1>1. Init => FlagsListed
  BY DEF Init, NoPosition, FlagsListed
<1>2. IndInv /\ FlagsListed /\ [Next]_vars /\ [DropsUnflagged]_vars => FlagsListed'
  <2>1. ASSUME FlagsListed, UNCHANGED vars
        PROVE  FlagsListed'
    BY <2>1 DEF vars, FlagsListed, Id
  <2>2. QED
    BY <2>1, FlagsStayListed
<1>3. IndInv /\ FlagsListed /\ [Next]_vars => [CoverKept]_vars
  BY SettlementKeepsCover
<1>4. QED
  BY <1>1, <1>2, <1>3, Invariance, PTL DEF Spec

\* A liquidation, or a payment with aTokens, whose rounding may cost more than one
\* unit of the collateral, or which is valued by a feed.
Coarse(u, c, d) ==
  Settled(u, c, d) /\ (ValuedByFeed(account[u]) \/ Rounding(account[u], c, d) > price[c])

\* While the units of the tokens and the prices are fine enough for the rounding to be
\* worth no more than one unit of the collateral, as they are where a whole token has
\* many units and a price has many decimals, no liquidation digs a hole.
COROLLARY FineLiquidationsKeepCover ==
  /\ Spec
  /\ [][DropsUnflagged]_vars
  /\ [][\A u \in Users, c \in Assets, d \in Assets : ~Coarse(u, c, d)]_vars
  => LiquidationKeepsCover
<1> DEFINE Fine == \A u \in Users, c \in Assets, d \in Assets : ~Coarse(u, c, d)
           Keeps ==
             \A u \in Users, c \in Assets :
               /\ account'[u].aToken[c] < account[u].aToken[c]
               /\ \E d \in Assets : DebtOf(account'[u], d) < DebtOf(account[u], d)
               /\ Covered(account[u], c, 0)
               => Covered(account[u], c, price[c])'
<1>1. ASSUME IndInv, [Next]_vars, CoverKept, Fine
      PROVE  Keeps
  <2>1. SUFFICES ASSUME NEW u \in Users, NEW c \in Assets,
                        NEW d \in Assets, Settled(u, c, d), Covered(account[u], c, 0)
                 PROVE  Covered(account[u], c, price[c])'
    BY DEF Settled
  <2> DEFINE C == TotalCollateral(account[u])'
             m == PercentMul(TotalDebt(account[u])', LiquidationBonus(account[u], c)')
             r == Rounding(account[u], c, d)
  <2>2. C + r >= m /\ ~(r > price[c])
    BY <1>1, <2>1 DEF CoverKept, Coarse
  <2>3. price' = price /\ C \in Nat /\ m \in Nat /\ r \in Nat /\ price[c] \in Nat
    BY <1>1, <2>1, SettledValues
  <2> HIDE DEF C, m, r
  <2>4. C + price[c] >= m
    BY <2>2, <2>3
  <2>5. QED
    BY <2>3, <2>4 DEF Covered, C, m
<1>2. ASSUME IndInv, [Next]_vars, [CoverKept]_vars, [Fine]_vars
      PROVE  [Keeps]_vars
  <2> HIDE DEF Fine, Keeps
  <2>1. QED
    BY <1>1, <1>2
<1>3. LiquidationKeepsCover <=> [][Keeps]_vars
  BY DEF LiquidationKeepsCover
<1> HIDE DEF Fine, Keeps
<1>4. Spec /\ [][CoverKept]_vars /\ [][Fine]_vars => [][Keeps]_vars
  BY <1>2, Invariance, PTL DEF Spec
<1>5. QED
  BY <1>3, <1>4, LiquidationsKeepCoverUpToRounding DEF Fine
=============================================================================
