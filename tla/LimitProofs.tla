----------------------------- MODULE LimitProofs ----------------------------
(***************************************************************************)
(* What the books of the reserves (LedgerProofs) say of the switches and   *)
(* limits of a reserve, for every number of users and assets and every     *)
(* amount: that money only comes in, and loans only go out, through the    *)
(* guards of three calls, so that caps and a freeze hold whatever else     *)
(* happens, that a reserve out of use is empty, and when the counter of    *)
(* isolated debt stands for what the isolated users owe.                   *)
(***************************************************************************)
EXTENDS LedgerProofs

-----------------------------------------------------------------------------
(* Rises.                                                                   *)

\* The conditions under which a call may raise the aTokens, or the debt, of a
\* reserve.
Open(a) == Active(a) /\ ~config[a].frozen
MayRaiseClaims(a) == Open(a) /\ BelowCap(config[a].supplyCap, ATokenSupply(a)')
MayRaiseOwed(a)   == Open(a) /\ BelowCap(config[a].borrowCap, Owed(a)')

RisesAreChecked ==
  \A a \in Assets : /\ ATokenSupply(a)' > ATokenSupply(a) => MayRaiseClaims(a)
                    /\ Owed(a)' > Owed(a) => MayRaiseOwed(a)

\* An entry that raises nothing.
LEMMA FallsAreChecked ==
  ASSUME TypeOK, NEW a \in Assets, NEW cash, NEW claims \in Int, NEW owed \in Int, NEW unbacked,
         claims <= 0, owed <= 0, Entered(a, cash, claims, owed, unbacked)
  PROVE  RisesAreChecked
<1>1. ASSUME NEW b \in Assets
      PROVE  ~(ATokenSupply(b)' > ATokenSupply(b)) /\ ~(Owed(b)' > Owed(b))
  <2>1. ATokenSupply(b) \in Nat /\ Owed(b) \in Nat
    BY SuppliesAreNat
  <2>2. /\ ATokenSupply(b)' = ATokenSupply(b) + Only(a, b, claims)
        /\ Owed(b)' = Owed(b) + Only(a, b, owed)
    BY DEF Entered, Booked
  <2>3. QED
    BY <2>1, <2>2 DEF Only
<1>2. QED
  BY <1>1 DEF RisesAreChecked

LEMMA NothingIsChecked ==
  ASSUME TypeOK, NothingEntered
  PROVE  RisesAreChecked
<1>1. ASSUME NEW b \in Assets
      PROVE  ~(ATokenSupply(b)' > ATokenSupply(b)) /\ ~(Owed(b)' > Owed(b))
  <2>1. ATokenSupply(b) \in Nat /\ Owed(b) \in Nat
    BY SuppliesAreNat
  <2>2. ATokenSupply(b)' = ATokenSupply(b) + 0 /\ Owed(b)' = Owed(b) + 0
    BY DEF NothingEntered, Booked
  <2>3. QED
    BY <2>1, <2>2
<1>2. QED
  BY <1>1 DEF RisesAreChecked

LEMMA LiquidationsAreChecked ==
  ASSUME TypeOK, NEW c \in Assets, NEW d \in Assets, NEW paid \in Nat, NEW out \in Nat,
         Liquidated(c, d, paid, out)
  PROVE  RisesAreChecked
<1>1. ASSUME NEW b \in Assets
      PROVE  ~(ATokenSupply(b)' > ATokenSupply(b)) /\ ~(Owed(b)' > Owed(b))
  <2>1. ATokenSupply(b) \in Nat /\ Owed(b) \in Nat
    BY SuppliesAreNat
  <2>2. /\ ATokenSupply(b)' = ATokenSupply(b) + -Only(c, b, out)
        /\ Owed(b)' = Owed(b) + -Only(d, b, paid)
    BY DEF Liquidated, Booked
  <2>3. QED
    BY <2>1, <2>2 DEF Only
<1>2. QED
  BY <1>1 DEF RisesAreChecked

\* An entry that raises the aTokens of an open reserve, below its cap.
LEMMA NewClaimsAreChecked ==
  ASSUME TypeOK, NEW a \in Assets, NEW cash, NEW n \in Nat, NEW unbacked,
         Entered(a, cash, n, 0, unbacked), Open(a),
         BelowCap(config[a].supplyCap, ATokenSupply(a) + n)
  PROVE  RisesAreChecked
<1>1. ASSUME NEW b \in Assets
      PROVE  /\ ~(Owed(b)' > Owed(b))
             /\ b # a => ~(ATokenSupply(b)' > ATokenSupply(b))
             /\ b = a => ATokenSupply(b)' = ATokenSupply(a) + n
  <2>1. ATokenSupply(b) \in Nat /\ Owed(b) \in Nat
    BY SuppliesAreNat
  <2>2. /\ ATokenSupply(b)' = ATokenSupply(b) + Only(a, b, n)
        /\ Owed(b)' = Owed(b) + Only(a, b, 0)
    BY DEF Entered, Booked
  <2>3. QED
    BY <2>1, <2>2 DEF Only
<1>2. QED
  BY <1>1 DEF RisesAreChecked, MayRaiseClaims

LEMMA NewDebtIsChecked ==
  ASSUME TypeOK, NEW a \in Assets, NEW cash, NEW n \in Nat, NEW unbacked,
         Entered(a, cash, 0, n, unbacked), Open(a),
         BelowCap(config[a].borrowCap, Owed(a) + n)
  PROVE  RisesAreChecked
<1>1. ASSUME NEW b \in Assets
      PROVE  /\ ~(ATokenSupply(b)' > ATokenSupply(b))
             /\ b # a => ~(Owed(b)' > Owed(b))
             /\ b = a => Owed(b)' = Owed(a) + n
  <2>1. ATokenSupply(b) \in Nat /\ Owed(b) \in Nat
    BY SuppliesAreNat
  <2>2. /\ ATokenSupply(b)' = ATokenSupply(b) + Only(a, b, 0)
        /\ Owed(b)' = Owed(b) + Only(a, b, n)
    BY DEF Entered, Booked
  <2>3. QED
    BY <2>1, <2>2 DEF Only
<1>2. QED
  BY <1>1 DEF RisesAreChecked, MayRaiseOwed

LEMMA SupplySideIsChecked ==
  ASSUME IndInv, SupplySide
  PROVE  RisesAreChecked
<1>1. ASSUME NEW u \in Users, NEW a \in Assets, NEW n \in Amounts, Supply(u, a, n)
      PROVE  RisesAreChecked
  <2>1. n \in Nat /\ Open(a) /\ BelowCap(config[a].supplyCap, ATokenSupply(a) + n)
    BY <1>1, InputsAssumption DEF Supply, ValidateSupply, Open
  <2>2. Entered(a, n, n, 0, 0)
    BY <1>1, SupplyEntry
  <2>3. QED
    BY <2>1, <2>2, NewClaimsAreChecked DEF IndInv
<1>2. ASSUME NEW u \in Users, NEW a \in Assets, NEW n \in Amounts \cup {account[u].aToken[a]},
             Withdraw(u, a, n)
      PROVE  RisesAreChecked
  <2> DEFINE m == -n
  <2>1. n \in Nat
    BY InputsAssumption, Balances DEF Accounts
  <2>2. m \in Int /\ m <= 0 /\ 0 \in Int /\ 0 <= 0
    BY <2>1
  <2>3. Entered(a, m, m, 0, 0)
    BY <1>2, WithdrawEntry
  <2> HIDE DEF m
  <2>4. QED
    BY <2>2, <2>3, FallsAreChecked DEF IndInv
<1>3. QED
  BY <1>1, <1>2, TransferEntry, SetUserUseReserveAsCollateralEntry, NothingIsChecked
     DEF SupplySide, IndInv

LEMMA DebtSideIsChecked ==
  ASSUME IndInv, DebtSide
  PROVE  RisesAreChecked
<1>1. ASSUME NEW u \in Users, NEW a \in Assets, NEW mode \in Modes, NEW n \in Amounts,
             Borrow(u, a, n, mode)
      PROVE  RisesAreChecked
  <2> DEFINE m == -n
  <2>1. n \in Nat /\ Open(a) /\ BelowCap(config[a].borrowCap, StableSupply(a) + VariableSupply(a) + n)
    BY <1>1, InputsAssumption DEF Borrow, ValidateBorrow, Open
  <2>2. Entered(a, m, 0, n, 0)
    BY <1>1, BorrowEntry
  <2>3. QED
    BY <2>1, <2>2, NewDebtIsChecked DEF IndInv, Owed
<1>2. ASSUME NEW u \in Users, NEW a \in Assets, NEW mode \in Modes,
             NEW n \in Amounts \cup {account[u][mode][a]}, Repay(u, a, n, mode)
      PROVE  RisesAreChecked
  <2>1. PICK paid \in Nat : Entered(a, paid, 0, -paid, 0)
    BY <1>2, RepayEntry
  <2> DEFINE m == -paid
  <2>2. m \in Int /\ m <= 0 /\ 0 \in Int /\ 0 <= 0 /\ Entered(a, paid, 0, m, 0)
    BY <2>1
  <2> HIDE DEF m
  <2>3. QED
    BY <2>2, FallsAreChecked DEF IndInv
<1>3. ASSUME NEW u \in Users, NEW a \in Assets, NEW mode \in Modes, NEW sender \in Users,
             NEW n \in Amounts \cup {account[u][mode][a]}, RepayWithATokens(sender, u, a, n, mode)
      PROVE  RisesAreChecked
  <2>1. PICK paid \in Nat : Entered(a, 0, -paid, -paid, 0)
    BY <1>3, RepayWithATokensEntry
  <2> DEFINE m == -paid
  <2>2. m \in Int /\ m <= 0 /\ Entered(a, 0, m, m, 0)
    BY <2>1
  <2> HIDE DEF m
  <2>3. QED
    BY <2>2, FallsAreChecked DEF IndInv
<1>4. QED
  BY <1>1, <1>2, <1>3, SwapBorrowRateModeEntry, NothingIsChecked DEF DebtSide, IndInv

\* Nothing but a supply, an unbacked mint or a loan, each by the guards of its
\* reserve, raises the aTokens or the debt of a reserve, but for interest and the
\* fees of bridges.
LEMMA EveryRiseIsChecked ==
  ASSUME IndInv, Solvent, [Next]_vars, ~Interest, ~Backing
  PROVE  RisesAreChecked
<1>1. CASE UserNext
  <2>1. CASE Liquidations
    <3>1. PICK c \in Assets, d \in Assets, paid \in Nat, out \in Nat : Liquidated(c, d, paid, out)
      BY <2>1, LiquidationCallEntry DEF Liquidations
    <3>2. QED
      BY <3>1, LiquidationsAreChecked DEF IndInv
  <2>2. ASSUME NEW u \in Users, NEW a \in Assets, NEW n \in Amounts, MintUnbacked(u, a, n)
        PROVE  RisesAreChecked
    <3>1. n \in Nat /\ Open(a) /\ BelowCap(config[a].supplyCap, ATokenSupply(a) + n)
      BY <2>2, InputsAssumption DEF MintUnbacked, ValidateSupply, Open
    <3>2. Entered(a, 0, n, 0, n)
      BY <2>2, MintUnbackedEntry
    <3>3. QED
      BY <3>1, <3>2, NewClaimsAreChecked DEF IndInv
  <2>3. CASE EfficiencyMode
    BY <2>3, SetUserEModeEntry, NothingIsChecked DEF EfficiencyMode, IndInv
  <2>4. QED
    BY <1>1, <2>1, <2>2, <2>3, SupplySideIsChecked, DebtSideIsChecked DEF UserNext, UnbackedMints
<1>2. CASE Market \/ RiskParameters \/ Switches \/ CategoryParameters \/ UNCHANGED vars
  <2>1. UNCHANGED <<account, liquidity, reserve>>
    BY <1>2, SettersLeaveBooks DEF Market, SetPrice, ToggleSentinel, vars
  <2>2. QED
    BY <2>1, NoEntry, NothingIsChecked DEF IndInv
<1>3. CASE Listing
  BY <1>3, ListingEntry, NothingIsChecked DEF IndInv
<1>4. QED
  BY <1>1, <1>2, <1>3 DEF Next, AdminNext

-----------------------------------------------------------------------------
(* Caps and freezes.                                                        *)

\* A cap compared in whole tokens is a cap on the amount.
LEMMA BelowCapIsNotFull ==
  ASSUME NEW cap \in Nat, NEW total \in Nat, BelowCap(cap, total)
  PROVE  ~Full(cap, total)
<1>1. TOKEN_UNIT \in Nat \ {0}
  BY UnitsAssumption
<1>2. SUFFICES ASSUME cap > 0, total >= cap * TOKEN_UNIT
               PROVE  FALSE
  BY DEF Full
<1>3. total \div TOKEN_UNIT >= cap
  BY <1>1, <1>2, QuotientAtLeast
<1>4. total \div TOKEN_UNIT < cap /\ total \div TOKEN_UNIT \in Nat
  BY <1>1, <1>2, QuotientIsNat DEF BelowCap
<1>5. QED
  BY <1>3, <1>4

LEMMA SuppliesStayNat ==
  ASSUME TypeOK', NEW a \in Assets
  PROVE  ATokenSupply(a)' \in Nat /\ Owed(a)' \in Nat
<1>1. account' \in [Accounts -> Account]
  BY DEF TypeOK
<1>2. QED
  BY <1>1, SumsOfBalances, SumsAreSupplies

\* Whatever is called, and in whatever order, no step raises the aTokens of a
\* reserve to its supply cap, nor its debt to its borrow cap, but for the interest
\* and the fees of bridges that no cap can stop.
THEOREM CapsAreRespected == Spec => CapsRespected
<1>1. ASSUME IndInv, IndInv', Solvent, [Next]_vars, NEW a \in Assets, ~Interest, ~Backing
      PROVE  /\ ATokenSupply(a)' > ATokenSupply(a) => ~Full(config[a].supplyCap, ATokenSupply(a)')
             /\ Owed(a)' > Owed(a) => ~Full(config[a].borrowCap, Owed(a)')
  <2>1. RisesAreChecked
    BY <1>1, EveryRiseIsChecked
  <2>2. config[a].supplyCap \in Nat /\ config[a].borrowCap \in Nat
    BY <1>1 DEF IndInv, TypeOK, ReserveConfig
  <2>3. ATokenSupply(a)' \in Nat /\ Owed(a)' \in Nat
    BY <1>1, SuppliesStayNat DEF IndInv
  <2>4. QED
    BY <2>1, <2>2, <2>3, BelowCapIsNotFull DEF RisesAreChecked, MayRaiseClaims, MayRaiseOwed
<1>2. IndInv /\ IndInv' /\ Solvent /\ [Next]_vars =>
        [\A a \in Assets :
           \/ /\ ATokenSupply(a)' > ATokenSupply(a)
              /\ Full(config[a].supplyCap, ATokenSupply(a)')
           \/ /\ (StableSupply(a) + VariableSupply(a))' > StableSupply(a) + VariableSupply(a)
              /\ Full(config[a].borrowCap, (StableSupply(a) + VariableSupply(a))')
           => Interest \/ Backing]_vars
  BY <1>1 DEF Owed
<1>3. QED
  BY <1>2, Invariance, ReservesStaySolvent, PTL DEF Spec, CapsRespected

\* A frozen reserve takes no new money and gives no new loan, by whatever call and
\* for whomever: only interest and the fees of bridges still reach it.
THEOREM FrozenReservesTakeNothing == Spec => FrozenTakesNothing
<1>1. ASSUME IndInv, Solvent, [Next]_vars, NEW a \in Assets, config[a].frozen, ~Interest, ~Backing
      PROVE  ~(ATokenSupply(a)' > ATokenSupply(a)) /\ ~(Owed(a)' > Owed(a))
  BY <1>1, EveryRiseIsChecked DEF RisesAreChecked, MayRaiseClaims, MayRaiseOwed, Open
<1>2. IndInv /\ Solvent /\ [Next]_vars =>
        [\A a \in Assets :
           /\ config[a].frozen
           /\ \/ ATokenSupply(a)' > ATokenSupply(a)
              \/ (StableSupply(a) + VariableSupply(a))' > StableSupply(a) + VariableSupply(a)
           => Interest \/ Backing]_vars
  BY <1>1 DEF Owed
<1>3. QED
  BY <1>2, Invariance, ReservesStaySolvent, PTL DEF Spec, FrozenTakesNothing

-----------------------------------------------------------------------------
(* Reserves out of use.                                                     *)

Idle(a) == ~(reserve[a].listed /\ config[a].active)

\* Nobody holds, and nobody owes, when the supplies are zero.
LEMMA ZeroSupplies ==
  ASSUME TypeOK, NEW a \in Assets
  PROVE  NobodyHolds(a) /\ NobodyOwes(a) <=> ATokenSupply(a) = 0 /\ Owed(a) = 0
<1>1. account \in [Accounts -> Account]
  BY DEF TypeOK
<1>2. QED
  BY <1>1, NothingToSum, SumsAreSupplies DEF NobodyHolds, NobodyOwes

LEMMA ZeroSuppliesNext ==
  ASSUME TypeOK', NEW a \in Assets
  PROVE  NobodyHolds(a)' /\ NobodyOwes(a)' <=> ATokenSupply(a)' = 0 /\ Owed(a)' = 0
<1>1. account' \in [Accounts -> Account]
  BY DEF TypeOK
<1>2. QED
  BY <1>1, NothingToSum, SumsAreSupplies DEF NobodyHolds, NobodyOwes

\* Without claims on a solvent reserve nothing is owed to it.
LEMMA UnclaimedIsUnowed ==
  ASSUME IndInv, Solvent, NEW a \in Assets, NobodyHolds(a)
  PROVE  ATokenSupply(a) = 0 /\ Owed(a) = 0
<1>1. account \in [Accounts -> Account]
  BY DEF IndInv, TypeOK
<1>2. ATokenSupply(a) = 0
  BY <1>1, NothingToSum, SumsAreSupplies DEF NobodyHolds
<1>3. /\ liquidity[a] \in Nat /\ reserve[a].unbacked \in Nat
      /\ StableSupply(a) \in Nat /\ VariableSupply(a) \in Nat
  <2>1. Stable(account, a) \in Nat /\ Variable(account, a) \in Nat
    BY <1>1, SumsOfBalances
  <2>2. QED
    BY <2>1, SuppliesAreNat DEF IndInv, StableSupply, VariableSupply, Stable, Variable
<1>4. QED
  BY <1>2, <1>3 DEF Solvent, Owed

LEMMA IsolationKeepsListing ==
  ASSUME TypeOK, NEW p, NEW n, reserve' = ChargeIsolation(p, n) \/ reserve' = ReleaseIsolation(p, n),
         NEW b \in Assets
  PROVE  reserve'[b].listed = reserve[b].listed /\ reserve'[b].id = reserve[b].id
<1> DEFINE c == IsolationAsset(p)
<1> HIDE DEF c
<1>1. \/ reserve' = reserve
      \/ \E m : reserve' = [reserve EXCEPT ![c].isolationDebt = m]
  BY DEF ChargeIsolation, ReleaseIsolation, c
<1>2. QED
  BY <1>1 DEF TypeOK, ReserveData

\* No call of a user, and no interest, puts a reserve out of use or into it.
LEMMA CallsKeepUse ==
  ASSUME IndInv, UserNext \/ Interest
  PROVE  /\ config' = config
         /\ \A b \in Assets : reserve'[b].listed = reserve[b].listed /\ reserve'[b].id = reserve[b].id
<1> USE DEF unchangedConfig
<1>1. CASE SupplySide \/ EfficiencyMode \/ Interest
  BY <1>1 DEF SupplySide, Supply, Withdraw, Transfer, SetUserUseReserveAsCollateral,
              EfficiencyMode, SetUserEMode, Interest, Accrue
<1>2. CASE DebtSide
  <2>1. /\ config' = config
        /\ \/ reserve' = reserve
           \/ \E p, n : reserve' = ChargeIsolation(p, n) \/ reserve' = ReleaseIsolation(p, n)
    BY <1>2 DEF DebtSide, Borrow, Repay, RepayWithATokens, SwapBorrowRateMode
  <2>2. QED
    BY <2>1, IsolationKeepsListing DEF IndInv
<1>3. CASE Liquidations
  <2>1. config' = config /\ \E p, n : reserve' = ReleaseIsolation(p, n)
    BY <1>3 DEF Liquidations, LiquidationCall
  <2>2. QED
    BY <2>1, IsolationKeepsListing DEF IndInv
<1>4. CASE UnbackedMints \/ Backing
  <2>1. config' = config /\ \E a \in Assets : \E m : reserve' = [reserve EXCEPT ![a].unbacked = m]
    BY <1>4 DEF UnbackedMints, MintUnbacked, Backing, BackUnbacked
  <2>2. QED
    BY <2>1 DEF IndInv, TypeOK, ReserveData
<1>5. QED
  BY <1>1, <1>2, <1>3, <1>4 DEF UserNext

\* The administration puts a reserve out of use only when nobody holds it.
LEMMA SettersKeepUse ==
  ASSUME IndInv, RiskParameters \/ Switches \/ CategoryParameters, NEW b \in Assets, Idle(b)'
  PROVE  Idle(b) \/ NobodyHolds(b)
<1>1. config \in [Assets -> ReserveConfig] /\ UNCHANGED reserve
  BY SettersLeaveBooks DEF IndInv, TypeOK
<1>2. ASSUME NEW a \in Assets, NEW c, SetConfig(a, c), c.active = config[a].active \/ c.active
      PROVE  Idle(b)
  BY <1>1, <1>2 DEF SetConfig, Idle
<1>3. ASSUME NEW c \in ReserveConfig, NEW v, NEW w, NEW x
      PROVE  /\ [c EXCEPT !.ltv = v, !.lt = w, !.bonus = x].active = c.active
             /\ [c EXCEPT !.borrowing = TRUE, !.borrowCap = v, !.stableBorrowing = w].active = c.active
             /\ [c EXCEPT !.borrowing = FALSE].active = c.active
             /\ [c EXCEPT !.ceiling = v].active = c.active
             /\ [c EXCEPT !.borrowCap = v].active = c.active
             /\ [c EXCEPT !.supplyCap = v].active = c.active
             /\ [c EXCEPT !.unbackedCap = v].active = c.active
             /\ [c EXCEPT !.stableBorrowing = v].active = c.active
             /\ [c EXCEPT !.isolationBorrowable = v].active = c.active
             /\ [c EXCEPT !.fee = v].active = c.active
             /\ [c EXCEPT !.frozen = v].active = c.active
             /\ [c EXCEPT !.paused = v].active = c.active
             /\ [c EXCEPT !.category = v].active = c.active
             /\ [c EXCEPT !.active = TRUE].active
  BY DEF ReserveConfig
<1>4. CASE RiskParameters
  <2>1. PICK a \in Assets : CollateralParameters(a) \/ LimitParameters(a) \/ FeeParameters(a)
    BY <1>4 DEF RiskParameters
  <2>2. config[a] \in ReserveConfig
    BY <1>1
  <2>3. ASSUME NEW ltv \in Percentages, NEW lt \in Percentages, NEW bonus \in Percentages,
               ConfigureReserveAsCollateral(a, ltv, lt, bonus)
        PROVE  Idle(b)
    <3> DEFINE c == [config[a] EXCEPT !.ltv = ltv, !.lt = lt, !.bonus = bonus]
    <3>1. SetConfig(a, c) /\ c.active = config[a].active
      BY <1>3, <2>2, <2>3 DEF ConfigureReserveAsCollateral
    <3> HIDE DEF c
    <3>2. QED
      BY <1>2, <3>1
  <2>4. ASSUME NEW n \in Limits, NEW on \in BOOLEAN, EnableBorrowingOnReserve(a, n, on)
        PROVE  Idle(b)
    <3> DEFINE c == [config[a] EXCEPT !.borrowing = TRUE, !.borrowCap = n, !.stableBorrowing = on]
    <3>1. SetConfig(a, c) /\ c.active = config[a].active
      BY <1>3, <2>2, <2>4 DEF EnableBorrowingOnReserve
    <3> HIDE DEF c
    <3>2. QED
      BY <1>2, <3>1
  <2>5. CASE \E n \in Limits : SetDebtCeiling(a, n) \/ SetBorrowCap(a, n)
    BY <1>2, <1>3, <2>2, <2>5 DEF SetDebtCeiling, SetBorrowCap
  <2>6. CASE \E n \in Limits : SetSupplyCap(a, n) \/ SetUnbackedMintCap(a, n)
    BY <1>2, <1>3, <2>2, <2>6 DEF SetSupplyCap, SetUnbackedMintCap
  <2>7. CASE \E on \in BOOLEAN : SetReserveStableRate(a, on) \/ SetBorrowableInIsolation(a, on)
    BY <1>2, <1>3, <2>2, <2>7 DEF SetReserveStableRate, SetBorrowableInIsolation
  <2>8. CASE FeeParameters(a)
    BY <1>2, <1>3, <2>2, <2>8 DEF FeeParameters, SetLiquidationProtocolFee
  <2>9. QED
    BY <2>1, <2>3, <2>4, <2>5, <2>6, <2>7, <2>8 DEF CollateralParameters, LimitParameters
<1>5. ASSUME NEW a \in Assets,
             \/ ActivateReserve(a) \/ DisableBorrowingOnReserve(a)
             \/ \E on \in BOOLEAN : SetReserveFreeze(a, on) \/ SetReservePause(a, on)
             \/ \E c \in Categories \cup {0} : SetAssetEModeCategory(a, c)
      PROVE  Idle(b)
  <2>1. config[a] \in ReserveConfig
    BY <1>1
  <2>2. QED
    BY <1>2, <1>3, <1>5, <2>1
       DEF ActivateReserve, DisableBorrowingOnReserve, SetReserveFreeze, SetReservePause,
           SetAssetEModeCategory
<1>6. ASSUME NEW a \in Assets, DeactivateReserve(a)
      PROVE  Idle(b) \/ NobodyHolds(b)
  <2>1. CASE a = b
    BY <1>6, <2>1 DEF DeactivateReserve, NoDepositors
  <2>2. CASE a # b
    BY <1>1, <1>6, <2>2 DEF DeactivateReserve, SetConfig, Idle
  <2>3. QED
    BY <2>1, <2>2
<1>7. ASSUME NEW on \in BOOLEAN, SetPoolPause(on)
      PROVE  Idle(b)
  <2>1. config'[b] \in {config[b], [config[b] EXCEPT !.paused = on]}
    BY <1>7 DEF SetPoolPause
  <2>2. config'[b].active = config[b].active
    BY <1>1, <2>1 DEF ReserveConfig
  <2>3. QED
    BY <1>1, <2>2 DEF Idle
<1>8. ASSUME NEW c \in Categories, NEW ltv, NEW lt, NEW bonus, NEW f,
             SetEModeCategory(c, ltv, lt, bonus, f)
      PROVE  Idle(b)
  BY <1>1, <1>8 DEF SetEModeCategory, Idle
<1>9. QED
  BY <1>4, <1>5, <1>6, <1>7, <1>8 DEF Switches, CategoryParameters

LEMMA ListingKeepsUse ==
  ASSUME IndInv, Listing, NEW b \in Assets, Idle(b)'
  PROVE  Idle(b) \/ (NobodyHolds(b) /\ NobodyOwes(b))
<1>1. ASSUME NEW a \in Assets, InitReserve(a)
      PROVE  Idle(b)
  <2>1. CASE a = b
    BY <1>1, <2>1 DEF InitReserve, Idle
  <2>2. CASE a # b
    <3>1. reserve'[b] = reserve[b] /\ config'[b] = config[b]
      BY <1>1, <2>2 DEF InitReserve, IndInv, TypeOK
    <3>2. QED
      BY <3>1 DEF Idle
  <2>3. QED
    BY <2>1, <2>2
<1>2. ASSUME NEW a \in Assets, DropReserve(a)
      PROVE  Idle(b) \/ (NobodyHolds(b) /\ NobodyOwes(b))
  <2>1. CASE a = b
    BY <1>2, <2>1 DEF DropReserve, ValidateDropReserve
  <2>2. CASE a # b
    <3>1. reserve'[b] = reserve[b] /\ config'[b] = config[b]
      BY <1>2, <2>2 DEF DropReserve, IndInv, TypeOK
    <3>2. QED
      BY <3>1 DEF Idle
  <2>3. QED
    BY <2>1, <2>2
<1>3. QED
  BY <1>1, <1>2 DEF Listing

\* An empty reserve out of use is left alone by everything that moves money.
LEMMA IdleStaysEmpty ==
  ASSUME IndInv, IndInv', Solvent, [Next]_vars, NEW b \in Assets,
         Idle(b), NobodyHolds(b), NobodyOwes(b)
  PROVE  NobodyHolds(b)' /\ NobodyOwes(b)'
<1>1. ATokenSupply(b) = 0 /\ Owed(b) = 0
  BY ZeroSupplies DEF IndInv
<1>2. ATokenSupply(b)' \in Nat /\ Owed(b)' \in Nat
  BY SuppliesStayNat DEF IndInv
<1>3. SUFFICES ATokenSupply(b)' = 0 /\ Owed(b)' = 0
  BY ZeroSuppliesNext DEF IndInv
<1>4. CASE Interest
  <2>1. PICK u \in Users, x \in Accounts, a \in Assets, mode \in Modes : Accrue(u, x, a, mode)
    BY <1>4 DEF Interest
  <2>2. a # b
    <3>1. account[u][mode][a] > 0 /\ u \in Accounts
      BY <2>1 DEF Accrue, Accounts
    <3>2. account[u]["stable"][b] = 0 /\ account[u]["variable"][b] = 0
      BY <3>1 DEF NobodyOwes
    <3>3. QED
      BY <3>1, <3>2 DEF Modes
  <2>3. Entered(a, 0, 1, 1, 0)
    BY <2>1, AccrueEntry
  <2>4. ATokenSupply(b)' = ATokenSupply(b) + 0 /\ Owed(b)' = Owed(b) + 0
    BY <2>2, <2>3 DEF Entered, Booked, Only
  <2>5. QED
    BY <1>1, <2>4
<1>5. CASE Backing
  <2>1. PICK a \in Assets, n \in Amounts, fee \in Amounts \cup {0}, x \in Accounts :
          BackUnbacked(a, n, fee, x)
    BY <1>5 DEF Backing
  <2>2. PICK backing \in Nat : Entered(a, backing + fee, fee, 0, -backing)
    BY <2>1, BackUnbackedEntry
  <2>3. fee = 0 \/ a # b
    BY <1>1, <2>1 DEF BackUnbacked
  <2>4. ATokenSupply(b)' = ATokenSupply(b) + 0 /\ Owed(b)' = Owed(b) + 0
    BY <2>2, <2>3 DEF Entered, Booked, Only
  <2>5. QED
    BY <1>1, <2>4
<1>6. CASE ~Interest /\ ~Backing
  <2>1. RisesAreChecked
    BY <1>6, EveryRiseIsChecked
  <2>2. ~Open(b) \/ ~reserve[b].listed
    BY DEF Idle, Open, Active
  <2>3. ~(ATokenSupply(b)' > 0) /\ ~(Owed(b)' > 0)
    BY <1>1, <2>1, <2>2 DEF RisesAreChecked, MayRaiseClaims, MayRaiseOwed, Open, Active, Idle
  <2>4. QED
    BY <1>2, <2>3
<1>7. QED
  BY <1>4, <1>5, <1>6

\* A reserve comes out of use only when it is empty.
LEMMA OutOfUseIsEmpty ==
  ASSUME IndInv, IndInv', Solvent, [Next]_vars, NEW b \in Assets, Idle(b)', ~Idle(b)
  PROVE  NobodyHolds(b)' /\ NobodyOwes(b)'
<1>1. CASE UserNext \/ Interest
  BY <1>1, CallsKeepUse DEF Idle
<1>2. CASE Market \/ UNCHANGED vars
  BY <1>2 DEF Market, SetPrice, ToggleSentinel, unchangedConfig, vars, Idle
<1>3. CASE RiskParameters \/ Switches \/ CategoryParameters
  <2>1. NobodyHolds(b)
    BY <1>3, SettersKeepUse
  <2>2. NobodyOwes(b)
    BY <2>1, UnclaimedIsUnowed, ZeroSupplies DEF IndInv
  <2>3. QED
    BY <1>3, <2>1, <2>2, SettersLeaveBooks DEF NobodyHolds, NobodyOwes
<1>4. CASE Listing
  <2>1. NobodyHolds(b) /\ NobodyOwes(b)
    BY <1>4, ListingKeepsUse
  <2>2. UNCHANGED account
    BY <1>4 DEF Listing, InitReserve, DropReserve, unchangedPositions
  <2>3. QED
    BY <2>1, <2>2 DEF NobodyHolds, NobodyOwes
<1>5. QED
  BY <1>1, <1>2, <1>3, <1>4 DEF Next, AdminNext

\* A reserve that is deactivated or does not exist holds nobody's money and nobody's
\* debt.  deactivateReserve only asks for the aTokens: it is the solvency of the
\* reserve that makes a reserve without aTokens one without debts.
THEOREM IdleReservesAreEmpty == Spec => []InactiveIsEmpty
<1>1. Init => InactiveIsEmpty
  BY DEF Init, InactiveIsEmpty, NobodyHolds, NobodyOwes, NoPosition
<1>2. IndInv /\ IndInv' /\ Solvent /\ InactiveIsEmpty /\ [Next]_vars => InactiveIsEmpty'
  <2>1. ASSUME IndInv, IndInv', Solvent, InactiveIsEmpty, [Next]_vars, NEW b \in Assets, Idle(b)'
        PROVE  NobodyHolds(b)' /\ NobodyOwes(b)'
    <3>1. CASE Idle(b)
      <4>1. NobodyHolds(b) /\ NobodyOwes(b)
        BY <2>1, <3>1 DEF InactiveIsEmpty, Idle
      <4>2. QED
        BY <2>1, <3>1, <4>1, IdleStaysEmpty
    <3>2. CASE ~Idle(b)
      BY <2>1, <3>2, OutOfUseIsEmpty
    <3>3. QED
      BY <3>1, <3>2
  <2>2. QED
    BY <2>1 DEF InactiveIsEmpty, Idle
<1>3. QED
  BY <1>1, <1>2, Invariance, ReservesStaySolvent, PTL DEF Spec

-----------------------------------------------------------------------------
(* Sums over the users that stand on an asset.                               *)

\* The sum of what those who stand on c contribute.
SumOn(on, share, c) == SumFunction([x \in {x \in Users : on[x] = c} |-> share[x]])

CountedOn(on, share, c) == [x \in Users |-> IF on[x] = c THEN share[x] ELSE 0]

LEMMA SumOnIsSum ==
  ASSUME NEW on, NEW share \in [Users -> Nat], NEW c
  PROVE  /\ SumOn(on, share, c) = SumFunctionOnSet(CountedOn(on, share, c), Users)
         /\ SumOn(on, share, c) \in Nat
         /\ \A x \in Users : CountedOn(on, share, c)[x] \in Nat
<1> DEFINE R == {x \in Users : on[x] = c}
           f == [x \in R |-> share[x]]
           g == CountedOn(on, share, c)
<1>1. IsFiniteSet(Users) /\ IsFiniteSet(R) /\ R \in SUBSET Users
  BY AddressesAssumption, FS_Subset
<1>2. /\ \A x \in Users : g[x] \in Nat
      /\ \A x \in R : f[x] = g[x]
      /\ \A x \in Users \ R : g[x] = 0
  BY DEF CountedOn
<1>3. SumOn(on, share, c) = SumFunctionOnSet(f, R)
  BY DEF SumOn, SumFunction, SumFunctionOnSet, FoldFunction
<1> HIDE DEF R, f, g
<1>4. SumFunctionOnSet(f, R) = SumFunctionOnSet(g, R)
  BY <1>1, <1>2, SumOfEquals
<1>5. SumFunctionOnSet(g, R) = SumFunctionOnSet(g, Users)
  BY <1>1, <1>2, SumOfSubset
<1>6. SumFunctionOnSet(g, Users) \in Nat
  BY <1>1, <1>2, SumIsNat
<1>7. QED
  BY <1>2, <1>3, <1>4, <1>5, <1>6 DEF g

\* Nobody's share changes, and whoever comes to stand on c contributes nothing.
LEMMA SharesStay ==
  ASSUME NEW on, NEW onNext, NEW share \in [Users -> Nat], NEW c,
         \A x \in Users : onNext[x] = c /\ on[x] # c => share[x] = 0
  PROVE  /\ SumOn(onNext, share, c) <= SumOn(on, share, c)
         /\ (\A x \in Users : on[x] = c /\ onNext[x] # c => share[x] = 0) =>
              SumOn(onNext, share, c) = SumOn(on, share, c)
<1> DEFINE f == CountedOn(on, share, c)
           g == CountedOn(onNext, share, c)
<1>1. /\ SumOn(on, share, c) = SumFunctionOnSet(f, Users)
      /\ SumOn(onNext, share, c) = SumFunctionOnSet(g, Users)
      /\ \A x \in Users : f[x] \in Nat /\ g[x] \in Nat
      /\ IsFiniteSet(Users)
  BY SumOnIsSum, AddressesAssumption
<1>2. \A x \in Users : g[x] <= f[x]
  BY DEF CountedOn
<1>3. ASSUME \A x \in Users : on[x] = c /\ onNext[x] # c => share[x] = 0
      PROVE  \A x \in Users : g[x] = f[x]
  BY <1>3 DEF CountedOn
<1> HIDE DEF f, g
<1>4. SumFunctionOnSet(g, Users) <= SumFunctionOnSet(f, Users)
  BY <1>1, <1>2, SumGrows
<1>5. (\A x \in Users : g[x] = f[x]) => SumFunctionOnSet(g, Users) = SumFunctionOnSet(f, Users)
  BY <1>1, SumOfEquals
<1>6. QED
  BY <1>1, <1>3, <1>4, <1>5

\* Only the share of u moves.
LEMMA OneShareMoves ==
  ASSUME NEW on, NEW onNext, NEW share \in [Users -> Nat], NEW next \in [Users -> Nat], NEW c,
         NEW u \in Users, \A x \in Users : x # u => next[x] = share[x],
         \A x \in Users : onNext[x] = c /\ on[x] # c => next[x] = 0
  PROVE  /\ SumOn(onNext, next, c) <= SumOn(on, next, c)
         /\ (\A x \in Users : on[x] = c /\ onNext[x] # c => next[x] = 0) =>
              SumOn(onNext, next, c) = SumOn(on, next, c)
         /\ on[u] = c => SumOn(on, next, c) = SumOn(on, share, c) + (next[u] - share[u])
         /\ on[u] # c => SumOn(on, next, c) = SumOn(on, share, c)
         /\ SumOn(on, next, c) \in Nat /\ SumOn(on, share, c) \in Nat
<1> DEFINE f == CountedOn(on, share, c)
           g == CountedOn(on, next, c)
<1>1. /\ SumOn(on, share, c) = SumFunctionOnSet(f, Users)
      /\ SumOn(on, next, c) = SumFunctionOnSet(g, Users)
      /\ \A x \in Users : f[x] \in Nat /\ g[x] \in Nat
      /\ IsFiniteSet(Users) /\ SumOn(on, share, c) \in Nat /\ SumOn(on, next, c) \in Nat
  BY SumOnIsSum, AddressesAssumption
<1>2. /\ \A x \in Users : x # u => g[x] = f[x]
      /\ on[u] = c => g[u] - f[u] = next[u] - share[u]
      /\ on[u] # c => g[u] - f[u] = 0
  BY DEF CountedOn
<1> HIDE DEF f, g
<1>3. SumFunctionOnSet(g, Users) = SumFunctionOnSet(f, Users) + (g[u] - f[u])
  BY <1>1, <1>2, SumWithOneChanged
<1>4. /\ on[u] = c => SumOn(on, next, c) = SumOn(on, share, c) + (next[u] - share[u])
      /\ on[u] # c => SumOn(on, next, c) = SumOn(on, share, c)
  BY <1>1, <1>2, <1>3
<1>5. /\ SumOn(onNext, next, c) <= SumOn(on, next, c)
      /\ (\A x \in Users : on[x] = c /\ onNext[x] # c => next[x] = 0) =>
              SumOn(onNext, next, c) = SumOn(on, next, c)
  BY SharesStay
<1>6. QED
  BY <1>1, <1>4, <1>5

\* Nobody who stands on c contributes anything.
LEMMA NobodyOn ==
  ASSUME NEW on, NEW share \in [Users -> Nat], NEW c,
         \A x \in Users : on[x] = c => share[x] = 0
  PROVE  SumOn(on, share, c) = 0
<1> DEFINE f == CountedOn(on, share, c)
<1>1. \A x \in Users : f[x] = 0 /\ f[x] \in Nat
  BY DEF CountedOn
<1>2. SumOn(on, share, c) = SumFunctionOnSet(f, Users) /\ IsFiniteSet(Users)
  BY SumOnIsSum, AddressesAssumption
<1> HIDE DEF f
<1>3. QED
  BY <1>1, <1>2, SumOfZeros

-----------------------------------------------------------------------------
(* Which debts a step moves.                                                *)

\* Nobody's debt moves.
DebtsStay(before, after) ==
  \A x \in Accounts, b \in Assets : DebtOf(after[x], b) = DebtOf(before[x], b)

\* The debt of u in a moves by n, and no other debt.
DebtMoves(before, after, u, a, n) ==
  \A x \in Accounts, b \in Assets :
    DebtOf(after[x], b) = DebtOf(before[x], b) + (IF x = u THEN Only(a, b, n) ELSE 0)

\* What a step may do to debts and to the counters of isolated debt.
Lent(u, a, n) ==
  /\ DebtMoves(account, account', u, a, n)
  /\ ValidateIsolation(account[u], a, n)
  /\ reserve' = ChargeIsolation(account[u], n) /\ config' = config
Paid(u, a, n) ==
  /\ DebtMoves(account, account', u, a, -n) /\ n <= DebtOf(account[u], a)
  /\ reserve' = ReleaseIsolation(account[u], n) /\ config' = config
Accrued(u, a) ==
  /\ DebtMoves(account, account', u, a, 1)
  /\ reserve' = reserve /\ config' = config
  /\ \E x \in Accounts, mode \in Modes : Accrue(u, x, a, mode)
NothingOwed ==
  /\ DebtsStay(account, account')
  /\ \A c \in Assets :
       \/ reserve'[c].isolationDebt = reserve[c].isolationDebt
       \/ reserve'[c].isolationDebt = 0 /\ config'[c].ceiling = 0

\* A new position that owes n more is one debt that moves.
LEMMA OneDebtMoves ==
  ASSUME NEW accounts \in [Accounts -> Account], NEW u \in Accounts, NEW a \in Assets,
         NEW n \in Int, NEW claims, NEW q, Moves(accounts[u], q, a, claims, n)
  PROVE  DebtMoves(accounts, [accounts EXCEPT ![u] = q], u, a, n)
<1>1. \A x \in Accounts, b \in Assets : DebtOf(accounts[x], b) \in Nat
  BY DEF Account, DebtOf
<1>2. QED
  BY <1>1 DEF DebtMoves, Moves

LEMMA OneStays ==
  ASSUME NEW accounts, NEW u, NEW q, DOMAIN accounts = Accounts,
         \A b \in Assets : DebtOf(q, b) = DebtOf(accounts[u], b)
  PROVE  DebtsStay(accounts, [accounts EXCEPT ![u] = q])
         /\ DOMAIN [accounts EXCEPT ![u] = q] = Accounts
  BY DEF DebtsStay

LEMMA StaysTwice ==
  ASSUME NEW before, NEW mid, NEW after, DebtsStay(mid, after)
  PROVE  /\ DebtsStay(before, mid) => DebtsStay(before, after)
         /\ \A u, a, n : DebtMoves(before, mid, u, a, n) => DebtMoves(before, after, u, a, n)
  BY DEF DebtsStay, DebtMoves

\* Receiving and giving up aTokens, and flags, leave the debts of a position.
LEMMA PlainDebts ==
  ASSUME NEW p \in Account, NEW a \in Assets, NEW n
  PROVE  /\ \A b \in Assets : DebtOf(MintAToken(p, a, n), b) = DebtOf(p, b)
         /\ \A b \in Assets : DebtOf(BurnAToken(p, a, n), b) = DebtOf(p, b)
         /\ \A b \in Assets : DebtOf(SupplyTo(p, a, n), b) = DebtOf(p, b)
         /\ \A b \in Assets : DebtOf(GiveUp(p, a, n), b) = DebtOf(p, b)
         /\ \A b \in Assets : DebtOf(ReceiveTransfer(p, a, n), b) = DebtOf(p, b)
         /\ \A b \in Assets : DebtOf(MintUnbackedTo(p, a, n), b) = DebtOf(p, b)
         /\ \A first : \A b \in Assets : DebtOf(ReceiveLiquidated(p, a, n, first), b) = DebtOf(p, b)
         /\ \A on : \A b \in Assets : DebtOf(SetUsingAsCollateral(p, a, on), b) = DebtOf(p, b)
         /\ \A c : \A b \in Assets : DebtOf([p EXCEPT !.eMode = c], b) = DebtOf(p, b)
<1>1. \A r, on : /\ SetUsingAsCollateral(r, a, on).stable = r.stable
                 /\ SetUsingAsCollateral(r, a, on).variable = r.variable
  BY DEF SetUsingAsCollateral
<1> DEFINE q == MintAToken(p, a, n)
           r == BurnAToken(p, a, n)
<1>2. q.stable = p.stable /\ q.variable = p.variable /\ r.stable = p.stable /\ r.variable = p.variable
  BY DEF Account, MintAToken, BurnAToken
<1> HIDE DEF q, r
<1>3. QED
  BY <1>1, <1>2
     DEF q, r, SupplyTo, GiveUp, ReceiveTransfer, MintUnbackedTo, ReceiveLiquidated, DebtOf, Account

LEMMA OneAccountStays ==
  ASSUME IndInv, NEW u \in Accounts, NEW q, account' = [account EXCEPT ![u] = q],
         \A b \in Assets : DebtOf(q, b) = DebtOf(account[u], b), reserve' = reserve
  PROVE  NothingOwed
<1>1. DOMAIN account = Accounts
  BY DEF IndInv, TypeOK
<1>2. QED
  BY <1>1, OneStays DEF NothingOwed

LEMMA UsersAreAccounts == \A u \in Users : u \in Accounts
  BY DEF Accounts

\* The calls, one lemma for each.
LEMMA SupplySideOwesNothing ==
  ASSUME IndInv, SupplySide
  PROVE  NothingOwed
<1> PICK u \in Users, a \in Assets :
      \/ \E n \in Amounts : Supply(u, a, n)
      \/ \E n \in Amounts \cup {account[u].aToken[a]} : Withdraw(u, a, n)
      \/ \E to \in Accounts, n \in Amounts \cup {account[u].aToken[a]} : Transfer(u, to, a, n)
      \/ \E use \in BOOLEAN : SetUserUseReserveAsCollateral(u, a, use)
  BY DEF SupplySide
<1>1. u \in Accounts /\ account \in [Accounts -> Account] /\ account[u] \in Account
  BY UsersAreAccounts DEF IndInv, TypeOK
<1>2. ASSUME NEW n, Supply(u, a, n)
      PROVE  NothingOwed
  <2> DEFINE q == SupplyTo(account[u], a, n)
  <2>1. \A b \in Assets : DebtOf(q, b) = DebtOf(account[u], b)
    BY <1>1, PlainDebts
  <2>2. account' = [account EXCEPT ![u] = q] /\ reserve' = reserve
    BY <1>2 DEF Supply
  <2> HIDE DEF q
  <2>3. QED
    BY <1>1, <2>1, <2>2, OneAccountStays
<1>3. ASSUME NEW n, Withdraw(u, a, n)
      PROVE  NothingOwed
  <2> DEFINE q == GiveUp(account[u], a, n)
  <2>1. \A b \in Assets : DebtOf(q, b) = DebtOf(account[u], b)
    BY <1>1, PlainDebts
  <2>2. account' = [account EXCEPT ![u] = q] /\ reserve' = reserve
    BY <1>3 DEF Withdraw
  <2> HIDE DEF q
  <2>3. QED
    BY <1>1, <2>1, <2>2, OneAccountStays
<1>4. ASSUME NEW to \in Accounts, NEW n, Transfer(u, to, a, n)
      PROVE  NothingOwed
  <2> DEFINE given == GiveUp(account[u], a, n)
             taken == ReceiveTransfer(account[to], a, n)
             mid   == [account EXCEPT ![u] = given]
  <2>1. /\ account' = [mid EXCEPT ![to] = taken] /\ mid[to] = account[to]
        /\ reserve' = reserve
    BY <1>1, <1>4 DEF Transfer
  <2>2. /\ \A b \in Assets : DebtOf(given, b) = DebtOf(account[u], b)
        /\ \A b \in Assets : DebtOf(taken, b) = DebtOf(account[to], b)
    BY <1>1, <1>4, PlainDebts
  <2> HIDE DEF given, taken
  <2>3. DebtsStay(account, mid) /\ DOMAIN mid = Accounts
    BY <1>1, <2>2, OneStays
  <2> HIDE DEF mid
  <2>4. DebtsStay(mid, account')
    BY <2>1, <2>2, <2>3, OneStays
  <2>5. QED
    BY <2>1, <2>3, <2>4, StaysTwice DEF NothingOwed
<1>5. ASSUME NEW use \in BOOLEAN, SetUserUseReserveAsCollateral(u, a, use)
      PROVE  NothingOwed
  <2> DEFINE q == SetUsingAsCollateral(account[u], a, use)
  <2>1. \A b \in Assets : DebtOf(q, b) = DebtOf(account[u], b)
    BY <1>1, PlainDebts
  <2>2. account' = [account EXCEPT ![u] = q] /\ reserve' = reserve
    BY <1>5 DEF SetUserUseReserveAsCollateral
  <2> HIDE DEF q
  <2>3. QED
    BY <1>1, <2>1, <2>2, OneAccountStays
<1>6. QED
  BY <1>2, <1>3, <1>4, <1>5

LEMMA BorrowIsLent ==
  ASSUME IndInv, NEW u \in Users, NEW a \in Assets, NEW n \in Amounts, NEW mode \in Modes,
         Borrow(u, a, n, mode)
  PROVE  n \in Nat \ {0} /\ Lent(u, a, n)
<1> DEFINE q == BorrowFor(account[u], a, n, mode)
<1>1. u \in Accounts /\ account \in [Accounts -> Account] /\ account[u] \in Account /\ n \in Nat
  BY UsersAreAccounts, InputsAssumption DEF IndInv, TypeOK
<1>2. /\ account' = [account EXCEPT ![u] = q] /\ reserve' = ChargeIsolation(account[u], n)
      /\ config' = config /\ reserve[a].listed /\ n # 0 /\ ValidateIsolation(account[u], a, n)
  BY DEF Borrow, ValidateBorrow, Active, unchangedConfig
<1>3. Moves(account[u], q, a, 0, n)
  BY <1>1, <1>2, BorrowForMoves, ListedIds DEF IndInv
<1> HIDE DEF q
<1>4. n \in Int
  BY <1>1
<1>5. QED
  BY <1>1, <1>2, <1>3, <1>4, OneDebtMoves DEF Lent

LEMMA RepayIsPaid ==
  ASSUME IndInv, NEW u \in Users, NEW a \in Assets, NEW mode \in Modes,
         NEW n \in Amounts \cup {account[u][mode][a]}, Repay(u, a, n, mode)
  PROVE  \E k \in Nat : Paid(u, a, k)
<1> DEFINE k == Payback(account[u], a, n, mode)
           q == RepayOf(account[u], a, k, mode)
           m == -k
<1>1. u \in Accounts /\ account \in [Accounts -> Account] /\ account[u] \in Account
  BY UsersAreAccounts DEF IndInv, TypeOK
<1>2. k \in Nat /\ k \in 0 .. account[u][mode][a]
  BY <1>1, PaybackIsOwed
<1>3. /\ account' = [account EXCEPT ![u] = q] /\ reserve' = ReleaseIsolation(account[u], k)
      /\ config' = config
  BY DEF Repay, unchangedConfig
<1> HIDE DEF k
<1>4. Moves(account[u], q, a, 0, m) /\ m \in Int
  BY <1>1, <1>2, RepayOfMoves
<1>5. k <= DebtOf(account[u], a)
  BY <1>1, <1>2 DEF Account, DebtOf, Modes
<1> HIDE DEF q, m
<1>6. DebtMoves(account, account', u, a, m)
  BY <1>1, <1>3, <1>4, OneDebtMoves
<1>7. QED
  BY <1>2, <1>3, <1>5, <1>6 DEF Paid, m

LEMMA RepayWithATokensIsPaid ==
  ASSUME IndInv, NEW sender \in Users, NEW u \in Users, NEW a \in Assets, NEW mode \in Modes,
         NEW n \in Amounts \cup {account[u][mode][a]}, RepayWithATokens(sender, u, a, n, mode)
  PROVE  \E k \in Nat : Paid(u, a, k)
<1> DEFINE k == Payback(account[u], a, n, mode)
           q == RepayOf(account[u], a, k, mode)
           m == -k
           mid == [account EXCEPT ![u] = q]
           r == BurnAToken(mid[sender], a, k)
<1>1. /\ u \in Accounts /\ sender \in Accounts /\ account \in [Accounts -> Account]
      /\ account[u] \in Account
  BY UsersAreAccounts DEF IndInv, TypeOK
<1>2. k \in Nat /\ k \in 0 .. account[u][mode][a]
  BY <1>1, PaybackIsOwed
<1>3. /\ account' = [mid EXCEPT ![sender] = r] /\ reserve' = ReleaseIsolation(account[u], k)
      /\ config' = config
  BY DEF RepayWithATokens, unchangedConfig
<1> HIDE DEF k
<1>4. Moves(account[u], q, a, 0, m) /\ m \in Int
  BY <1>1, <1>2, RepayOfMoves
<1>5. k <= DebtOf(account[u], a)
  BY <1>1, <1>2 DEF Account, DebtOf, Modes
<1> HIDE DEF q, m
<1>6. DebtMoves(account, mid, u, a, m) /\ DOMAIN mid = Accounts /\ mid[sender] \in Account
  BY <1>1, <1>4, OneDebtMoves DEF Moves
<1> HIDE DEF mid
<1>7. \A b \in Assets : DebtOf(r, b) = DebtOf(mid[sender], b)
  BY <1>6, PlainDebts
<1> HIDE DEF r
<1>8. DebtsStay(mid, account')
  BY <1>3, <1>6, <1>7, OneStays
<1>9. DebtMoves(account, account', u, a, m)
  BY <1>6, <1>8, StaysTwice
<1>10. QED
  BY <1>2, <1>3, <1>5, <1>9 DEF Paid, m

LEMMA SwapOwesNothing ==
  ASSUME IndInv, NEW u \in Users, NEW a \in Assets, NEW mode \in Modes,
         SwapBorrowRateMode(u, a, mode)
  PROVE  NothingOwed
<1> DEFINE debt == account[u][mode][a]
           q    == MintDebt(BurnDebt(account[u], a, debt, mode), a, debt, OtherMode(mode))
<1>1. u \in Accounts /\ account[u] \in Account
  BY UsersAreAccounts DEF IndInv, TypeOK
<1>2. Moves(account[u], q, a, 0, 0)
  BY <1>1, SwapMovesNothing
<1>3. account' = [account EXCEPT ![u] = q] /\ reserve' = reserve
  BY DEF SwapBorrowRateMode
<1> HIDE DEF q
<1>4. \A b \in Assets : DebtOf(q, b) = DebtOf(account[u], b)
  BY <1>1, <1>2 DEF Moves, Only, Account, DebtOf
<1>5. QED
  BY <1>1, <1>3, <1>4, OneAccountStays

\* The liquidator's own debts stay.
LEMMA ReceivedDebts ==
  ASSUME NEW p \in Account, NEW a \in Assets, NEW n, NEW none
  PROVE  \A b \in Assets : DebtOf(ReceiveLiquidated(p, a, n, none), b) = DebtOf(p, b)
  BY PlainDebts

LEMMA LiquidationIsPaid ==
  ASSUME IndInv, NEW l \in Users, NEW u \in Users, NEW c \in Assets, NEW d \in Assets,
         NEW n \in Amounts, NEW receive \in BOOLEAN, LiquidationCall(l, u, c, d, n, receive)
  PROVE  \E k \in Nat : Paid(u, d, k)
<1> DEFINE p     == account[u]
           terms == Terms(p, c, d, n)
           toLiquidator == terms.seized - terms.fee
           first == account[l].aToken[c] = 0
           all   == toLiquidator = p.aToken[c]
           got   == ReceiveLiquidated(account[l], c, toLiquidator, first)
           received == IF receive THEN [account EXCEPT ![l] = got] ELSE account
           q     == LiquidatedPosition(received[u], c, d, terms, all)
           taken == [received EXCEPT ![u] = q]
           fed   == MintAToken(taken[Treasury], c, terms.fee)
           k     == terms.debt
           m     == -k
<1>1. /\ l \in Accounts /\ u \in Accounts /\ Treasury \in Accounts /\ n \in Nat
      /\ account \in [Accounts -> Account] /\ p \in Account
  BY InputsAssumption DEF Accounts, IndInv, TypeOK
<1>2. /\ reserve[c].listed /\ config[c].lt > 0 /\ PricesAllow(c, d)
      /\ k <= DebtOf(p, d) /\ terms.fee <= terms.seized
      /\ account' = [taken EXCEPT ![Treasury] = fed]
      /\ reserve' = ReleaseIsolation(p, k) /\ config' = config
  BY DEF LiquidationCall, ValidateLiquidationCall, Active, unchangedConfig
<1>3. terms.seized \in 0 .. p.aToken[c] /\ terms.fee \in Nat /\ k \in Nat
  BY <1>1, <1>2, LiquidationInputs
<1>4. p.aToken[c] \in Nat /\ DebtOf(p, d) \in Nat /\ Id(c) \in Ids
  BY <1>1, <1>2, Balances, ListedIds DEF IndInv
<1> HIDE DEF terms
<1>5. toLiquidator \in Nat /\ first \in BOOLEAN /\ all \in BOOLEAN /\ account[l] \in Account
  BY <1>1, <1>2, <1>3, <1>4
<1> HIDE DEF toLiquidator, first, all
<1>6. Moves(account[l], got, c, toLiquidator, 0)
  BY <1>4, <1>5, ReceivingMoves
<1>7. /\ got \in Account /\ \A b \in Assets : DebtOf(got, b) = DebtOf(account[l], b)
      /\ got.aToken[c] >= account[l].aToken[c]
  <2>1. \A b \in Assets : DebtOf(got, b) = DebtOf(account[l], b)
    BY <1>5, ReceivedDebts
  <2>2. account[l].aToken[c] \in Nat
    BY <1>5 DEF Account
  <2> HIDE DEF got
  <2>3. got.aToken[c] = account[l].aToken[c] + toLiquidator /\ got \in Account
    BY <1>6 DEF Moves, Only
  <2>4. QED
    BY <1>5, <2>1, <2>2, <2>3
<1> HIDE DEF got
<1>8. received \in [Accounts -> Account] /\ DebtsStay(account, received)
  BY <1>1, <1>7 DEF DebtsStay
<1>9. received[u] \in Account /\ received[u].aToken[c] >= p.aToken[c]
      /\ DebtOf(received[u], d) = DebtOf(p, d)
  BY <1>1, <1>4, <1>7, <1>8 DEF DebtsStay
<1> HIDE DEF received
<1>10. received[u].aToken[c] \in Nat
  BY <1>9 DEF Account
<1>11. k \in 0 .. DebtOf(received[u], d) /\ terms.seized \in 0 .. received[u].aToken[c]
  BY <1>2, <1>3, <1>4, <1>9, <1>10
<1>12. Seizes(received[u], q, c, d, terms.seized, k)
  BY <1>5, <1>9, <1>11, LiquidatedPositionSeizes
<1> HIDE DEF q
<1>13. taken \in [Accounts -> Account] /\ DebtMoves(account, taken, u, d, m)
  <2>1. taken \in [Accounts -> Account]
    BY <1>1, <1>8, <1>12 DEF Seizes
  <2>2. \A x \in Accounts, b \in Assets : DebtOf(account[x], b) \in Nat
    BY <1>1 DEF Account, DebtOf
  <2>3. DebtMoves(received, taken, u, d, m)
    <3>1. \A x \in Accounts, b \in Assets : DebtOf(received[x], b) \in Nat
      BY <1>8, <2>2 DEF DebtsStay
    <3>2. ASSUME NEW x \in Accounts, NEW b \in Assets
          PROVE  DebtOf(taken[x], b) = DebtOf(received[x], b) + (IF x = u THEN Only(d, b, m) ELSE 0)
      <4>1. CASE x = u
        BY <1>1, <1>3, <1>8, <1>12, <3>1, <4>1 DEF Seizes, Only
      <4>2. CASE x # u
        BY <1>1, <1>8, <3>1, <4>2
      <4>3. QED
        BY <4>1, <4>2
    <3>3. QED
      BY <3>2 DEF DebtMoves
  <2>4. QED
    BY <1>8, <2>1, <2>3 DEF DebtMoves, DebtsStay
<1> HIDE DEF taken
<1>14. \A b \in Assets : DebtOf(fed, b) = DebtOf(taken[Treasury], b)
  BY <1>1, <1>13, PlainDebts
<1> HIDE DEF fed
<1>15. DebtsStay(taken, account')
  BY <1>1, <1>2, <1>13, <1>14, OneStays
<1>16. DebtMoves(account, account', u, d, m)
  BY <1>13, <1>15, StaysTwice
<1>17. QED
  BY <1>2, <1>3, <1>16 DEF Paid, m

LEMMA BridgesOweNothing ==
  ASSUME IndInv, UnbackedMints \/ Backing
  PROVE  NothingOwed
<1>1. ASSUME NEW u \in Accounts, NEW q, \A b \in Assets : DebtOf(q, b) = DebtOf(account[u], b),
             account' = [account EXCEPT ![u] = q],
             NEW a \in Assets, NEW n, reserve' = [reserve EXCEPT ![a].unbacked = n]
      PROVE  NothingOwed
  <2>1. DebtsStay(account, account')
    BY <1>1, OneStays DEF IndInv, TypeOK
  <2>2. \A c \in Assets : reserve'[c].isolationDebt = reserve[c].isolationDebt
    BY <1>1 DEF IndInv, TypeOK, ReserveData
  <2>3. QED
    BY <2>1, <2>2 DEF NothingOwed
<1>2. account \in [Accounts -> Account]
  BY DEF IndInv, TypeOK
<1>3. ASSUME NEW u \in Users, NEW a \in Assets, NEW n \in Amounts, MintUnbacked(u, a, n)
      PROVE  NothingOwed
  <2> DEFINE q == MintUnbackedTo(account[u], a, n)
             m == reserve[a].unbacked + n
  <2>1. u \in Accounts /\ \A b \in Assets : DebtOf(q, b) = DebtOf(account[u], b)
    BY <1>2, UsersAreAccounts, PlainDebts
  <2>2. account' = [account EXCEPT ![u] = q] /\ reserve' = [reserve EXCEPT ![a].unbacked = m]
    BY <1>3 DEF MintUnbacked
  <2> HIDE DEF q, m
  <2>3. QED
    BY <1>1, <2>1, <2>2
<1>4. ASSUME NEW a \in Assets, NEW n, NEW fee, NEW x \in Accounts, BackUnbacked(a, n, fee, x)
      PROVE  NothingOwed
  <2> DEFINE q == MintAToken(account[x], a, fee)
             m == reserve[a].unbacked - Least(n, reserve[a].unbacked)
  <2>1. \A b \in Assets : DebtOf(q, b) = DebtOf(account[x], b)
    BY <1>2, PlainDebts
  <2>2. account' = [account EXCEPT ![x] = q] /\ reserve' = [reserve EXCEPT ![a].unbacked = m]
    BY <1>4 DEF BackUnbacked
  <2> HIDE DEF q, m
  <2>3. QED
    BY <1>1, <2>1, <2>2
<1>5. QED
  BY <1>3, <1>4 DEF UnbackedMints, Backing

LEMMA InterestIsAccrued ==
  ASSUME IndInv, NEW u \in Users, NEW x \in Accounts, NEW a \in Assets, NEW mode \in Modes,
         Accrue(u, x, a, mode)
  PROVE  Accrued(u, a)
<1> DEFINE q     == MintDebt(account[u], a, 1, mode)
           owing == [account EXCEPT ![u] = q]
           r     == MintAToken(owing[x], a, 1)
<1>1. u \in Accounts /\ account \in [Accounts -> Account] /\ account[u] \in Account
      /\ 1 \in Nat /\ 1 \in Int
  BY UsersAreAccounts DEF IndInv, TypeOK
<1>2. account' = [owing EXCEPT ![x] = r] /\ reserve' = reserve /\ config' = config
  BY DEF Accrue, unchangedConfig
<1>3. Moves(account[u], q, a, 0, 1)
  BY <1>1, MintDebtMoves
<1> HIDE DEF q
<1>4. DebtMoves(account, owing, u, a, 1) /\ owing \in [Accounts -> Account]
  BY <1>1, <1>3, OneDebtMoves DEF Moves
<1> HIDE DEF owing
<1>5. \A b \in Assets : DebtOf(r, b) = DebtOf(owing[x], b)
  BY <1>4, PlainDebts
<1> HIDE DEF r
<1>6. DebtsStay(owing, account')
  BY <1>2, <1>4, <1>5, OneStays
<1>7. QED
  BY <1>2, <1>4, <1>6, StaysTwice DEF Accrued

LEMMA ModeOwesNothing ==
  ASSUME IndInv, EfficiencyMode
  PROVE  NothingOwed
<1> PICK u \in Users, c \in Categories \cup {0} : SetUserEMode(u, c)
  BY DEF EfficiencyMode
<1> DEFINE q == [account[u] EXCEPT !.eMode = c]
<1>1. u \in Accounts /\ \A b \in Assets : DebtOf(q, b) = DebtOf(account[u], b)
  BY UsersAreAccounts DEF IndInv, TypeOK, Account, DebtOf
<1>2. account' = [account EXCEPT ![u] = q] /\ reserve' = reserve
  BY DEF SetUserEMode
<1> HIDE DEF q
<1>3. QED
  BY <1>1, <1>2, OneAccountStays

\* The setters of the configurator.
LEMMA SettersLeavePositions ==
  ASSUME RiskParameters \/ Switches \/ CategoryParameters
  PROVE  account' = account /\ reserve' = reserve
<1> USE DEF unchangedPositions
<1>1. ASSUME NEW a, NEW c, SetConfig(a, c)
      PROVE  account' = account /\ reserve' = reserve
  BY <1>1 DEF SetConfig
<1>2. ASSUME RiskParameters
      PROVE  account' = account /\ reserve' = reserve
  BY <1>1, <1>2
     DEF RiskParameters, CollateralParameters, LimitParameters, FeeParameters,
         ConfigureReserveAsCollateral, EnableBorrowingOnReserve, SetDebtCeiling, SetBorrowCap,
         SetSupplyCap, SetUnbackedMintCap, SetReserveStableRate, SetBorrowableInIsolation,
         SetLiquidationProtocolFee
<1>3. ASSUME Switches
      PROVE  account' = account /\ reserve' = reserve
  BY <1>1, <1>3
     DEF Switches, ActivateReserve, DeactivateReserve, DisableBorrowingOnReserve,
         SetReserveFreeze, SetReservePause, SetPoolPause
<1>4. ASSUME CategoryParameters
      PROVE  account' = account /\ reserve' = reserve
  BY <1>1, <1>4 DEF CategoryParameters, SetEModeCategory, SetAssetEModeCategory
<1>5. QED
  BY <1>2, <1>3, <1>4

LEMMA OthersOweNothing ==
  ASSUME IndInv, Market \/ AdminNext \/ UNCHANGED vars
  PROVE  NothingOwed
<1>1. ASSUME account' = account, reserve' = reserve
      PROVE  NothingOwed
  BY <1>1 DEF NothingOwed, DebtsStay
<1>2. ASSUME Market \/ UNCHANGED vars
      PROVE  NothingOwed
  BY <1>1, <1>2 DEF Market, SetPrice, ToggleSentinel, vars
<1>3. ASSUME NEW a \in Assets, InitReserve(a)
      PROVE  NothingOwed
  <2>1. account' = account /\ \E id : reserve' = [reserve EXCEPT ![a] = [reserve[a] EXCEPT !.listed = TRUE, !.id = id]]
    BY <1>3 DEF InitReserve, unchangedPositions
  <2>2. \A c \in Assets : reserve'[c].isolationDebt = reserve[c].isolationDebt
    BY <2>1 DEF IndInv, TypeOK, ReserveData
  <2>3. QED
    BY <2>1, <2>2 DEF NothingOwed, DebtsStay
<1>4. ASSUME NEW a \in Assets, DropReserve(a)
      PROVE  NothingOwed
  <2>1. /\ account' = account /\ reserve' = [reserve EXCEPT ![a] = NoReserve]
        /\ config' = [config EXCEPT ![a] = NoConfig]
    BY <1>4 DEF DropReserve
  <2>2. reserve'[a] = NoReserve /\ config'[a] = NoConfig /\ \A c \in Assets : c # a => reserve'[c] = reserve[c]
    BY <2>1 DEF IndInv, TypeOK
  <2>3. NoReserve.isolationDebt = 0 /\ NoConfig.ceiling = 0
    BY DEF NoReserve, NoConfig
  <2>4. QED
    BY <2>1, <2>2, <2>3 DEF NothingOwed, DebtsStay
<1>5. QED
  BY <1>1, <1>2, <1>3, <1>4, SettersLeavePositions DEF AdminNext, Listing

\* Every step lends, is a payment, is interest, or leaves all debts alone.
LEMMA EveryStepOwes ==
  ASSUME IndInv, [Next]_vars
  PROVE  \/ \E u \in Users, a \in Assets : \/ \E n \in Nat \ {0} : Lent(u, a, n)
                                           \/ \E n \in Nat : Paid(u, a, n)
                                           \/ Accrued(u, a)
         \/ NothingOwed
<1>1. CASE SupplySide
  BY <1>1, SupplySideOwesNothing
<1>2. CASE DebtSide
  BY <1>2, BorrowIsLent, RepayIsPaid, RepayWithATokensIsPaid, SwapOwesNothing DEF DebtSide
<1>3. CASE Liquidations
  BY <1>3, LiquidationIsPaid DEF Liquidations
<1>4. CASE UnbackedMints \/ Backing
  BY <1>4, BridgesOweNothing
<1>5. CASE EfficiencyMode
  BY <1>5, ModeOwesNothing
<1>6. CASE Interest
  BY <1>6, InterestIsAccrued DEF Interest
<1>7. CASE Market \/ AdminNext \/ UNCHANGED vars
  BY <1>7, OthersOweNothing
<1>8. QED
  BY <1>1, <1>2, <1>3, <1>4, <1>5, <1>6, <1>7 DEF Next, UserNext

-----------------------------------------------------------------------------
(* Debts in isolation mode.                                                 *)

\* Whom the users are isolated on, and what each of them owes in ceiling units.
Standing  == [u \in Users |-> IsolationAsset(account[u])]
Exposures == [u \in Users |-> Exposure(account[u])]

OwesNothing(p) == \A a \in Assets : DebtOf(p, a) = 0

\* What users owe is a whole number of ceiling units.
NoDust == \A u \in Users, a \in Assets : DebtOf(account[u], a) % CEILING_UNIT = 0

\* Interest accrues to no position in isolation mode.
NoIsolatedInterest ==
  \A u \in Users, x \in Accounts, a \in Assets, mode \in Modes :
    Accrue(u, x, a, mode) => IsolationAsset(account[u]) = None

\* Whoever comes to be isolated on an asset owes nothing.
IsolatedWithoutDebt ==
  \A u \in Users : Standing'[u] \notin {None, Standing[u]} => OwesNothing(account'[u])

\* Whoever comes to be isolated, or is isolated no more, owes nothing.
IsolationKept ==
  \A u \in Users : Standing'[u] # Standing[u] => OwesNothing(account'[u])

\* A ceiling is not lowered below what is owed.
CeilingsCover ==
  \A c \in Assets : 0 < config'[c].ceiling /\ config'[c].ceiling < config[c].ceiling
                      => IsolatedExposure(c)' <= config'[c].ceiling

\* The exposure of a position is a natural number, and a matter of its debts alone.
LEMMA ExposureIsSum ==
  ASSUME NEW p \in Account
  PROVE  /\ Exposure(p) = SumFunctionOnSet([a \in Assets |-> CeilingAmount(DebtOf(p, a))], Assets)
         /\ Exposure(p) \in Nat
         /\ \A a \in Assets : DebtOf(p, a) \in Nat /\ CeilingAmount(DebtOf(p, a)) \in Nat
<1> DEFINE f == [a \in Assets |-> CeilingAmount(DebtOf(p, a))]
<1>1. \A a \in Assets : DebtOf(p, a) \in Nat
  BY DEF Account, DebtOf
<1>2. \A a \in Assets : CeilingAmount(DebtOf(p, a)) \in Nat
  BY <1>1, CeilingAmountIsNat
<1>3. Exposure(p) = SumFunctionOnSet(f, Assets)
  BY DEF Exposure, SumFunction, SumFunctionOnSet, FoldFunction
<1>4. \A a \in Assets : f[a] \in Nat
  BY <1>2
<1> HIDE DEF f
<1>5. SumFunctionOnSet(f, Assets) \in Nat
  BY <1>4, SumIsNat, AddressesAssumption
<1>6. QED
  BY <1>1, <1>2, <1>3, <1>5 DEF f

LEMMA SameExposure ==
  ASSUME NEW p \in Account, NEW q \in Account, \A a \in Assets : DebtOf(q, a) = DebtOf(p, a)
  PROVE  Exposure(q) = Exposure(p)
<1> DEFINE f == [a \in Assets |-> CeilingAmount(DebtOf(p, a))]
           g == [a \in Assets |-> CeilingAmount(DebtOf(q, a))]
<1>1. f = g
  OBVIOUS
<1>2. Exposure(p) = SumFunctionOnSet(f, Assets) /\ Exposure(q) = SumFunctionOnSet(g, Assets)
  BY ExposureIsSum
<1> HIDE DEF f, g
<1>3. QED
  BY <1>1, <1>2

\* Who owes nothing has none.
LEMMA NoExposure ==
  ASSUME NEW p \in Account, OwesNothing(p)
  PROVE  Exposure(p) = 0
<1> DEFINE f == [a \in Assets |-> CeilingAmount(DebtOf(p, a))]
<1>1. Exposure(p) = SumFunctionOnSet(f, Assets)
  BY ExposureIsSum
<1>2. CeilingAmount(0) = 0
  <2>1. CEILING_UNIT \in Nat \ {0}
    BY UnitsAssumption
  <2>2. 0 \div CEILING_UNIT = 0
    BY <2>1, SMT
  <2>3. QED
    BY <2>2 DEF CeilingAmount
<1>3. \A a \in Assets : f[a] = 0 /\ f[a] \in Nat
  BY <1>2 DEF OwesNothing
<1> HIDE DEF f
<1>4. QED
  BY <1>1, <1>3, SumOfZeros, AddressesAssumption

\* Whole units that are lent or repaid are counted exactly.
LEMMA ExposureMoves ==
  ASSUME NEW p \in Account, NEW q \in Account, NEW a \in Assets, NEW n \in Nat,
         \A b \in Assets : DebtOf(q, b) = DebtOf(p, b) + Only(a, b, n),
         \A b \in Assets : DebtOf(p, b) % CEILING_UNIT = 0 /\ DebtOf(q, b) % CEILING_UNIT = 0
  PROVE  Exposure(q) = Exposure(p) + CeilingAmount(n)
<1> DEFINE f == [b \in Assets |-> CeilingAmount(DebtOf(p, b))]
           g == [b \in Assets |-> CeilingAmount(DebtOf(q, b))]
<1>1. /\ Exposure(p) = SumFunctionOnSet(f, Assets) /\ Exposure(q) = SumFunctionOnSet(g, Assets)
      /\ \A b \in Assets : DebtOf(p, b) \in Nat /\ f[b] \in Nat /\ g[b] \in Nat
      /\ Exposure(p) \in Nat
  BY ExposureIsSum
<1>2. \A b \in Assets : b # a => g[b] = f[b]
  BY <1>1 DEF Only
<1>3. CEILING_UNIT \in Nat \ {0}
  BY UnitsAssumption
<1>4. g[a] = f[a] + CeilingAmount(n)
  <2>1. DebtOf(q, a) = DebtOf(p, a) + n /\ DebtOf(p, a) \in Nat
    BY <1>1 DEF Only
  <2>2. (DebtOf(p, a) + n) \div CEILING_UNIT = DebtOf(p, a) \div CEILING_UNIT + n \div CEILING_UNIT
    BY <1>3, <2>1, WholeUnits
  <2>3. QED
    BY <2>1, <2>2 DEF CeilingAmount
<1>5. CeilingAmount(n) \in Nat
  BY CeilingAmountIsNat
<1> HIDE DEF f, g
<1>6. SumFunctionOnSet(g, Assets) = SumFunctionOnSet(f, Assets) + (g[a] - f[a])
  BY <1>1, <1>2, SumWithOneChanged, AddressesAssumption
<1>7. QED
  BY <1>1, <1>4, <1>5, <1>6

\* The exposure on c as a sum over the users.
LEMMA IsolatedExposureIsSum ==
  ASSUME NEW c
  PROVE  /\ IsolatedExposure(c) = SumOn(Standing, Exposures, c)
         /\ IsolatedExposure(c)' = SumOn(Standing', Exposures', c)
<1>1. [u \in IsolatedOn(c) |-> Exposure(account[u])]
        = [x \in {x \in Users : Standing[x] = c} |-> Exposures[x]]
  BY DEF IsolatedOn, Standing, Exposures
<1>2. ([u \in IsolatedOn(c) |-> Exposure(account[u])])'
        = [x \in {x \in Users : Standing'[x] = c} |-> Exposures'[x]]
  BY DEF IsolatedOn, Standing, Exposures
<1>3. QED
  BY <1>1, <1>2 DEF IsolatedExposure, SumOn

LEMMA ExposuresAreNat ==
  ASSUME IndInv, IndInv'
  PROVE  Exposures \in [Users -> Nat] /\ Exposures' \in [Users -> Nat]
<1>1. \A u \in Users : account[u] \in Account /\ account'[u] \in Account
  BY UsersAreAccounts DEF IndInv, TypeOK
<1>2. \A u \in Users : Exposure(account[u]) \in Nat /\ Exposure(account'[u]) \in Nat
  BY <1>1, ExposureIsSum
<1>3. QED
  BY <1>2 DEF Exposures

\* What a user owes in ceiling units follows his debts.
LEMMA ExposuresMove ==
  ASSUME IndInv, IndInv', NoDust, NoDust', NEW u \in Users, NEW a \in Assets, NEW n \in Nat
  PROVE  /\ DebtMoves(account, account', u, a, n) =>
              /\ Exposures'[u] = Exposures[u] + CeilingAmount(n)
              /\ \A x \in Users : x # u => Exposures'[x] = Exposures[x]
         /\ DebtMoves(account, account', u, a, -n) =>
              /\ Exposures'[u] = Exposures[u] + -CeilingAmount(n)
              /\ \A x \in Users : x # u => Exposures'[x] = Exposures[x]
         /\ DebtsStay(account, account') => \A x \in Users : Exposures'[x] = Exposures[x]
<1>1. \A x \in Users : x \in Accounts /\ account[x] \in Account /\ account'[x] \in Account
  BY UsersAreAccounts DEF IndInv, TypeOK
<1>2. \A x \in Users : /\ Exposures[x] = Exposure(account[x]) /\ Exposures'[x] = Exposure(account'[x])
                       /\ Exposure(account[x]) \in Nat /\ Exposure(account'[x]) \in Nat
  BY <1>1, ExposureIsSum DEF Exposures
<1>3. \A x \in Users, b \in Assets : DebtOf(account[x], b) \in Nat /\ DebtOf(account'[x], b) \in Nat
  BY <1>1, ExposureIsSum
<1>4. \A b \in Assets : /\ DebtOf(account[u], b) % CEILING_UNIT = 0
                        /\ DebtOf(account'[u], b) % CEILING_UNIT = 0
  BY DEF NoDust
<1>5. CeilingAmount(n) \in Nat
  BY CeilingAmountIsNat
<1>6. ASSUME NEW m \in Int, DebtMoves(account, account', u, a, m), NEW x \in Users, x # u
      PROVE  Exposures'[x] = Exposures[x]
  <2>1. \A b \in Assets : DebtOf(account'[x], b) = DebtOf(account[x], b)
    BY <1>1, <1>3, <1>6 DEF DebtMoves
  <2>2. QED
    BY <1>1, <1>2, <2>1, SameExposure
<1>7. ASSUME DebtMoves(account, account', u, a, n)
      PROVE  Exposures'[u] = Exposures[u] + CeilingAmount(n)
  <2>1. \A b \in Assets : DebtOf(account'[u], b) = DebtOf(account[u], b) + Only(a, b, n)
    BY <1>1, <1>7 DEF DebtMoves
  <2>2. QED
    BY <1>1, <1>2, <1>4, <2>1, ExposureMoves
<1>8. ASSUME DebtMoves(account, account', u, a, -n)
      PROVE  Exposures'[u] = Exposures[u] + -CeilingAmount(n)
  <2>1. \A b \in Assets : DebtOf(account[u], b) = DebtOf(account'[u], b) + Only(a, b, n)
    BY <1>1, <1>3, <1>8 DEF DebtMoves, Only
  <2>2. Exposure(account[u]) = Exposure(account'[u]) + CeilingAmount(n)
    BY <1>1, <1>4, <2>1, ExposureMoves
  <2>3. QED
    BY <1>2, <1>5, <2>2
<1>9. ASSUME DebtsStay(account, account'), NEW x \in Users
      PROVE  Exposures'[x] = Exposures[x]
  BY <1>1, <1>2, <1>9, SameExposure DEF DebtsStay
<1>10. n \in Int /\ -n \in Int
  OBVIOUS
<1>11. QED
  BY <1>6, <1>7, <1>8, <1>9, <1>10

\* Whoever stands on c has a reserve there with a ceiling.
LEMMA StandingOn ==
  ASSUME NEW c \in Assets, NEW u \in Users
  PROVE  /\ Standing[u] = c => config[c].ceiling > 0
         /\ Standing'[u] = c => config'[c].ceiling > 0
  BY AddressesAssumption DEF Standing, IsolationAsset

\* The counter of isolated debt after a loan or a payment.
LEMMA CountersMove ==
  ASSUME IndInv, NEW u \in Users, NEW c \in Assets, NEW n \in Nat
  PROVE  LET m == CeilingAmount(n)
         IN /\ m \in Nat /\ reserve[c].isolationDebt \in Nat
            /\ reserve' = ChargeIsolation(account[u], n) =>
                 reserve'[c].isolationDebt = reserve[c].isolationDebt
                                               + (IF Standing[u] = c THEN m ELSE 0)
            /\ reserve' = ReleaseIsolation(account[u], n) =>
                 reserve'[c].isolationDebt =
                   IF Standing[u] # c THEN reserve[c].isolationDebt
                   ELSE IF reserve[c].isolationDebt <= m THEN 0
                        ELSE reserve[c].isolationDebt - m
<1> DEFINE m == CeilingAmount(n)
           s == IsolationAsset(account[u])
<1>1. m \in Nat /\ reserve[c].isolationDebt \in Nat /\ reserve \in [Assets -> ReserveData]
      /\ reserve[c] \in ReserveData
  BY CeilingAmountIsNat DEF IndInv, TypeOK, ReserveData
<1>2. Standing[u] = s
  BY DEF Standing
<1>3. c # None
  BY AddressesAssumption
<1>4. ASSUME reserve' = ChargeIsolation(account[u], n)
      PROVE  reserve'[c].isolationDebt = reserve[c].isolationDebt + (IF s = c THEN m ELSE 0)
  <2>1. reserve' = IF s = None THEN reserve
                   ELSE [reserve EXCEPT ![s].isolationDebt = @ + m]
    BY <1>4 DEF ChargeIsolation
  <2> HIDE DEF s, m
  <2>2. QED
    BY <1>1, <1>3, <2>1 DEF ReserveData
<1>5. ASSUME reserve' = ReleaseIsolation(account[u], n)
      PROVE  reserve'[c].isolationDebt =
                   IF s # c THEN reserve[c].isolationDebt
                   ELSE IF reserve[c].isolationDebt <= m THEN 0 ELSE reserve[c].isolationDebt - m
  <2>1. reserve' = IF s = None THEN reserve
                   ELSE [reserve EXCEPT ![s].isolationDebt = IF @ <= m THEN 0 ELSE @ - m]
    BY <1>5 DEF ReleaseIsolation
  <2> HIDE DEF s, m
  <2>2. QED
    BY <1>1, <1>3, <2>1 DEF ReserveData
<1>6. QED
  BY <1>1, <1>2, <1>4, <1>5

\* What a step may do to the exposure on c and to its counter: a loan moves both up
\* below the ceiling, a payment both down, and any other step moves neither up.
Moved(c, d) ==
  LET counter == reserve[c].isolationDebt
      next    == reserve'[c].isolationDebt
  IN \/ d = 0 /\ next = counter /\ IsolatedExposure(c)' <= IsolatedExposure(c)
     \/ d = 0 /\ next = 0 /\ IsolatedExposure(c)' = 0
     \/ d \in Nat /\ next = counter + d /\ next <= config[c].ceiling /\ config' = config
     \/ -d \in Nat /\ next = IF counter <= -d THEN 0 ELSE counter - (-d)

\* Every step moves the exposure on c and its counter so.
LEMMA ExposureStep ==
  ASSUME IndInv, IndInv', NoDust, NoDust', NoIsolatedInterest, IsolatedWithoutDebt,
         [Next]_vars, NEW c \in Assets
  PROVE  \E d \in Int : /\ Moved(c, d)
                        /\ IsolatedExposure(c)' <= IsolatedExposure(c) + d
                        /\ IsolatedExposure(c) + d \in Nat
                        /\ IsolationKept => IsolatedExposure(c)' = IsolatedExposure(c) + d
<1> DEFINE sum  == SumOn(Standing, Exposures, c)
           next == SumOn(Standing', Exposures', c)
           counter == reserve[c].isolationDebt
           left == reserve'[c].isolationDebt
<1>1. IsolatedExposure(c) = sum /\ IsolatedExposure(c)' = next
  BY IsolatedExposureIsSum
<1>2. Exposures \in [Users -> Nat] /\ Exposures' \in [Users -> Nat]
  BY ExposuresAreNat
<1>3. sum \in Nat /\ next \in Nat
  BY <1>2, SumOnIsSum
<1>4. \A x \in Users : OwesNothing(account'[x]) => Exposures'[x] = 0
  <2>1. \A x \in Users : account'[x] \in Account /\ Exposures'[x] = Exposure(account'[x])
    BY UsersAreAccounts DEF IndInv, TypeOK, Exposures
  <2>2. QED
    BY <2>1, NoExposure
<1>5. /\ \A x \in Users : Standing'[x] = c /\ Standing[x] # c => Exposures'[x] = 0
      /\ IsolationKept => \A x \in Users : Standing[x] = c /\ Standing'[x] # c => Exposures'[x] = 0
  BY <1>4, AddressesAssumption DEF IsolatedWithoutDebt, IsolationKept
<1>6. \A x \in Users : Standing[x] = IsolationAsset(account[x])
  BY DEF Standing
<1>7. ASSUME NEW u \in Users, NEW m \in Int, Exposures'[u] = Exposures[u] + m,
             \A x \in Users : x # u => Exposures'[x] = Exposures[x],
             NEW d, d = IF Standing[u] = c THEN m ELSE 0
      PROVE  next <= sum + d /\ sum + d \in Nat /\ (IsolationKept => next = sum + d)
  <2> DEFINE gone  == \A x \in Users : Standing[x] = c /\ Standing'[x] # c => Exposures'[x] = 0
             moved == SumOn(Standing, Exposures', c)
  <2>1. /\ next <= moved
        /\ gone => next = moved
        /\ Standing[u] = c => moved = sum + (Exposures'[u] - Exposures[u])
        /\ Standing[u] # c => moved = sum
        /\ moved \in Nat
    BY <1>2, <1>5, <1>7, OneShareMoves
  <2>2. IsolationKept => gone
    BY <1>5
  <2>3. Exposures[u] \in Nat /\ Exposures'[u] \in Nat
    BY <1>2
  <2> HIDE DEF sum, next, gone, moved
  <2>4. moved = sum + d
    BY <1>3, <1>7, <2>1, <2>3
  <2>5. QED
    BY <2>1, <2>2, <2>4
<1> HIDE DEF sum, next
<1>8. ASSUME NEW u \in Users, NEW a \in Assets, NEW n \in Nat, Lent(u, a, n)
      PROVE  \E d \in Int : /\ Moved(c, d) /\ next <= sum + d /\ sum + d \in Nat
                            /\ IsolationKept => next = sum + d
  <2> DEFINE m == CeilingAmount(n)
             d == IF Standing[u] = c THEN m ELSE 0
  <2>1. m \in Nat /\ counter \in Nat /\ left = counter + d
    BY <1>8, CountersMove DEF Lent
  <2>2. /\ Exposures'[u] = Exposures[u] + m
        /\ \A x \in Users : x # u => Exposures'[x] = Exposures[x]
    BY <1>8, ExposuresMove DEF Lent
  <2>3. Standing[u] = c => counter + m <= config[c].ceiling
    BY <1>6, <1>8, AddressesAssumption DEF Lent, ValidateIsolation
  <2>4. config' = config
    BY <1>8 DEF Lent
  <2> HIDE DEF m
  <2>5. next <= sum + d /\ sum + d \in Nat /\ (IsolationKept => next = sum + d)
    BY <1>7, <2>1, <2>2
  <2>6. Moved(c, d)
    <3>1. CASE Standing[u] = c
      BY <2>1, <2>3, <2>4, <3>1 DEF Moved
    <3>2. CASE Standing[u] # c
      <4>1. d = 0 /\ left = counter
        BY <2>1, <3>2
      <4>2. next <= sum
        BY <1>3, <2>5, <4>1
      <4>3. QED
        BY <1>1, <4>1, <4>2 DEF Moved
    <3>3. QED
      BY <3>1, <3>2
  <2>7. QED
    BY <2>1, <2>5, <2>6
<1>9. ASSUME NEW u \in Users, NEW a \in Assets, NEW n \in Nat, Paid(u, a, n)
      PROVE  \E d \in Int : /\ Moved(c, d) /\ next <= sum + d /\ sum + d \in Nat
                            /\ IsolationKept => next = sum + d
  <2> DEFINE m == CeilingAmount(n)
             d == IF Standing[u] = c THEN -m ELSE 0
  <2>1. /\ m \in Nat /\ counter \in Nat
        /\ left = IF Standing[u] # c THEN counter ELSE IF counter <= m THEN 0 ELSE counter - m
    BY <1>9, CountersMove DEF Paid
  <2>2. /\ Exposures'[u] = Exposures[u] + -m
        /\ \A x \in Users : x # u => Exposures'[x] = Exposures[x]
    BY <1>9, ExposuresMove DEF Paid
  <2> HIDE DEF m
  <2>3. -m \in Int
    BY <2>1
  <2>4. next <= sum + d /\ sum + d \in Nat /\ (IsolationKept => next = sum + d)
    BY <1>7, <2>2, <2>3
  <2>5. Moved(c, d)
    <3>1. CASE Standing[u] = c
      <4>1. -d = m /\ left = IF counter <= m THEN 0 ELSE counter - m
        BY <2>1, <3>1
      <4>2. QED
        BY <2>1, <4>1 DEF Moved
    <3>2. CASE Standing[u] # c
      <4>1. d = 0 /\ left = counter
        BY <2>1, <3>2
      <4>2. next <= sum
        BY <1>3, <2>4, <4>1
      <4>3. QED
        BY <1>1, <4>1, <4>2 DEF Moved
    <3>3. QED
      BY <3>1, <3>2
  <2>6. QED
    BY <2>1, <2>4, <2>5
<1>10. ASSUME NEW u \in Users, NEW a \in Assets, Accrued(u, a)
       PROVE  \E d \in Int : /\ Moved(c, d) /\ next <= sum + d /\ sum + d \in Nat
                             /\ IsolationKept => next = sum + d
  <2> DEFINE m == CeilingAmount(1)
  <2>1. Standing[u] # c
    BY <1>6, <1>10, AddressesAssumption DEF Accrued, NoIsolatedInterest
  <2>2. m \in Int
    BY CeilingAmountIsNat
  <2>3. /\ Exposures'[u] = Exposures[u] + m
        /\ \A x \in Users : x # u => Exposures'[x] = Exposures[x]
    BY <1>10, ExposuresMove DEF Accrued
  <2> HIDE DEF m
  <2>4. next <= sum + 0 /\ sum + 0 \in Nat /\ (IsolationKept => next = sum + 0)
    BY <1>7, <2>1, <2>2, <2>3
  <2>5. left = counter /\ next <= sum
    BY <1>3, <1>10, <2>4 DEF Accrued
  <2>6. Moved(c, 0)
    BY <1>1, <2>5 DEF Moved
  <2>7. QED
    BY <2>4, <2>6
<1>11. ASSUME NothingOwed
       PROVE  \E d \in Int : /\ Moved(c, d) /\ next <= sum + d /\ sum + d \in Nat
                             /\ IsolationKept => next = sum + d
  <2>1. Exposures' = Exposures
    <3>1. ASSUME NEW x \in Users
          PROVE  Exposures'[x] = Exposures[x]
      <4>1. 0 \in Nat
        OBVIOUS
      <4>2. QED
        BY <1>11, <4>1, ExposuresMove DEF NothingOwed
    <3>2. QED
      BY <1>2, <3>1
  <2>2. next <= sum /\ (IsolationKept => next = sum)
    BY <1>2, <1>5, <2>1, SharesStay DEF sum, next
  <2>3. Moved(c, 0)
    <3>1. CASE left = counter
      BY <1>1, <2>2, <3>1 DEF Moved
    <3>2. CASE left = 0 /\ config'[c].ceiling = 0
      <4>1. \A x \in Users : Standing'[x] # c
        BY <3>2, StandingOn
      <4>2. next = 0
        BY <1>2, <4>1, NobodyOn DEF next
      <4>3. QED
        BY <1>1, <3>2, <4>2 DEF Moved
    <3>3. QED
      BY <1>11, <3>1, <3>2 DEF NothingOwed
  <2>4. next <= sum + 0 /\ sum + 0 \in Nat /\ (IsolationKept => next = sum + 0)
    BY <1>3, <2>2
  <2>5. QED
    BY <2>3, <2>4
<1>12. \E d \in Int : /\ Moved(c, d) /\ next <= sum + d /\ sum + d \in Nat
                      /\ IsolationKept => next = sum + d
  BY <1>8, <1>9, <1>10, <1>11, EveryStepOwes
<1>13. QED
  BY <1>1, <1>12

\* Nobody is isolated at first.
LEMMA ExposureStartsAtZero ==
  ASSUME Init, NEW c \in Assets
  PROVE  IsolatedExposure(c) = 0 /\ reserve[c].isolationDebt = 0
<1>1. reserve[c].isolationDebt = 0 /\ config[c].ceiling = 0
  BY DEF Init, NoReserve, NoConfig
<1>2. \A u \in Users : Standing[u] # c
  BY <1>1, StandingOn
<1>3. Exposures \in [Users -> Nat]
  <2>1. \A u \in Users : account[u] \in Account
    BY UsersAreAccounts, InitEstablishes DEF IndInv, TypeOK
  <2>2. QED
    BY <2>1, ExposureIsSum DEF Exposures
<1>4. QED
  BY <1>1, <1>2, <1>3, NobodyOn, IsolatedExposureIsSum

\* Nobody is isolated on an asset without a ceiling.
LEMMA NobodyIsolated ==
  ASSUME IndInv, IndInv', NEW c \in Assets, config[c].ceiling = 0
  PROVE  IsolatedExposure(c) = 0
<1>1. \A u \in Users : Standing[u] # c
  BY StandingOn
<1>2. Exposures \in [Users -> Nat]
  BY ExposuresAreNat
<1>3. QED
  BY <1>1, <1>2, NobodyOn, IsolatedExposureIsSum

LEMMA NothingMoves ==
  ASSUME UNCHANGED vars
  PROVE  /\ reserve' = reserve /\ config' = config /\ account' = account
         /\ \A c \in Assets : IsolatedExposure(c)' = IsolatedExposure(c)
<1>1. Standing' = Standing /\ Exposures' = Exposures
  BY DEF vars, Standing, Exposures, IsolationAsset
<1>2. QED
  BY <1>1, IsolatedExposureIsSum DEF vars

LEMMA ExposureIsNat ==
  ASSUME IndInv, IndInv', NEW c \in Assets
  PROVE  /\ IsolatedExposure(c) \in Nat /\ IsolatedExposure(c)' \in Nat
         /\ reserve[c].isolationDebt \in Nat
         /\ config[c].ceiling \in Nat /\ config'[c].ceiling \in Nat
<1>1. Exposures \in [Users -> Nat] /\ Exposures' \in [Users -> Nat]
  BY ExposuresAreNat
<1>2. IsolatedExposure(c) \in Nat /\ IsolatedExposure(c)' \in Nat
  <2>1. SumOn(Standing, Exposures, c) \in Nat /\ SumOn(Standing', Exposures', c) \in Nat
    BY <1>1, SumOnIsSum
  <2>2. QED
    BY <2>1, IsolatedExposureIsSum
<1>3. QED
  BY <1>2 DEF IndInv, TypeOK, ReserveData, ReserveConfig

\* No step takes the exposure on an asset above its counter.
LEMMA CountingStep ==
  ASSUME IndInv, IndInv', NoDust, NoDust', [Next]_vars, ExposureIsCounted,
         [NoIsolatedInterest /\ IsolatedWithoutDebt]_vars
  PROVE  ExposureIsCounted'
<1>1. CASE UNCHANGED vars
  BY <1>1, NothingMoves DEF ExposureIsCounted
<1>2. ASSUME NoIsolatedInterest, IsolatedWithoutDebt, NEW c \in Assets
      PROVE  IsolatedExposure(c)' <= reserve'[c].isolationDebt
  <2>1. PICK d \in Int : /\ Moved(c, d)
                         /\ IsolatedExposure(c)' <= IsolatedExposure(c) + d
                         /\ IsolatedExposure(c) + d \in Nat
    BY <1>2, ExposureStep
  <2>2. /\ IsolatedExposure(c) \in Nat /\ IsolatedExposure(c)' \in Nat
        /\ reserve[c].isolationDebt \in Nat
        /\ IsolatedExposure(c) <= reserve[c].isolationDebt
    BY ExposureIsNat DEF ExposureIsCounted
  <2>3. QED
    BY <2>1, <2>2 DEF Moved
<1>3. QED
  BY <1>1, <1>2 DEF ExposureIsCounted

\* A loan is held against the counter, and so against the exposure.
LEMMA CeilingStep ==
  ASSUME IndInv, IndInv', NoDust, NoDust', [Next]_vars, ExposureIsCounted, CeilingHolds,
         [NoIsolatedInterest /\ IsolatedWithoutDebt /\ CeilingsCover]_vars
  PROVE  CeilingHolds'
<1>1. CASE UNCHANGED vars
  BY <1>1, NothingMoves DEF CeilingHolds
<1>2. ASSUME NoIsolatedInterest, IsolatedWithoutDebt, CeilingsCover, NEW c \in Assets,
             config'[c].ceiling > 0
      PROVE  IsolatedExposure(c)' <= config'[c].ceiling
  <2>1. PICK d \in Int : /\ Moved(c, d)
                         /\ IsolatedExposure(c)' <= IsolatedExposure(c) + d
                         /\ IsolatedExposure(c) + d \in Nat
    BY <1>2, ExposureStep
  <2>2. /\ IsolatedExposure(c) \in Nat /\ IsolatedExposure(c)' \in Nat
        /\ reserve[c].isolationDebt \in Nat
        /\ config[c].ceiling \in Nat /\ config'[c].ceiling \in Nat
        /\ IsolatedExposure(c) <= reserve[c].isolationDebt
    BY ExposureIsNat DEF ExposureIsCounted
  <2>3. CASE config'[c].ceiling < config[c].ceiling
    BY <1>2, <2>3 DEF CeilingsCover
  <2>4. CASE config'[c].ceiling >= config[c].ceiling
    <3>1. IsolatedExposure(c) <= config[c].ceiling
      <4>1. CASE config[c].ceiling > 0
        BY <4>1 DEF CeilingHolds
      <4>2. CASE config[c].ceiling = 0
        <5>1. IsolatedExposure(c) = 0
          BY <4>2, NobodyIsolated
        <5>2. QED
          BY <4>2, <5>1
      <4>3. QED
        BY <2>2, <4>1, <4>2
    <3>2. QED
      BY <2>1, <2>2, <2>4, <3>1 DEF Moved
  <2>5. QED
    BY <2>2, <2>3, <2>4
<1>3. QED
  BY <1>1, <1>2 DEF CeilingHolds

\* The counter is the exposure itself.
CounterIsExact == \A c \in Assets : reserve[c].isolationDebt = IsolatedExposure(c)

\* The saturating subtraction never saturates.
LEMMA ExactStep ==
  ASSUME IndInv, IndInv', NoDust, NoDust', [Next]_vars, CounterIsExact,
         [NoIsolatedInterest /\ IsolationKept]_vars
  PROVE  CounterIsExact'
<1>1. CASE UNCHANGED vars
  BY <1>1, NothingMoves DEF CounterIsExact
<1>2. ASSUME NoIsolatedInterest, IsolationKept, NEW c \in Assets
      PROVE  reserve'[c].isolationDebt = IsolatedExposure(c)'
  <2>1. IsolatedWithoutDebt
    BY <1>2 DEF IsolatedWithoutDebt, IsolationKept
  <2>2. PICK d \in Int : /\ Moved(c, d)
                         /\ IsolatedExposure(c)' = IsolatedExposure(c) + d
                         /\ IsolatedExposure(c) + d \in Nat
    BY <1>2, <2>1, ExposureStep
  <2>3. /\ IsolatedExposure(c) \in Nat /\ IsolatedExposure(c)' \in Nat
        /\ reserve[c].isolationDebt = IsolatedExposure(c)
    BY ExposureIsNat DEF CounterIsExact
  <2> DEFINE sum  == IsolatedExposure(c)
             next == IsolatedExposure(c)'
             left == reserve'[c].isolationDebt
  <2>4. \/ d = 0 /\ left = sum
        \/ left = 0 /\ next = 0
        \/ left = sum + d
        \/ -d \in Nat /\ left = IF sum <= -d THEN 0 ELSE sum - (-d)
    BY <2>2, <2>3 DEF Moved
  <2>5. next = sum + d /\ next \in Nat /\ sum \in Nat
    BY <2>2, <2>3
  <2> HIDE DEF sum, next, left
  <2>6. left = next
    BY <2>4, <2>5
  <2>7. QED
    BY <2>6 DEF left, next
<1>3. QED
  BY <1>1, <1>2 DEF CounterIsExact

\* No debt, no exposure.
LEMMA NothingOwedNothingCounted ==
  ASSUME IndInv, CounterIsExact
  PROVE  IsolationCounterClears
<1>1. ASSUME \A u \in Users, a \in Assets : DebtOf(account[u], a) = 0, NEW c \in Assets
      PROVE  reserve[c].isolationDebt = 0
  <2>1. \A u \in Users : account[u] \in Account /\ OwesNothing(account[u])
    BY <1>1, UsersAreAccounts DEF IndInv, TypeOK, OwesNothing
  <2>2. \A u \in Users : Exposures[u] = 0
    BY <2>1, NoExposure DEF Exposures
  <2>3. Exposures \in [Users -> Nat]
    BY <2>1, ExposureIsSum DEF Exposures
  <2>4. SumOn(Standing, Exposures, c) = 0
    BY <2>2, <2>3, NobodyOn
  <2>5. QED
    BY <2>4, IsolatedExposureIsSum DEF CounterIsExact
<1>2. QED
  BY <1>1 DEF IsolationCounterClears

-----------------------------------------------------------------------------
(* What follows.  In the three theorems debts are whole ceiling units and   *)
(* interest spares the isolated: the counter leaves out both the fractions  *)
(* and the interest.                                                        *)

\* What the users isolated on a collateral owe is counted in its isolationDebt,
\* through any borrowing, repaying, liquidation, mode switch, configuration and
\* listing, as long as nobody becomes isolated who already owes.  A transfer of
\* aTokens and a liquidator's share can do that to a borrower, and then borrowing
\* against the collateral is not counted from the start.
THEOREM IsolatedDebtIsCounted ==
  Spec /\ []NoDust /\ [][NoIsolatedInterest /\ IsolatedWithoutDebt]_vars => []ExposureIsCounted
<1>1. Init => ExposureIsCounted
  BY ExposureStartsAtZero DEF ExposureIsCounted
<1>2. IndInv /\ IndInv' /\ NoDust /\ NoDust' /\ ExposureIsCounted /\ [Next]_vars
        /\ [NoIsolatedInterest /\ IsolatedWithoutDebt]_vars => ExposureIsCounted'
  BY CountingStep
<1>3. QED
  BY <1>1, <1>2, Invariance, PTL DEF Spec

\* executeBorrow's check of one loan against the counter keeps the users isolated
\* on an asset below its debt ceiling together, as long as, besides, the risk admin
\* lowers a ceiling only to what is still above their debts: setDebtCeiling does not
\* look at them.
THEOREM DebtCeilingHolds ==
  Spec /\ []NoDust /\ [][NoIsolatedInterest /\ IsolatedWithoutDebt /\ CeilingsCover]_vars
    => []CeilingHolds
<1>1. Init => CeilingHolds /\ ExposureIsCounted
  <2>1. Init => \A c \in Assets : config[c].ceiling = 0
    BY DEF Init, NoConfig
  <2>2. QED
    BY <2>1, ExposureStartsAtZero DEF CeilingHolds, ExposureIsCounted
<1>2. IndInv /\ IndInv' /\ NoDust /\ NoDust' /\ ExposureIsCounted /\ CeilingHolds /\ [Next]_vars
        /\ [NoIsolatedInterest /\ IsolatedWithoutDebt /\ CeilingsCover]_vars
        => ExposureIsCounted' /\ CeilingHolds'
  BY CountingStep, CeilingStep
<1>3. QED
  BY <1>1, <1>2, Invariance, PTL DEF Spec

\* The counter is the exposure exactly, updateIsolatedDebtIfIsolated never has to
\* saturate, and the counter is back at zero when everybody has repaid, as long as
\* nobody who owes comes into, or out of, isolation: whoever leaves with a debt
\* leaves it in the counter for good.
THEOREM IsolatedDebtClears ==
  Spec /\ []NoDust /\ [][NoIsolatedInterest /\ IsolationKept]_vars => []IsolationCounterClears
<1>1. Init => CounterIsExact
  BY ExposureStartsAtZero DEF CounterIsExact
<1>2. IndInv /\ IndInv' /\ NoDust /\ NoDust' /\ CounterIsExact /\ [Next]_vars
        /\ [NoIsolatedInterest /\ IsolationKept]_vars => CounterIsExact'
  BY ExactStep
<1>3. IndInv /\ CounterIsExact => IsolationCounterClears
  BY NothingOwedNothingCounted
<1>4. QED
  BY <1>1, <1>2, <1>3, Invariance, PTL DEF Spec
=============================================================================
