------------------------ MODULE LiquidationMathProofs -----------------------
(***************************************************************************)
(* The price of a liquidation, for every price, amount, bonus above 100%   *)
(* and fee.                                                                *)
(***************************************************************************)
EXTENDS MCLiquidationMath, ArithmeticProofs

\* The inputs have the shape that the arithmetic asks for.
InputOK == input \in LiquidationInput /\ input.bonus > PERCENTAGE_FACTOR

LEMMA InputInvariance == MathSpec => []InputOK
<1>1. Init => InputOK
  <2>1. 1 .. MaxPrice \subseteq Nat \ {0} /\ 0 .. MaxAmount \subseteq Nat /\ {1} \subseteq Nat
    BY BoxAssumption
  <2>2. Fees \subseteq Nat /\ Bonuses \subseteq Nat /\ \A bonus \in Bonuses : bonus > PERCENTAGE_FACTOR
    BY BoxAssumption
  <2>3. QED
    BY <2>1, <2>2 DEF Init, InputOK, LiquidationInput
<1>2. InputOK /\ [AskForMore]_input => InputOK'
  <2>1. SUFFICES ASSUME InputOK, [AskForMore]_input PROVE InputOK'
    OBVIOUS
  <2>2. CASE AskForMore
    <3>1. input' = [input EXCEPT !.debtToCover = @ + 1]
      BY <2>2 DEF AskForMore
    <3>2. QED
      BY <2>1, <3>1 DEF InputOK, LiquidationInput
  <2>3. CASE UNCHANGED input
    BY <2>1, <2>3 DEF InputOK
  <2>4. QED
    BY <2>1, <2>2, <2>3
<1>3. QED
  BY <1>1, <1>2, PTL DEF MathSpec

\* However much of a debt a liquidator offers to cover, he never gets collateral
\* at a better price than the bonus allows (_calculateAvailableCollateralToLiquidate).
THEOREM SeizedStaysWithinBonus == MathSpec => []SeizedWithinBonus
<1>1. InputOK => SeizedWithinBonus
  <2>1. SUFFICES ASSUME InputOK PROVE SeizedWithinBonus
    OBVIOUS
  <2>2. input \in LiquidationInput /\ input.bonus >= PERCENTAGE_FACTOR
    BY <2>1, PercentageAssumption DEF InputOK, LiquidationInput
  <2>3. QED
    BY <2>2, TermsWithinBonus DEF SeizedWithinBonus, terms
<1>2. QED
  BY <1>1, InputInvariance, PTL

-----------------------------------------------------------------------------
(* Asking for more.                                                         *)

\* More debt is worth more collateral.
LEMMA OfferGrows ==
  ASSUME NEW cp \in Nat \ {0}, NEW dp \in Nat \ {0}, NEW bonus \in Nat,
         NEW d \in Nat, NEW e \in Nat, d <= e
  PROVE  LET most(debt) == PercentMul((dp * debt) \div cp, bonus)
         IN most(d) \in Nat /\ most(e) \in Nat /\ most(d) <= most(e)
<1>1. dp * d \in Nat /\ dp * e \in Nat /\ dp * d <= dp * e
  <2>1. d * dp <= e * dp /\ d * dp \in Nat /\ e * dp \in Nat
    BY ProductGrows
  <2>2. d * dp = dp * d /\ e * dp = dp * e
    BY SMT
  <2>3. QED
    BY <2>1, <2>2
<1> DEFINE x == (dp * d) \div cp
           y == (dp * e) \div cp
<1>2. x \in Nat /\ y \in Nat /\ x <= y
  BY <1>1, QuotientIsNat, QuotientGrows
<1> HIDE DEF x, y
<1>3. PercentMul(x, bonus) \in Nat /\ PercentMul(y, bonus) \in Nat
        /\ PercentMul(x, bonus) <= PercentMul(y, bonus)
  BY <1>2, PercentageAssumption, PercentMulIsNat, MulHalfUpGrows DEF PercentMul
<1>4. QED
  BY <1>3 DEF x, y

\* A debt for which the balance is enough is worth no more than the balance with
\* the bonus taken off, up to two units of collateral.
LEMMA EnoughForTheDebt ==
  ASSUME NEW cp \in Nat \ {0}, NEW dp \in Nat \ {0}, NEW bonus \in Nat, NEW balance \in Nat,
         NEW debt \in Nat, bonus >= PERCENTAGE_FACTOR,
         PercentMul((dp * debt) \div cp, bonus) <= balance
  PROVE  (dp * debt) * bonus <= (PERCENTAGE_FACTOR * balance) * cp + 2 * cp * bonus
<1> DEFINE F    == PERCENTAGE_FACTOR
           due  == dp * debt
           base == due \div cp
           raw  == base * bonus + F \div 2
           most == raw \div F
<1>1. F \in Nat \ {0} /\ F \div 2 \in Nat /\ due \in Nat /\ F <= bonus
  BY PercentageAssumption, QuotientIsNat, SMT
<1> HIDE DEF due
<1>2. base \in Nat /\ cp * base \in Nat /\ due <= cp * base + cp
  BY <1>1, QuotientBounds
<1>3. most <= balance
  BY DEF PercentMul, MulHalfUp, due
<1> HIDE DEF base
<1>4. base * bonus \in Nat /\ raw \in Nat /\ base * bonus <= raw
  BY <1>1, <1>2, SMT
<1> HIDE DEF raw
<1>5. most \in Nat /\ F * most \in Nat /\ raw <= F * most + F
  BY <1>1, <1>4, QuotientBounds
<1> HIDE DEF most, F
<1>6. F * most <= F * balance /\ F * balance \in Nat
  <2>1. most * F <= balance * F /\ balance * F \in Nat
    BY <1>1, <1>3, <1>5, ProductGrows
  <2>2. most * F = F * most /\ balance * F = F * balance
    BY <1>1, <1>5, SMT
  <2>3. QED
    BY <2>1, <2>2
<1>7. base * bonus + bonus <= F * balance + 2 * bonus
  BY <1>1, <1>4, <1>5, <1>6
<1>8. due * bonus <= (cp * base + cp) * bonus
  BY <1>1, <1>2, ProductGrows
<1>9. (base * bonus + bonus) * cp <= (F * balance + 2 * bonus) * cp
  BY <1>4, <1>6, <1>7, ProductGrows
<1>10. (cp * base + cp) * bonus = (base * bonus + bonus) * cp
  BY <1>2, SMT
<1>11. (F * balance + 2 * bonus) * cp = (F * balance) * cp + 2 * cp * bonus
  BY <1>6, SMT
<1>12. /\ due * bonus \in Nat /\ (cp * base + cp) * bonus \in Nat
       /\ (F * balance + 2 * bonus) * cp \in Nat
  <2>1. cp * base + cp \in Nat /\ F * balance + 2 * bonus \in Nat
    BY <1>2, <1>6
  <2>2. QED
    BY <1>1, <2>1, ProductGrows
<1>13. QED
  BY <1>8, <1>9, <1>10, <1>11, <1>12 DEF due, F

LEMMA FactorCancels ==
  ASSUME NEW x \in Nat, NEW y \in Nat, NEW b \in Nat \ {0}, x * b <= y * b
  PROVE  x <= y
<1>1. SUFFICES ASSUME y + 1 <= x PROVE FALSE
  OBVIOUS
<1>2. (y + 1) * b <= x * b
  BY <1>1, ProductGrows
<1>3. (y + 1) * b = y * b + b /\ y * b \in Nat /\ x * b \in Nat
  BY SMT
<1>4. QED
  BY <1>2, <1>3

\* What the balance pays for is worth a debt that it is enough for, up to two units
\* of either asset.
LEMMA BalancePaysEnough ==
  ASSUME NEW cp \in Nat \ {0}, NEW dp \in Nat \ {0}, NEW bonus \in Nat, NEW balance \in Nat,
         NEW debt \in Nat, bonus >= PERCENTAGE_FACTOR,
         PercentMul((dp * debt) \div cp, bonus) <= balance
  PROVE  dp * debt <= dp * (PercentDiv((cp * balance) \div dp, bonus) + 2) + 2 * cp
<1> DEFINE paid == PercentDiv((cp * balance) \div dp, bonus)
           worth == (PERCENTAGE_FACTOR * balance) * cp
<1>1. bonus \in Nat \ {0} /\ PERCENTAGE_FACTOR \in Nat
  BY PercentageAssumption
<1>2. paid \in Nat
  <2>1. (cp * balance) \div dp \in Nat
    <3>1. cp * balance \in Nat
      BY SMT
    <3>2. QED
      BY <3>1, QuotientIsNat
  <2>2. QED
    BY <2>1, PercentDivIsNat
<1>3. worth <= (dp * (paid + 2)) * bonus
  BY BalanceWorth
<1>4. (dp * debt) * bonus <= worth + 2 * cp * bonus
  BY EnoughForTheDebt
<1> HIDE DEF paid
<1>5. worth \in Nat
  <2>1. PERCENTAGE_FACTOR * balance \in Nat
    BY <1>1, SMT
  <2>2. QED
    BY <2>1, SMT
<1> HIDE DEF worth
<1>6. /\ dp * debt \in Nat /\ dp * (paid + 2) \in Nat /\ 2 * cp * bonus \in Nat
      /\ (dp * debt) * bonus \in Nat /\ (dp * (paid + 2)) * bonus \in Nat
      /\ (dp * (paid + 2) + 2 * cp) * bonus = (dp * (paid + 2)) * bonus + 2 * cp * bonus
  <2>1. dp * debt \in Nat /\ dp * (paid + 2) \in Nat
    BY <1>2, SMT
  <2> DEFINE a == dp * debt
             b == dp * (paid + 2)
  <2> HIDE DEF a, b
  <2>2. a \in Nat /\ b \in Nat
    BY <2>1 DEF a, b
  <2>3. 2 * cp * bonus \in Nat /\ a * bonus \in Nat /\ b * bonus \in Nat
          /\ (b + 2 * cp) * bonus = b * bonus + 2 * cp * bonus
    BY <2>2, SMT
  <2>4. QED
    BY <2>1, <2>3 DEF a, b
<1>7. (dp * debt) * bonus <= (dp * (paid + 2) + 2 * cp) * bonus
  BY <1>3, <1>4, <1>5, <1>6
<1>8. dp * (paid + 2) + 2 * cp \in Nat
  BY <1>6
<1>9. dp * debt <= dp * (paid + 2) + 2 * cp
  BY <1>1, <1>6, <1>7, <1>8, FactorCancels
<1>10. QED
  BY <1>9 DEF paid

\* Offering to cover more of a debt never seizes less, nor pays less for it, up to
\* two units of either asset where the collateral runs out: a liquidator gains
\* nothing by asking for more than the position can pay.
THEOREM AskingMoreNeverPaysLess == MathSpec => AskingMorePaysMore
<1>1. InputOK /\ [AskForMore]_input =>
        [/\ terms'.seized >= terms.seized
         /\ input.debtPrice * (terms'.debt + 2) + 2 * input.collateralPrice >=
              input.debtPrice * terms.debt]_input
  <2> SUFFICES ASSUME InputOK, AskForMore
               PROVE  /\ terms'.seized >= terms.seized
                      /\ input.debtPrice * (terms'.debt + 2) + 2 * input.collateralPrice >=
                           input.debtPrice * terms.debt
    OBVIOUS
  <2> DEFINE cp      == input.collateralPrice
             dp      == input.debtPrice
             d       == input.debtToCover
             bonus   == input.bonus
             balance == input.balance
             most(debt) == PercentMul((dp * debt) \div cp, bonus)
             paid    == PercentDiv((cp * balance) \div dp, bonus)
             debt(e) == Least(IF most(e) > balance THEN paid ELSE e, e)
  <2>1. /\ input \in LiquidationInput /\ cp \in Nat \ {0} /\ dp \in Nat \ {0} /\ d \in Nat
        /\ balance \in Nat /\ bonus \in Nat /\ bonus >= PERCENTAGE_FACTOR
    BY PercentageAssumption DEF InputOK, LiquidationInput
  <2>2. input' = [input EXCEPT !.debtToCover = d + 1]
    BY DEF AskForMore
  <2>3. /\ terms.seized = IF most(d) > balance THEN balance ELSE most(d)
        /\ terms.debt = debt(d)
    BY DEF terms, LiquidationTerms, AvailableCollateral
  <2>4. /\ input'.collateralPrice = cp /\ input'.debtPrice = dp /\ input'.debtToCover = d + 1
        /\ input'.balance = balance /\ input'.bonus = bonus /\ input'.fee = input.fee
    BY <2>1, <2>2 DEF LiquidationInput
  <2>5. /\ terms'.seized = IF most(d + 1) > balance THEN balance ELSE most(d + 1)
        /\ terms'.debt = debt(d + 1)
    BY <2>4 DEF terms, LiquidationTerms, AvailableCollateral
  <2>6. most(d) \in Nat /\ most(d + 1) \in Nat /\ most(d) <= most(d + 1)
    <3> HIDE DEF cp, dp, d, bonus, balance
    <3>1. d + 1 \in Nat /\ d <= d + 1
      BY <2>1
    <3>2. QED
      BY <2>1, <3>1, OfferGrows
  <2>7. paid \in Nat
    <3>1. (cp * balance) \div dp \in Nat
      <4>1. cp * balance \in Nat
        BY <2>1, SMT
      <4>2. QED
        BY <2>1, <4>1, QuotientIsNat
    <3>2. QED
      BY <2>1, <3>1, PercentDivIsNat
  <2>8. most(d) <= balance => dp * d <= dp * (paid + 2) + 2 * cp
    BY <2>1, BalancePaysEnough
  <2> HIDE DEF most, paid, cp, dp, d, bonus, balance
  <2>9. debt(d) \in Nat /\ debt(d + 1) \in Nat
    BY <2>1, <2>7 DEF Least
  <2>10. CASE debt(d) <= debt(d + 1) + 2
    <3>1. dp * debt(d) <= dp * (debt(d + 1) + 2) /\ dp * debt(d) \in Nat
            /\ dp * (debt(d + 1) + 2) \in Nat
      <4> DEFINE x == debt(d)
                 y == debt(d + 1) + 2
      <4>1. x \in Nat /\ y \in Nat /\ x <= y
        BY <2>9, <2>10
      <4> HIDE DEF x, y
      <4>2. x * dp <= y * dp /\ x * dp \in Nat /\ y * dp \in Nat
        BY <2>1, <4>1, ProductGrows
      <4>3. x * dp = dp * x /\ y * dp = dp * y
        BY <2>1, <4>1, SMT
      <4>4. QED
        BY <4>2, <4>3 DEF x, y
    <3>2. dp * (debt(d + 1) + 2) + 2 * cp >= dp * debt(d)
      BY <2>1, <3>1
    <3>3. QED
      BY <2>3, <2>5, <2>6, <2>1, <3>2 DEF cp, dp
  <2>11. CASE ~(debt(d) <= debt(d + 1) + 2)
    <3>1. most(d) <= balance /\ debt(d) = d /\ debt(d + 1) = paid
      BY <2>1, <2>6, <2>7, <2>11 DEF Least
    <3>2. dp * (debt(d + 1) + 2) + 2 * cp >= dp * debt(d)
      BY <2>8, <3>1
    <3>3. QED
      BY <2>3, <2>5, <2>6, <2>1, <3>2 DEF cp, dp
  <2>12. QED
    BY <2>10, <2>11
<1>2. QED
  BY <1>1, InputInvariance, PTL DEF MathSpec, AskingMorePaysMore
=============================================================================
