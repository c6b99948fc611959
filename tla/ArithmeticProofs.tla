--------------------------- MODULE ArithmeticProofs -------------------------
(***************************************************************************)
(* Facts about the arithmetic of the protocol, for every unit and every    *)
(* operand: what its divisions yield, what a liquidation takes, and the    *)
(* laws of the sums over the accounts.                                     *)
(***************************************************************************)
EXTENDS LiquidationMath, Functions, FiniteSetTheorems, TLAPS

\* A division of natural numbers is a natural number.
LEMMA QuotientIsNat ==
  ASSUME NEW x \in Nat, NEW y \in Nat \ {0}
  PROVE  x \div y \in Nat
  BY SMT

\* The fixed-point operations yield natural numbers.
LEMMA MulHalfUpIsNat ==
  ASSUME NEW x \in Nat, NEW y \in Nat, NEW unit \in Nat \ {0}
  PROVE  MulHalfUp(x, y, unit) \in Nat
<1>1. x * y \in Nat /\ unit \div 2 \in Nat
  BY QuotientIsNat, SMT
<1>2. x * y + unit \div 2 \in Nat
  BY <1>1
<1>3. QED
  BY <1>2, QuotientIsNat DEF MulHalfUp

LEMMA DivHalfUpIsNat ==
  ASSUME NEW x \in Nat, NEW y \in Nat, NEW unit \in Nat \ {0}
  PROVE  DivHalfUp(x, y, unit) \in Nat
<1>1. CASE y = 0
  BY <1>1 DEF DivHalfUp
<1>2. CASE y # 0
  <2>1. x * unit \in Nat /\ y \div 2 \in Nat
    BY QuotientIsNat, SMT
  <2>2. x * unit + y \div 2 \in Nat
    BY <2>1
  <2>3. QED
    BY <1>2, <2>2, QuotientIsNat DEF DivHalfUp
<1>3. QED
  BY <1>1, <1>2

LEMMA PercentMulIsNat ==
  ASSUME NEW x \in Nat, NEW y \in Nat
  PROVE  PercentMul(x, y) \in Nat
  BY MulHalfUpIsNat, PercentageAssumption DEF PercentMul

LEMMA PercentDivIsNat ==
  ASSUME NEW x \in Nat, NEW y \in Nat
  PROVE  PercentDiv(x, y) \in Nat
  BY DivHalfUpIsNat, PercentageAssumption DEF PercentDiv

\* Truncation loses less than the divisor.
LEMMA QuotientBounds ==
  ASSUME NEW n \in Nat, NEW y \in Nat \ {0}
  PROVE  /\ n \div y \in Nat
         /\ y * (n \div y) \in Nat
         /\ y * (n \div y) <= n
         /\ n <= y * (n \div y) + y
<1> DEFINE d == n \div y
           r == n % y
<1>1. d \in Nat /\ r \in Nat /\ n = y * d + r /\ r < y
  BY SMT
<1>2. y * d \in Nat
  BY <1>1, SMT
<1> HIDE DEF d, r
<1>3. y * d <= n /\ n <= y * d + y
  BY <1>1, <1>2
<1>4. QED
  BY <1>1, <1>2, <1>3 DEF d

LEMMA ProductGrows ==
  ASSUME NEW x \in Nat, NEW y \in Nat, NEW z \in Nat, x <= y
  PROVE  x * z <= y * z /\ x * z \in Nat /\ y * z \in Nat
<1>1. PICK k \in Nat : y = x + k
  <2>1. y - x \in Nat /\ y = x + (y - x)
    OBVIOUS
  <2>2. QED
    BY <2>1
<1>2. x * z \in Nat /\ k * z \in Nat /\ y * z = x * z + k * z
  BY <1>1, SMT
<1>3. QED
  BY <1>2

\* What goes x times into n: a quotient is the largest such number.
LEMMA QuotientAtLeast ==
  ASSUME NEW n \in Nat, NEW x \in Nat, NEW y \in Nat \ {0}, n >= x * y
  PROVE  n \div y >= x
<1> DEFINE d == n \div y
           r == n % y
<1>1. d \in Nat /\ r \in Nat /\ n = y * d + r /\ r < y
  BY SMT
<1>2. SUFFICES ASSUME d + 1 <= x PROVE FALSE
  BY <1>1
<1>3. PICK k \in Nat : x = d + 1 + k
  <2>1. x - (d + 1) \in Nat /\ x = d + 1 + (x - (d + 1))
    BY <1>1, <1>2
  <2>2. QED
    BY <2>1
<1>4. x * y = y * d + y + k * y
  BY <1>1, <1>3, SMT
<1>5. k * y \in Nat /\ y * d \in Nat
  BY <1>1, <1>3, SMT
<1>6. QED
  BY <1>1, <1>4, <1>5

\* A percentage of 100% or more takes nothing away.
LEMMA PercentMulAtLeast ==
  ASSUME NEW x \in Nat, NEW y \in Nat, y >= PERCENTAGE_FACTOR
  PROVE  PercentMul(x, y) >= x
<1>1. PERCENTAGE_FACTOR \in Nat \ {0} /\ PERCENTAGE_FACTOR \div 2 \in Nat
  BY PercentageAssumption, QuotientIsNat
<1>2. PICK k \in Nat : y = PERCENTAGE_FACTOR + k
  <2>1. y - PERCENTAGE_FACTOR \in Nat /\ y = PERCENTAGE_FACTOR + (y - PERCENTAGE_FACTOR)
    BY <1>1
  <2>2. QED
    BY <2>1
<1>3. x * y \in Nat /\ x * PERCENTAGE_FACTOR \in Nat /\ x * k \in Nat
  BY <1>1, SMT
<1>4. x * y = x * PERCENTAGE_FACTOR + x * k
  BY <1>1, <1>2, SMT
<1>5. x * y + PERCENTAGE_FACTOR \div 2 \in Nat
      /\ x * y + PERCENTAGE_FACTOR \div 2 >= x * PERCENTAGE_FACTOR
  BY <1>1, <1>3, <1>4
<1>6. QED
  BY <1>1, <1>5, QuotientAtLeast DEF PercentMul, MulHalfUp

\* Division by a unit is monotone.
LEMMA QuotientGrows ==
  ASSUME NEW x \in Nat, NEW y \in Nat, NEW unit \in Nat \ {0}, x <= y
  PROVE  x \div unit <= y \div unit
<1>1. x \div unit \in Nat /\ unit * (x \div unit) \in Nat /\ unit * (x \div unit) <= x
  BY QuotientBounds
<1>2. y >= (x \div unit) * unit
  BY <1>1, SMT
<1>3. QED
  BY <1>1, <1>2, QuotientAtLeast

\* What is added to a whole number of units is counted exactly, if that many is
\* a whole number of units again.
LEMMA WholeUnits ==
  ASSUME NEW x \in Nat, NEW n \in Nat, NEW unit \in Nat \ {0},
         x % unit = 0, (x + n) % unit = 0
  PROVE  (x + n) \div unit = x \div unit + n \div unit
<1> DEFINE d == x \div unit
           e == (x + n) \div unit
<1>1. /\ d \in Nat /\ e \in Nat /\ x = unit * d /\ x + n = unit * e
  BY SMT
<1> HIDE DEF d, e
<1>2. d <= e
  <2>1. SUFFICES ASSUME e + 1 <= d PROVE FALSE
    BY <1>1
  <2>2. (e + 1) * unit <= d * unit
    BY <1>1, <2>1, ProductGrows
  <2>3. (e + 1) * unit = unit * e + unit /\ d * unit = unit * d /\ unit * e \in Nat /\ unit * d \in Nat
    BY <1>1, SMT
  <2>4. QED
    BY <1>1, <2>2, <2>3
<1>3. PICK k \in Nat : e = d + k
  <2>1. e - d \in Nat /\ e = d + (e - d)
    BY <1>1, <1>2
  <2>2. QED
    BY <2>1
<1>4. unit * e = unit * d + unit * k /\ unit * k \in Nat /\ unit * d \in Nat
  BY <1>1, <1>3, SMT
<1>5. n = unit * k
  BY <1>1, <1>4
<1>6. n \div unit = k
  <2>1. n \div unit >= k
    <3>1. n >= k * unit
      BY <1>3, <1>5, SMT
    <3>2. QED
      BY <3>1, QuotientAtLeast
  <2>2. SUFFICES ASSUME k + 1 <= n \div unit PROVE FALSE
    BY <2>1, QuotientIsNat
  <2>3. unit * (n \div unit) <= n /\ n \div unit \in Nat
    BY QuotientBounds
  <2>4. (k + 1) * unit <= (n \div unit) * unit
    BY <2>2, <2>3, ProductGrows
  <2>5. (k + 1) * unit = unit * k + unit /\ (n \div unit) * unit = unit * (n \div unit)
        /\ unit * k \in Nat /\ unit * (n \div unit) \in Nat
    BY <2>3, SMT
  <2>6. QED
    BY <1>5, <2>3, <2>4, <2>5
<1>7. QED
  BY <1>3, <1>6 DEF d, e

LEMMA MulHalfUpGrows ==
  ASSUME NEW x \in Nat, NEW y \in Nat, NEW z \in Nat, NEW unit \in Nat \ {0}, x <= y
  PROVE  MulHalfUp(x, z, unit) <= MulHalfUp(y, z, unit)
<1>1. x * z \in Nat /\ y * z \in Nat /\ x * z <= y * z /\ unit \div 2 \in Nat
  BY ProductGrows, QuotientIsNat
<1>2. x * z + unit \div 2 <= y * z + unit \div 2 /\ x * z + unit \div 2 \in Nat
        /\ y * z + unit \div 2 \in Nat
  BY <1>1
<1>3. QED
  BY <1>2, QuotientGrows DEF MulHalfUp

LEMMA MulHalfUpCommutes ==
  ASSUME NEW x \in Nat, NEW y \in Nat, NEW unit \in Nat \ {0}
  PROVE  MulHalfUp(x, y, unit) = MulHalfUp(y, x, unit)
<1>1. x * y = y * x
  BY SMT
<1>2. QED
  BY <1>1 DEF MulHalfUp

\* What is added below half a unit is rounded away.
LEMMA RoundedAway ==
  ASSUME NEW x \in Nat, NEW unit \in Nat \ {0}
  PROVE  (x * unit + unit \div 2) \div unit = x
<1> DEFINE h == unit \div 2
           n == x * unit + h
<1>1. h \in Nat /\ h < unit
  BY SMT
<1>2. x * unit \in Nat
  BY SMT
<1>3. n \in Nat /\ n >= x * unit
  BY <1>1, <1>2
<1>4. n \div unit \in Nat /\ unit * (n \div unit) \in Nat /\ unit * (n \div unit) <= n
        /\ n \div unit >= x
  BY <1>3, QuotientBounds, QuotientAtLeast
<1> HIDE DEF h
<1>5. ASSUME n \div unit >= x + 1
      PROVE  FALSE
  <2>1. (x + 1) * unit <= (n \div unit) * unit
    BY <1>4, <1>5, ProductGrows
  <2> DEFINE q == n \div unit
             m == x * unit
  <2>2. (x + 1) * unit = m + unit /\ q * unit = unit * q /\ q \in Nat /\ unit * q <= n
    BY <1>4, SMT
  <2> HIDE DEF q, m
  <2>3. m + unit <= n
    BY <2>1, <2>2, <1>3 DEF q
  <2>4. QED
    BY <2>3, <1>1, <1>2 DEF m
<1>6. n \div unit = x
  BY <1>4, <1>5
<1>7. QED
  BY <1>6 DEF h

LEMMA MulHalfUpOne ==
  ASSUME NEW x \in Nat, NEW unit \in Nat \ {0}
  PROVE  MulHalfUp(x, unit, unit) = x /\ MulHalfUp(unit, x, unit) = x
  BY RoundedAway, MulHalfUpCommutes DEF MulHalfUp

LEMMA MulHalfUpZero ==
  ASSUME NEW x \in Nat, NEW unit \in Nat \ {0}
  PROVE  MulHalfUp(x, 0, unit) = 0 /\ MulHalfUp(0, x, unit) = 0
<1>1. (0 * unit + unit \div 2) \div unit = 0
  BY RoundedAway
<1>2. x * 0 = 0 /\ 0 * x = 0 /\ 0 * unit = 0
  BY SMT
<1>3. QED
  BY <1>1, <1>2 DEF MulHalfUp

\* A smaller percentage takes a smaller part.
LEMMA PercentMulGrows ==
  ASSUME NEW v \in Nat, NEW p \in Nat, NEW q \in Nat, p <= q
  PROVE  PercentMul(v, p) <= PercentMul(v, q)
<1>1. PERCENTAGE_FACTOR \in Nat \ {0}
  BY PercentageAssumption
<1>2. MulHalfUp(p, v, PERCENTAGE_FACTOR) <= MulHalfUp(q, v, PERCENTAGE_FACTOR)
  BY <1>1, MulHalfUpGrows
<1>3. QED
  BY <1>1, <1>2, MulHalfUpCommutes DEF PercentMul

\* The inputs of a liquidation: prices that are not zero.
LiquidationInput ==
  [collateralPrice : Nat \ {0}, debtPrice : Nat \ {0}, fee : Nat, debtToCover : Nat,
   balance : Nat, bonus : Nat]

\* A liquidation takes no more than the collateral balance of the position and
\* pays no more debt than was asked for.
LEMMA LiquidationTermsBounds ==
  ASSUME NEW q \in LiquidationInput, q.bonus >= PERCENTAGE_FACTOR
  PROVE  /\ LiquidationTerms(q).seized \in 0 .. q.balance
         /\ LiquidationTerms(q).fee \in Nat
         /\ LiquidationTerms(q).debt \in 0 .. q.debtToCover
<1> DEFINE base    == (q.debtPrice * q.debtToCover) \div q.collateralPrice
           most    == PercentMul(base, q.bonus)
           worth   == (q.collateralPrice * q.balance) \div q.debtPrice
           capped  == most > q.balance
           seized  == IF capped THEN q.balance ELSE most
           feeBase == IF capped THEN PercentDiv(q.balance, q.bonus) ELSE most - base
           fee     == IF q.fee = 0 THEN 0 ELSE PercentMul(feeBase, q.fee)
           debt    == IF capped THEN PercentDiv(worth, q.bonus) ELSE q.debtToCover
<1>0. /\ q.collateralPrice \in Nat \ {0} /\ q.debtPrice \in Nat \ {0} /\ q.fee \in Nat
      /\ q.debtToCover \in Nat /\ q.balance \in Nat /\ q.bonus \in Nat
  BY DEF LiquidationInput
<1>1. base \in Nat /\ worth \in Nat
  <2>1. q.debtPrice * q.debtToCover \in Nat /\ q.collateralPrice * q.balance \in Nat
    BY <1>0, SMT
  <2>2. QED
    BY <1>0, <2>1, QuotientIsNat
<1>2. most \in Nat
  BY <1>0, <1>1, PercentMulIsNat
<1>3. PercentDiv(q.balance, q.bonus) \in Nat /\ PercentDiv(worth, q.bonus) \in Nat
  BY <1>0, <1>1, PercentDivIsNat
<1>4. most >= base
  BY <1>0, <1>1, PercentMulAtLeast
<1>5. feeBase \in Nat
  BY <1>1, <1>2, <1>3, <1>4
<1>6. fee \in Nat
  BY <1>0, <1>5, PercentMulIsNat
<1>7. seized \in 0 .. q.balance
  BY <1>0, <1>2
<1>8. debt \in Nat
  BY <1>0, <1>3
<1> HIDE DEF seized, fee, debt
<1>9. AvailableCollateral(q) = [seized |-> seized, fee |-> fee, debt |-> debt]
  BY DEF AvailableCollateral, seized, fee, debt
<1>10. LiquidationTerms(q) =
         [seized |-> seized, fee |-> fee, debt |-> Least(debt, q.debtToCover)]
  BY <1>9 DEF LiquidationTerms
<1>11. Least(debt, q.debtToCover) \in 0 .. q.debtToCover
  BY <1>0, <1>8 DEF Least
<1>12. QED
  BY <1>6, <1>7, <1>10, <1>11

-----------------------------------------------------------------------------
(* The price of a liquidation.                                              *)

\* The collateral offered for a debt is worth that debt with the bonus, up to
\* one unit of collateral: both divisions that compute it lose or gain less.
LEMMA OfferWorth ==
  ASSUME NEW cp \in Nat \ {0}, NEW dp \in Nat \ {0}, NEW debt \in Nat, NEW bonus \in Nat,
         bonus >= PERCENTAGE_FACTOR
  PROVE  LET most == PercentMul((dp * debt) \div cp, bonus)
         IN (PERCENTAGE_FACTOR * most) * cp <= (dp * debt) * bonus + bonus * cp
<1> DEFINE F    == PERCENTAGE_FACTOR
           due  == dp * debt
           base == due \div cp
           raw  == base * bonus + F \div 2
           most == raw \div F
<1>1. F \in Nat \ {0} /\ F \div 2 \in Nat /\ F \div 2 <= bonus /\ due \in Nat
  BY PercentageAssumption, QuotientIsNat, SMT
<1> HIDE DEF due
<1>2. base \in Nat /\ cp * base <= due /\ cp * base \in Nat
  BY <1>1, QuotientBounds
<1> HIDE DEF base
<1>3. base * bonus \in Nat /\ raw \in Nat /\ raw <= base * bonus + bonus
  BY <1>1, <1>2, SMT
<1>4. PercentMul(base, bonus) = most
  BY DEF PercentMul, MulHalfUp
<1> HIDE DEF raw
<1>5. most \in Nat /\ F * most \in Nat /\ F * most <= raw
  BY <1>1, <1>3, QuotientBounds
<1> HIDE DEF most, F
<1>6. F * most <= base * bonus + bonus
  BY <1>1, <1>3, <1>5
<1>7. (F * most) * cp <= (base * bonus + bonus) * cp
  BY <1>3, <1>5, <1>6, ProductGrows
<1>8. (base * bonus + bonus) * cp = (cp * base) * bonus + bonus * cp
  BY <1>2, SMT
<1>9. (cp * base) * bonus <= due * bonus /\ (cp * base) * bonus \in Nat /\ due * bonus \in Nat
  BY <1>1, <1>2, ProductGrows
<1>10. (F * most) * cp \in Nat /\ bonus * cp \in Nat
  BY <1>5, SMT
<1>11. (F * most) * cp <= due * bonus + bonus * cp
  BY <1>7, <1>8, <1>9, <1>10
<1>12. QED
  BY <1>4, <1>11 DEF F, due, base

\* The debt asked for a whole balance pays for it without the bonus, up to two
\* units of debt.
LEMMA BalanceWorth ==
  ASSUME NEW cp \in Nat \ {0}, NEW dp \in Nat \ {0}, NEW balance \in Nat, NEW bonus \in Nat,
         bonus >= PERCENTAGE_FACTOR
  PROVE  LET debt == PercentDiv((cp * balance) \div dp, bonus)
         IN (PERCENTAGE_FACTOR * balance) * cp <= (dp * (debt + 2)) * bonus
<1> DEFINE F     == PERCENTAGE_FACTOR
           value == cp * balance
           worth == value \div dp
           raw   == worth * F + bonus \div 2
           debt  == raw \div bonus
<1>1. F \in Nat \ {0} /\ bonus \in Nat \ {0} /\ bonus \div 2 \in Nat /\ value \in Nat
  BY PercentageAssumption, QuotientIsNat, SMT
<1> HIDE DEF value
<1>2. worth \in Nat /\ dp * worth \in Nat /\ value <= dp * worth + dp
  BY <1>1, QuotientBounds
<1> HIDE DEF worth
<1>3. PercentDiv(worth, bonus) = debt
  BY <1>1 DEF PercentDiv, DivHalfUp
<1> HIDE DEF F
<1>4. worth * F \in Nat /\ raw \in Nat /\ worth * F <= raw
  BY <1>1, <1>2, SMT
<1> HIDE DEF raw
<1>5. debt \in Nat /\ bonus * debt \in Nat /\ raw <= bonus * debt + bonus
  BY <1>1, <1>4, QuotientBounds
<1> HIDE DEF debt
<1>6. worth * F <= bonus * debt + bonus
  BY <1>1, <1>4, <1>5
<1>7. F <= bonus
  BY DEF F
<1>8. worth * F + F <= bonus * debt + bonus + bonus
  BY <1>1, <1>4, <1>5, <1>6, <1>7
<1>9. (worth * F + F) * dp <= (bonus * debt + bonus + bonus) * dp
      /\ (worth * F + F) * dp \in Nat
  BY <1>1, <1>4, <1>5, <1>8, ProductGrows
<1>10. value * F <= (dp * worth + dp) * F /\ value * F \in Nat
  BY <1>1, <1>2, ProductGrows
<1>11. (dp * worth + dp) * F = (worth * F + F) * dp
  BY <1>1, <1>2, SMT
<1>12. (bonus * debt + bonus + bonus) * dp = (dp * (debt + 2)) * bonus
  BY <1>5, SMT
<1>13. (F * balance) * cp = value * F
  BY <1>1, SMT DEF value
<1>14. (dp * (debt + 2)) * bonus \in Nat
  BY <1>5, SMT
<1>15. (F * balance) * cp <= (dp * (debt + 2)) * bonus
  BY <1>9, <1>10, <1>11, <1>12, <1>13, <1>14
<1>16. QED
  BY <1>3, <1>15 DEF F, value, worth

\* What is seized is worth the debt paid with the bonus, up to one unit of the
\* collateral and two of the debt, for every input.
LEMMA TermsWithinBonus ==
  ASSUME NEW q \in LiquidationInput, q.bonus >= PERCENTAGE_FACTOR
  PROVE  LET terms == LiquidationTerms(q)
         IN PERCENTAGE_FACTOR * q.collateralPrice * terms.seized <=
              q.bonus * (q.debtPrice * (terms.debt + 2) + q.collateralPrice)
<1> DEFINE F     == PERCENTAGE_FACTOR
           cp    == q.collateralPrice
           dp    == q.debtPrice
           b     == q.bonus
           most  == PercentMul((dp * q.debtToCover) \div cp, b)
           asked == PercentDiv((cp * q.balance) \div dp, b)
           terms == LiquidationTerms(q)
<1>1. /\ cp \in Nat \ {0} /\ dp \in Nat \ {0} /\ b \in Nat /\ F \in Nat \ {0}
      /\ q.debtToCover \in Nat /\ q.balance \in Nat
  BY PercentageAssumption DEF LiquidationInput
<1>2. dp * q.debtToCover \in Nat /\ cp * q.balance \in Nat
  BY <1>1, SMT
<1>3. most \in Nat /\ asked \in Nat
  BY <1>1, <1>2, QuotientIsNat, PercentMulIsNat, PercentDivIsNat
<1>4. (F * most) * cp <= (dp * q.debtToCover) * b + b * cp
  BY <1>1, OfferWorth
<1>5. (F * q.balance) * cp <= (dp * (asked + 2)) * b
  BY <1>1, BalanceWorth
<1>6. /\ terms.seized = IF most > q.balance THEN q.balance ELSE most
      /\ terms.debt = Least(IF most > q.balance THEN asked ELSE q.debtToCover, q.debtToCover)
  BY DEF LiquidationTerms, AvailableCollateral
<1>7. terms.seized \in Nat /\ terms.debt \in Nat
  BY <1>1, <1>3, <1>6 DEF Least
<1> HIDE DEF most, asked, terms, F, cp, dp, b
<1>8. CASE terms.debt = q.debtToCover
  <2>1. (F * terms.seized) * cp <= (F * most) * cp
        /\ (F * terms.seized) * cp \in Nat /\ (F * most) * cp \in Nat
    <3>1. terms.seized <= most
      BY <1>1, <1>3, <1>6
    <3>2. terms.seized * F <= most * F /\ terms.seized * F \in Nat /\ most * F \in Nat
      BY <1>1, <1>3, <1>7, <3>1, ProductGrows
    <3>3. (terms.seized * F) * cp <= (most * F) * cp
          /\ (terms.seized * F) * cp \in Nat /\ (most * F) * cp \in Nat
      BY <1>1, <3>2, ProductGrows
    <3>4. terms.seized * F = F * terms.seized /\ most * F = F * most
      BY <1>1, <1>3, <1>7, SMT
    <3>5. QED
      BY <3>3, <3>4
  <2>2. (dp * terms.debt) * b + b * cp + 2 * (dp * b) = b * (dp * (terms.debt + 2) + cp)
        /\ (dp * terms.debt) * b \in Nat /\ b * cp \in Nat /\ dp * b \in Nat
    BY <1>1, <1>7, SMT
  <2>3. (F * terms.seized) * cp <= b * (dp * (terms.debt + 2) + cp)
    BY <1>4, <1>8, <2>1, <2>2
  <2>4. (F * terms.seized) * cp = F * cp * terms.seized
    BY <1>1, <1>7, SMT
  <2>5. QED
    BY <2>3, <2>4 DEF F, cp, dp, b, terms
<1>9. CASE terms.debt # q.debtToCover
  <2>1. terms.debt = asked /\ terms.seized = q.balance
    BY <1>1, <1>3, <1>6, <1>9 DEF Least
  <2>2. (dp * (asked + 2)) * b + b * cp = b * (dp * (asked + 2) + cp)
        /\ (dp * (asked + 2)) * b \in Nat /\ b * cp \in Nat
    BY <1>1, <1>3, SMT
  <2>3. (F * q.balance) * cp = F * cp * q.balance /\ (F * q.balance) * cp \in Nat
    BY <1>1, SMT
  <2>4. F * cp * q.balance <= b * (dp * (asked + 2) + cp)
    BY <1>5, <2>2, <2>3
  <2>5. QED
    BY <2>1, <2>4 DEF F, cp, dp, b, terms
<1>10. QED
  BY <1>8, <1>9

-----------------------------------------------------------------------------
(* The laws of a sum over a finite set: what SumFunctionOnSet of the       *)
(* community modules returns, element by element.  The induction is        *)
(* carried out by the minimal element of the set of counterexamples under  *)
(* the strict subset ordering.                                             *)

\* The function the fold of f is defined by, on the subsets of S.
OneOf(s) == CHOOSE x \in s : TRUE
Folds(g, f, S) ==
  g = [s \in SUBSET S |-> IF s = {} THEN 0 ELSE f[OneOf(s)] + g[s \ {OneOf(s)}]]

LEMMA OneOfIsElement ==
  ASSUME NEW s, s # {}
  PROVE  OneOf(s) \in s
  BY DEF OneOf

LEMMA SumDefinition ==
  ASSUME NEW f, NEW S
  PROVE  SumFunctionOnSet(f, S) = (CHOOSE g : Folds(g, f, S))[S]
  BY DEF SumFunctionOnSet, FoldFunctionOnSet, MapThenFoldSet, Folds, OneOf

\* A set of subsets of a finite set, if there is any, has a minimal one.
LEMMA MinimalSubset ==
  ASSUME NEW S, IsFiniteSet(S), NEW T \in SUBSET SUBSET S, T # {}
  PROVE  \E s \in T : /\ IsFiniteSet(s) 
                      /\ \A t \in SUBSET s : t # s => t \notin T
<1> DEFINE R == StrictSubsetOrdering(S)
<1>1. IsWellFoundedOn(R, SUBSET S)
  BY FS_StrictSubsetOrderingWellFounded, FS_FiniteSubsetsOfFinite
<1> HIDE DEF R
<1>2. PICK s \in T : \A t \in T : ~(<<t, s>> \in R)
  BY <1>1, WFMin
<1>3. IsFiniteSet(s)
  BY FS_Subset
<1>4. ASSUME NEW t \in SUBSET s, t # s, t \in T
      PROVE  FALSE
  <2>1. <<t, s>> \in R
    BY <1>4 DEF R, StrictSubsetOrdering
  <2>2. QED
    BY <1>2, <1>4, <2>1
<1>5. QED
  BY <1>3, <1>4

\* Two folds of one function agree where both are defined.
LEMMA FoldIsUnique ==
  ASSUME NEW f, NEW S, NEW U, IsFiniteSet(S),
         NEW g, Folds(g, f, S), NEW h, Folds(h, f, U)
  PROVE  \A s \in SUBSET S : s \in SUBSET U => g[s] = h[s]
<1> DEFINE T == {s \in SUBSET S : s \in SUBSET U /\ g[s] # h[s]}
<1> SUFFICES ASSUME T # {} PROVE FALSE
  OBVIOUS
<1>1. PICK s \in T : \A t \in SUBSET s : t # s => t \notin T
  <2> HIDE DEF T
  <2>1. T \in SUBSET SUBSET S
    BY DEF T
  <2>2. QED
    BY <2>1, MinimalSubset
<1>2. s \in SUBSET S /\ s \in SUBSET U /\ g[s] # h[s]
  OBVIOUS
<1>3. g[s] = IF s = {} THEN 0 ELSE f[OneOf(s)] + g[s \ {OneOf(s)}]
  BY <1>2 DEF Folds
<1>4. h[s] = IF s = {} THEN 0 ELSE f[OneOf(s)] + h[s \ {OneOf(s)}]
  BY <1>2 DEF Folds
<1>5. s # {}
  BY <1>2, <1>3, <1>4
<1> DEFINE t == s \ {OneOf(s)}
<1>6. t \in SUBSET s /\ t # s
  BY <1>5, OneOfIsElement
<1>7. g[t] = h[t]
  BY <1>1, <1>2, <1>6
<1>8. QED
  BY <1>2, <1>3, <1>4, <1>7

\* Every function can be folded over every finite set.
LEMMA FoldExists ==
  ASSUME NEW f, NEW S, IsFiniteSet(S)
  PROVE  \A s \in SUBSET S : \E g : Folds(g, f, s)
<1> DEFINE T == {s \in SUBSET S : ~ \E g : Folds(g, f, s)}
<1> SUFFICES ASSUME T # {} PROVE FALSE
  OBVIOUS
<1>1. PICK s \in T : IsFiniteSet(s) /\ \A t \in SUBSET s : t # s => t \notin T
  <2> HIDE DEF T
  <2>1. T \in SUBSET SUBSET S
    BY DEF T
  <2>2. QED
    BY <2>1, MinimalSubset
<1> DEFINE fold(t) == CHOOSE g : Folds(g, f, t)
           rest(t) == t \ {OneOf(t)}
           value(t) == IF t = {} THEN 0 ELSE f[OneOf(t)] + fold(rest(t))[rest(t)]
           g == [t \in SUBSET s |-> value(t)]
<1>2. \A t \in SUBSET s : t # s => Folds(fold(t), f, t)
  <2>1. ASSUME NEW t \in SUBSET s, t # s
        PROVE  \E h : Folds(h, f, t)
    BY <1>1, <2>1
  <2>2. QED
    BY <2>1
<1>3. \A t \in SUBSET s : t # {} => rest(t) \in SUBSET t /\ rest(t) # t /\ rest(t) # s
  BY OneOfIsElement
<1> HIDE DEF fold
<1>4. \A t \in SUBSET s : t # s => value(t) = fold(t)[t]
  <2>1. SUFFICES ASSUME NEW t \in SUBSET s, t # s, t # {}
                 PROVE  value(t) = fold(t)[t]
    <3>1. {} \in SUBSET s
      OBVIOUS
    <3>2. s # {} => fold({})[{}] = 0
      BY <1>2, <3>1 DEF Folds
    <3>3. QED
      BY <3>2
  <2>2. Folds(fold(t), f, t)
    BY <1>2, <2>1
  <2>3. Folds(fold(rest(t)), f, rest(t))
    BY <1>2, <1>3, <2>1
  <2>4. IsFiniteSet(t)
    BY <1>1, FS_Subset
  <2>5. rest(t) \in SUBSET t
    BY <1>3, <2>1
  <2>6. fold(t)[rest(t)] = fold(rest(t))[rest(t)]
    <3> DEFINE r == rest(t)
               gt == fold(t)
               gr == fold(r)
    <3> HIDE DEF r, gt, gr
    <3>1. QED
      BY <2>2, <2>3, <2>4, <2>5, FoldIsUnique DEF r, gt, gr
  <2>7. fold(t)[t] = f[OneOf(t)] + fold(t)[rest(t)]
    BY <2>1, <2>2 DEF Folds
  <2>8. QED
    BY <2>1, <2>6, <2>7
<1>5. Folds(g, f, s)
  <2>1. ASSUME NEW t \in SUBSET s
        PROVE  value(t) = IF t = {} THEN 0 ELSE f[OneOf(t)] + g[rest(t)]
    <3>1. SUFFICES ASSUME t # {} PROVE g[rest(t)] = fold(rest(t))[rest(t)]
      OBVIOUS
    <3>2. rest(t) \in SUBSET s /\ rest(t) # s
      BY <1>3, <3>1
    <3>3. QED
      BY <1>4, <3>2
  <2>2. QED
    BY <2>1 DEF Folds
<1>6. QED
  BY <1>1, <1>5

-----------------------------------------------------------------------------

\* The equation of the fold, and what it gives for no element.
LEMMA SumUnfolds ==
  ASSUME NEW f, NEW S, IsFiniteSet(S)
  PROVE  SumFunctionOnSet(f, S) =
           IF S = {} THEN 0
           ELSE f[OneOf(S)] + SumFunctionOnSet(f, S \ {OneOf(S)})
<1> DEFINE rest    == S \ {OneOf(S)}
           fold(t) == CHOOSE g : Folds(g, f, t)
<1>1. IsFiniteSet(rest) /\ rest \in SUBSET S
  BY FS_Subset
<1>2. Folds(fold(S), f, S) /\ Folds(fold(rest), f, rest)
  <2>1. S \in SUBSET S /\ rest \in SUBSET S
    OBVIOUS
  <2>2. (\E g : Folds(g, f, S)) /\ \E g : Folds(g, f, rest)
    BY <2>1, FoldExists
  <2>3. QED
    BY <2>2
<1>3. SumFunctionOnSet(f, S) = fold(S)[S] /\ SumFunctionOnSet(f, rest) = fold(rest)[rest]
  BY SumDefinition
<1> HIDE DEF fold, rest
<1>4. fold(S)[rest] = fold(rest)[rest]
  BY <1>1, <1>2, FoldIsUnique
<1>5. fold(S)[S] = IF S = {} THEN 0 ELSE f[OneOf(S)] + fold(S)[rest]
  BY <1>2 DEF Folds, rest
<1>6. QED
  BY <1>3, <1>4, <1>5 DEF rest

LEMMA SumOfNothing ==
  ASSUME NEW f
  PROVE  SumFunctionOnSet(f, {}) = 0
  BY SumUnfolds, FS_EmptySet

\* A sum of natural numbers is one.
LEMMA SumIsNat ==
  ASSUME NEW f, NEW S, IsFiniteSet(S), \A x \in S : f[x] \in Nat
  PROVE  SumFunctionOnSet(f, S) \in Nat
<1> DEFINE T == {s \in SUBSET S : SumFunctionOnSet(f, s) \notin Nat}
<1> SUFFICES ASSUME T # {} PROVE FALSE
  OBVIOUS
<1>1. PICK s \in T : IsFiniteSet(s) /\ \A t \in SUBSET s : t # s => t \notin T
  <2> HIDE DEF T
  <2>1. T \in SUBSET SUBSET S
    BY DEF T
  <2>2. QED
    BY <2>1, MinimalSubset
<1> DEFINE rest == s \ {OneOf(s)}
<1>2. SumFunctionOnSet(f, s) = IF s = {} THEN 0 ELSE f[OneOf(s)] + SumFunctionOnSet(f, rest)
  BY <1>1, SumUnfolds
<1>3. s # {}
  BY <1>2
<1>4. OneOf(s) \in s /\ rest \in SUBSET s /\ rest # s
  BY <1>3, OneOfIsElement
<1>5. SumFunctionOnSet(f, rest) \in Nat
  BY <1>1, <1>4
<1>6. QED
  BY <1>2, <1>3, <1>4, <1>5

\* Any element may be taken out of a sum, not only the chosen one.
LEMMA SumTakesOut ==
  ASSUME NEW f, NEW S, IsFiniteSet(S), \A x \in S : f[x] \in Nat, NEW e \in S
  PROVE  SumFunctionOnSet(f, S) = f[e] + SumFunctionOnSet(f, S \ {e})
<1> DEFINE T == {s \in SUBSET S :
                   \E x \in s : SumFunctionOnSet(f, s) # f[x] + SumFunctionOnSet(f, s \ {x})}
<1>1. SUFFICES ASSUME T # {} PROVE FALSE
  <2>1. S \in SUBSET S
    OBVIOUS
  <2>2. QED
    BY <2>1
<1>2. PICK s \in T : IsFiniteSet(s) /\ \A t \in SUBSET s : t # s => t \notin T
  <2> HIDE DEF T
  <2>1. T \in SUBSET SUBSET S
    BY DEF T
  <2>2. QED
    BY <1>1, <2>1, MinimalSubset
<1>3. PICK x \in s : SumFunctionOnSet(f, s) # f[x] + SumFunctionOnSet(f, s \ {x})
  BY <1>2
<1> DEFINE c == OneOf(s)
<1>4. c \in s /\ f[c] \in Nat /\ f[x] \in Nat
  BY <1>2, <1>3, OneOfIsElement
<1> HIDE DEF c
<1>5. SumFunctionOnSet(f, s) = f[c] + SumFunctionOnSet(f, s \ {c})
  BY <1>2, <1>3, SumUnfolds DEF c
<1>6. x # c
  BY <1>3, <1>5
<1> DEFINE both == s \ {c, x}
<1>7. /\ s \ {c} \in SUBSET s /\ s \ {c} # s /\ x \in s \ {c}
      /\ s \ {x} \in SUBSET s /\ s \ {x} # s /\ c \in s \ {x}
      /\ (s \ {c}) \ {x} = both /\ (s \ {x}) \ {c} = both
  BY <1>3, <1>4, <1>6
<1>8. SumFunctionOnSet(f, s \ {c}) = f[x] + SumFunctionOnSet(f, both)
  BY <1>2, <1>7
<1>9. SumFunctionOnSet(f, s \ {x}) = f[c] + SumFunctionOnSet(f, both)
  BY <1>2, <1>7
<1>10. SumFunctionOnSet(f, both) \in Nat
  <2>1. IsFiniteSet(both) /\ \A y \in both : f[y] \in Nat
    BY <1>2, FS_Subset
  <2>2. QED
    BY <2>1, SumIsNat
<1> HIDE DEF both
<1>11. QED
  BY <1>3, <1>4, <1>5, <1>8, <1>9, <1>10

\* Only the summands matter.
LEMMA SumOfEquals ==
  ASSUME NEW f, NEW g, NEW S, IsFiniteSet(S), \A x \in S : f[x] = g[x]
  PROVE  SumFunctionOnSet(f, S) = SumFunctionOnSet(g, S)
<1> DEFINE T == {s \in SUBSET S : SumFunctionOnSet(f, s) # SumFunctionOnSet(g, s)}
<1>1. SUFFICES ASSUME T # {} PROVE FALSE
  <2>1. S \in SUBSET S
    OBVIOUS
  <2>2. QED
    BY <2>1
<1>2. PICK s \in T : IsFiniteSet(s) /\ \A t \in SUBSET s : t # s => t \notin T
  <2> HIDE DEF T
  <2>1. T \in SUBSET SUBSET S
    BY DEF T
  <2>2. QED
    BY <1>1, <2>1, MinimalSubset
<1> DEFINE rest == s \ {OneOf(s)}
<1>3. /\ SumFunctionOnSet(f, s) = IF s = {} THEN 0 ELSE f[OneOf(s)] + SumFunctionOnSet(f, rest)
      /\ SumFunctionOnSet(g, s) = IF s = {} THEN 0 ELSE g[OneOf(s)] + SumFunctionOnSet(g, rest)
  BY <1>2, SumUnfolds
<1>4. s # {}
  BY <1>2, <1>3
<1>5. OneOf(s) \in s /\ rest \in SUBSET s /\ rest # s
  BY <1>4, OneOfIsElement
<1>6. SumFunctionOnSet(f, rest) = SumFunctionOnSet(g, rest)
  BY <1>2, <1>5
<1>7. QED
  BY <1>2, <1>3, <1>5, <1>6

\* A sum with one summand changed.
LEMMA SumWithOneChanged ==
  ASSUME NEW f, NEW g, NEW S, IsFiniteSet(S),
         \A x \in S : f[x] \in Nat /\ g[x] \in Nat,
         NEW e \in S, \A x \in S : x # e => g[x] = f[x]
  PROVE  SumFunctionOnSet(g, S) = SumFunctionOnSet(f, S) + (g[e] - f[e])
<1> DEFINE rest == S \ {e}
<1>1. IsFiniteSet(rest) /\ rest \in SUBSET S
  BY FS_Subset
<1>2. SumFunctionOnSet(f, S) = f[e] + SumFunctionOnSet(f, rest)
  BY SumTakesOut
<1>3. SumFunctionOnSet(g, S) = g[e] + SumFunctionOnSet(g, rest)
  BY SumTakesOut
<1>4. \A x \in rest : f[x] = g[x]
  OBVIOUS
<1>5. SumFunctionOnSet(f, rest) = SumFunctionOnSet(g, rest)
  <2> HIDE DEF rest
  <2>1. QED
    BY <1>1, <1>4, SumOfEquals
<1>6. SumFunctionOnSet(f, rest) \in Nat
  BY <1>1, SumIsNat
<1> HIDE DEF rest
<1>7. QED
  BY <1>2, <1>3, <1>5, <1>6

\* No summand is above the sum, and nothing adds up to zero but zeros.
LEMMA SumBoundsSummand ==
  ASSUME NEW f, NEW S, IsFiniteSet(S), \A x \in S : f[x] \in Nat, NEW e \in S
  PROVE  f[e] <= SumFunctionOnSet(f, S)
<1>1. IsFiniteSet(S \ {e}) /\ S \ {e} \in SUBSET S
  BY FS_Subset
<1>2. SumFunctionOnSet(f, S \ {e}) \in Nat
  BY <1>1, SumIsNat
<1>3. QED
  BY <1>2, SumTakesOut

LEMMA SumOfZeros ==
  ASSUME NEW f, NEW S, IsFiniteSet(S), \A x \in S : f[x] \in Nat
  PROVE  SumFunctionOnSet(f, S) = 0 <=> \A x \in S : f[x] = 0
<1>1. ASSUME SumFunctionOnSet(f, S) = 0, NEW x \in S
      PROVE  f[x] = 0
  <2>1. f[x] <= SumFunctionOnSet(f, S)
    BY SumBoundsSummand
  <2>2. QED
    BY <1>1, <2>1
<1>2. ASSUME \A x \in S : f[x] = 0, SumFunctionOnSet(f, S) # 0
      PROVE  FALSE
  <2> DEFINE T == {s \in SUBSET S : SumFunctionOnSet(f, s) # 0}
  <2>2. T # {}
    <3>1. S \in SUBSET S
      OBVIOUS
    <3>2. QED
      BY <1>2, <3>1
  <2>3. PICK s \in T : IsFiniteSet(s) /\ \A t \in SUBSET s : t # s => t \notin T
    <3> HIDE DEF T
    <3>1. T \in SUBSET SUBSET S
      BY DEF T
    <3>2. QED
      BY <2>2, <3>1, MinimalSubset
  <2> DEFINE rest == s \ {OneOf(s)}
  <2>4. SumFunctionOnSet(f, s) = IF s = {} THEN 0 ELSE f[OneOf(s)] + SumFunctionOnSet(f, rest)
    BY <2>3, SumUnfolds
  <2>5. s # {}
    BY <2>3, <2>4
  <2>6. OneOf(s) \in s /\ rest \in SUBSET s /\ rest # s
    BY <2>5, OneOfIsElement
  <2>7. SumFunctionOnSet(f, rest) = 0
    BY <2>3, <2>6
  <2>8. QED
    BY <1>2, <2>3, <2>4, <2>5, <2>6, <2>7
<1>3. QED
  BY <1>1, <1>2

-----------------------------------------------------------------------------
\* A sum grows with its summands.
LEMMA SumGrows ==
  ASSUME NEW f, NEW g, NEW S, IsFiniteSet(S),
         \A x \in S : f[x] \in Nat /\ g[x] \in Nat /\ f[x] <= g[x]
  PROVE  SumFunctionOnSet(f, S) <= SumFunctionOnSet(g, S)
<1> DEFINE T == {s \in SUBSET S : ~(SumFunctionOnSet(f, s) <= SumFunctionOnSet(g, s))}
<1>1. SUFFICES ASSUME T # {} PROVE FALSE
  <2>1. S \in SUBSET S
    OBVIOUS
  <2>2. QED
    BY <2>1
<1>2. PICK s \in T : IsFiniteSet(s) /\ \A t \in SUBSET s : t # s => t \notin T
  <2> HIDE DEF T
  <2>1. T \in SUBSET SUBSET S
    BY DEF T
  <2>2. QED
    BY <1>1, <2>1, MinimalSubset
<1> DEFINE rest == s \ {OneOf(s)}
<1>3. /\ SumFunctionOnSet(f, s) = IF s = {} THEN 0 ELSE f[OneOf(s)] + SumFunctionOnSet(f, rest)
      /\ SumFunctionOnSet(g, s) = IF s = {} THEN 0 ELSE g[OneOf(s)] + SumFunctionOnSet(g, rest)
  BY <1>2, SumUnfolds
<1>4. s # {}
  BY <1>2, <1>3
<1>5. OneOf(s) \in s /\ rest \in SUBSET s /\ rest # s
  BY <1>4, OneOfIsElement
<1>6. SumFunctionOnSet(f, rest) <= SumFunctionOnSet(g, rest)
  BY <1>2, <1>5
<1>7. SumFunctionOnSet(f, rest) \in Nat /\ SumFunctionOnSet(g, rest) \in Nat
  <2>1. IsFiniteSet(rest) /\ \A x \in rest : f[x] \in Nat /\ g[x] \in Nat
    BY <1>2, <1>5, FS_Subset
  <2> HIDE DEF rest
  <2>2. QED
    BY <2>1, SumIsNat
<1>8. f[OneOf(s)] \in Nat /\ g[OneOf(s)] \in Nat /\ f[OneOf(s)] <= g[OneOf(s)]
  BY <1>2, <1>5
<1> HIDE DEF rest
<1>9. QED
  BY <1>2, <1>3, <1>4, <1>6, <1>7, <1>8

\* A sum over fewer elements is smaller, or the same if only zeros are left out.
LEMMA SumOfSubset ==
  ASSUME NEW f, NEW S, IsFiniteSet(S), \A x \in S : f[x] \in Nat, NEW R \in SUBSET S
  PROVE  /\ SumFunctionOnSet(f, R) <= SumFunctionOnSet(f, S)
         /\ (\A x \in S \ R : f[x] = 0) => SumFunctionOnSet(f, R) = SumFunctionOnSet(f, S)
<1> DEFINE g == [x \in S |-> IF x \in R THEN f[x] ELSE 0]
<1>1. /\ \A x \in S : g[x] \in Nat /\ g[x] <= f[x]
      /\ \A x \in R : g[x] = f[x]
      /\ \A x \in S \ R : g[x] = 0
      /\ (\A x \in S \ R : f[x] = 0) => \A x \in S : g[x] = f[x]
  OBVIOUS
<1> HIDE DEF g
<1>2. SumFunctionOnSet(g, R) = SumFunctionOnSet(f, R)
  BY <1>1, FS_Subset, SumOfEquals
<1>3. SumFunctionOnSet(g, S) <= SumFunctionOnSet(f, S)
  BY <1>1, SumGrows
<1>4. (\A x \in S \ R : f[x] = 0) => SumFunctionOnSet(g, S) = SumFunctionOnSet(f, S)
  BY <1>1, SumOfEquals
<1>5. SumFunctionOnSet(g, R) = SumFunctionOnSet(g, S)
  <2> DEFINE T == {s \in SUBSET S : SumFunctionOnSet(g, s \cap R) # SumFunctionOnSet(g, s)}
  <2>1. SUFFICES ASSUME T # {} PROVE FALSE
    <3>1. S \in SUBSET S /\ S \cap R = R
      OBVIOUS
    <3>2. QED
      BY <3>1
  <2>2. PICK s \in T : IsFiniteSet(s) /\ \A t \in SUBSET s : t # s => t \notin T
    <3> HIDE DEF T
    <3>1. T \in SUBSET SUBSET S
      BY DEF T
    <3>2. QED
      BY <2>1, <3>1, MinimalSubset
  <2> DEFINE c == OneOf(s)
             rest == s \ {c}
  <2>3. s # {}
    BY <2>2
  <2>4. c \in s /\ rest \in SUBSET s /\ rest # s
    BY <2>3, OneOfIsElement
  <2>5. SumFunctionOnSet(g, rest \cap R) = SumFunctionOnSet(g, rest)
    BY <2>2, <2>4
  <2>6. SumFunctionOnSet(g, s) = g[c] + SumFunctionOnSet(g, rest)
    BY <2>2, <2>3, SumUnfolds
  <2>7. CASE c \in R
    <3>1. (s \cap R) \ {c} = rest \cap R /\ c \in s \cap R
      BY <2>4, <2>7
    <3>2. IsFiniteSet(s \cap R) /\ \A x \in s \cap R : g[x] \in Nat
      BY <1>1, <2>2, FS_Subset
    <3>3. SumFunctionOnSet(g, s \cap R) = g[c] + SumFunctionOnSet(g, rest \cap R)
      <4> DEFINE r == s \cap R
      <4> HIDE DEF r, c
      <4>1. SumFunctionOnSet(g, r) = g[c] + SumFunctionOnSet(g, r \ {c})
        BY <3>1, <3>2, SumTakesOut DEF r
      <4>2. QED
        BY <3>1, <4>1 DEF r
    <3>4. QED
      BY <2>2, <2>5, <2>6, <3>3
  <2>8. CASE c \notin R
    <3>1. s \cap R = rest \cap R
      BY <2>8
    <3>2. g[c] = 0
      BY <1>1, <2>2, <2>4, <2>8
    <3>3. SumFunctionOnSet(g, rest) \in Nat
      <4>1. IsFiniteSet(rest) /\ \A x \in rest : g[x] \in Nat
        BY <1>1, <2>2, <2>4, FS_Subset
      <4> HIDE DEF rest
      <4>2. QED
        BY <4>1, SumIsNat
    <3> HIDE DEF rest
    <3>4. QED
      BY <2>2, <2>5, <2>6, <3>1, <3>2, <3>3
  <2>9. QED
    BY <2>7, <2>8
<1>6. QED
  BY <1>2, <1>3, <1>4, <1>5

\* A ratio of at least one, rounded half up, stays so when its numerator grows and
\* its denominator shrinks.
LEMMA RatioStaysAboveOne ==
  ASSUME NEW unit \in Nat \ {0}, NEW c \in Nat, NEW d \in Nat \ {0},
         DivHalfUp(c, d, unit) >= unit,
         NEW more \in Nat, more >= c, NEW less \in Nat \ {0}, less <= d
  PROVE  DivHalfUp(more, less, unit) >= unit
<1> DEFINE n == c * unit + d \div 2
           m == more * unit + less \div 2
<1>1. /\ d \div 2 \in Nat /\ less \div 2 \in Nat
      /\ d \div 2 - less \div 2 <= d - less
  BY SMT
<1>2. c * unit \in Nat /\ more * unit \in Nat /\ c * unit <= more * unit
  BY ProductGrows
<1>3. n \in Nat /\ m \in Nat
  BY <1>1, <1>2
<1>4. n >= d * unit
  <2>1. n \div d \in Nat /\ d * (n \div d) \in Nat /\ d * (n \div d) <= n
    BY <1>3, QuotientBounds
  <2>2. n \div d >= unit
    BY DEF DivHalfUp
  <2>3. unit * d <= (n \div d) * d /\ unit * d \in Nat
    BY <2>1, <2>2, ProductGrows
  <2>4. unit * d = d * unit /\ (n \div d) * d = d * (n \div d)
    BY <2>1
  <2> HIDE DEF n
  <2>5. QED
    BY <1>3, <2>1, <2>3, <2>4
<1>5. d * unit - less * unit >= d - less
  <2>1. PICK k \in Nat : d = less + k
    <3>1. d - less \in Nat /\ d = less + (d - less)
      OBVIOUS
    <3>2. QED
      BY <3>1
  <2>2. k * unit >= k /\ k * unit \in Nat
    <3>1. 1 * k <= unit * k /\ unit * k \in Nat
      BY ProductGrows
    <3>2. unit * k = k * unit
      OBVIOUS
    <3>3. QED
      BY <3>1, <3>2
  <2>3. d * unit = less * unit + k * unit /\ less * unit \in Nat
    BY <2>1, SMT
  <2>4. QED
    BY <2>1, <2>2, <2>3
<1>6. m >= unit * less
  <2>1. less * unit = unit * less /\ less * unit \in Nat /\ d * unit \in Nat
    BY SMT
  <2>2. QED
    BY <1>1, <1>2, <1>4, <1>5, <2>1
<1>7. m \div less >= unit
  <2> HIDE DEF m
  <2>1. QED
    BY <1>3, <1>6, QuotientAtLeast
<1>8. QED
  BY <1>7 DEF DivHalfUp

\* An average that is truncated does not fall when something is added at no less
\* than the average.
LEMMA AverageStays ==
  ASSUME NEW total \in Nat, NEW weighed \in Nat, NEW added \in Nat, NEW at \in Nat,
         NEW average, average = (IF total = 0 THEN 0 ELSE weighed \div total),
         at >= average
  PROVE  /\ average \in Nat
         /\ total + added # 0 => (weighed + added * at) \div (total + added) >= average
<1>1. CASE total = 0
  <2>1. added # 0 => (weighed + added * at) \div (total + added) \in Nat
    <3>1. weighed + added * at \in Nat /\ total + added \in Nat
      BY SMT
    <3>2. QED
      BY <1>1, <3>1, QuotientIsNat
  <2>2. QED
    BY <1>1, <2>1
<1>2. CASE total # 0
  <2>1. average \in Nat /\ total * average \in Nat /\ total * average <= weighed
    BY <1>2, QuotientBounds
  <2>2. average * added <= at * added /\ average * added \in Nat /\ at * added \in Nat
    BY <2>1, ProductGrows
  <2>3. at * added = added * at /\ average * (total + added) = total * average + average * added
    BY <2>1, SMT
  <2>4. weighed + added * at \in Nat /\ weighed + added * at >= average * (total + added)
    BY <2>1, <2>2, <2>3
  <2>5. total + added \in Nat \ {0}
    BY <1>2
  <2>6. (weighed + added * at) \div (total + added) >= average
    <3> DEFINE n == weighed + added * at
               y == total + added
    <3> HIDE DEF n, y
    <3>1. n \in Nat /\ y \in Nat \ {0} /\ n >= average * y
      BY <2>4, <2>5 DEF n, y
    <3>2. n \div y >= average
      BY <2>1, <3>1, QuotientAtLeast
    <3>3. QED
      BY <3>2 DEF n, y
  <2>7. QED
    BY <2>1, <2>6
<1>3. QED
  BY <1>1, <1>2

-----------------------------------------------------------------------------
(* What a loan is checked with.                                              *)

\* A sum of what is at most k times as much is at most k times the sum.
LEMMA SumAtMost ==
  ASSUME NEW f, NEW g, NEW S, IsFiniteSet(S), NEW k \in Nat,
         \A x \in S : f[x] \in Nat /\ g[x] \in Nat /\ f[x] <= g[x] * k
  PROVE  SumFunctionOnSet(f, S) <= SumFunctionOnSet(g, S) * k
<1> DEFINE T == {s \in SUBSET S : ~(SumFunctionOnSet(f, s) <= SumFunctionOnSet(g, s) * k)}
<1>1. SUFFICES ASSUME T # {} PROVE FALSE
  <2>1. S \in SUBSET S
    OBVIOUS
  <2>2. QED
    BY <2>1
<1>2. PICK s \in T : IsFiniteSet(s) /\ \A t \in SUBSET s : t # s => t \notin T
  <2> HIDE DEF T
  <2>1. T \in SUBSET SUBSET S
    BY DEF T
  <2>2. QED
    BY <1>1, <2>1, MinimalSubset
<1> DEFINE c    == OneOf(s)
           rest == s \ {c}
           F == SumFunctionOnSet(f, rest)
           G == SumFunctionOnSet(g, rest)
<1>3. /\ SumFunctionOnSet(f, s) = IF s = {} THEN 0 ELSE f[c] + F
      /\ SumFunctionOnSet(g, s) = IF s = {} THEN 0 ELSE g[c] + G
  BY <1>2, SumUnfolds
<1>4. s # {}
  <2>1. s = {} => SumFunctionOnSet(f, s) = 0 /\ SumFunctionOnSet(g, s) = 0
    BY <1>3
  <2>2. 0 * k = 0 /\ ~(SumFunctionOnSet(f, s) <= SumFunctionOnSet(g, s) * k)
    BY <1>2
  <2>3. QED
    BY <2>1, <2>2
<1>5. c \in s /\ rest \in SUBSET s /\ rest # s
  BY <1>4, OneOfIsElement
<1>6. F <= G * k
  BY <1>2, <1>5
<1>7. F \in Nat /\ G \in Nat
  <2>1. IsFiniteSet(rest) /\ \A x \in rest : f[x] \in Nat /\ g[x] \in Nat
    BY <1>2, <1>5, FS_Subset
  <2> HIDE DEF rest
  <2>2. QED
    BY <2>1, SumIsNat
<1>8. f[c] \in Nat /\ g[c] \in Nat /\ f[c] <= g[c] * k
  BY <1>2, <1>5
<1>9. ~(f[c] + F <= (g[c] + G) * k)
  BY <1>2, <1>3, <1>4
<1> HIDE DEF F, G, c
<1>10. /\ (g[c] + G) * k = g[c] * k + G * k
       /\ g[c] * k \in Nat /\ G * k \in Nat
  BY <1>7, <1>8, SMT
<1>11. QED
  BY <1>6, <1>7, <1>8, <1>9, <1>10

\* A quotient is at most what goes into the divisor that often.
LEMMA QuotientAtMost ==
  ASSUME NEW n \in Nat, NEW x \in Nat, NEW y \in Nat \ {0}, n <= x * y
  PROVE  n \div y <= x
<1> DEFINE d == n \div y
<1>1. d \in Nat /\ y * d \in Nat /\ y * d <= n
  BY QuotientBounds
<1> HIDE DEF d
<1>2. SUFFICES ASSUME x + 1 <= d PROVE FALSE
  BY <1>1 DEF d
<1>3. /\ (x + 1) * y <= d * y
      /\ (x + 1) * y \in Nat /\ d * y \in Nat
  <2>1. x + 1 \in Nat
    OBVIOUS
  <2>2. QED
    BY <1>1, <1>2, <2>1, ProductGrows
<1>4. (x + 1) * y = x * y + y /\ d * y = y * d /\ x * y \in Nat
  BY <1>1, SMT
<1>5. QED
  BY <1>1, <1>3, <1>4

\* A truncated average of percentages is at most 100%.
LEMMA AverageAtMost ==
  ASSUME NEW weighed \in Nat, NEW total \in Nat, NEW most \in Nat, weighed <= total * most
  PROVE  (IF total = 0 THEN 0 ELSE weighed \div total) <= most
<1>1. CASE total = 0
  BY <1>1
<1>2. CASE total # 0
  <2>1. total * most = most * total
    BY SMT
  <2>2. weighed \div total <= most
    BY <1>2, <2>1, QuotientAtMost
  <2>3. QED
    BY <1>2, <2>2
<1>3. QED
  BY <1>1, <1>2

\* What needs no more collateral than there is: the loan to value, rounded.
LEMMA LoanFits ==
  ASSUME NEW x \in Nat, NEW c \in Nat, NEW l \in 1 .. PERCENTAGE_FACTOR,
         PercentDiv(x, l) <= c
  PROVE  x * PERCENTAGE_FACTOR <= c * l + PERCENTAGE_FACTOR \div 2
<1> DEFINE PF == PERCENTAGE_FACTOR
           n == x * PF + l \div 2
           d == n \div l
<1>1. PF \in Nat /\ l \in Nat \ {0} /\ l <= PF
  BY PercentageAssumption
<1>2. l \div 2 \in Nat /\ PF \div 2 \in Nat /\ l - l \div 2 <= PF \div 2 + 1 
  BY <1>1, SMT
<1> HIDE DEF PF
<1>3. x * PF \in Nat
  BY <1>1, SMT
<1>4. n \in Nat
  BY <1>2, <1>3
<1> HIDE DEF n
<1>5. d \in Nat /\ n < l * d + l
  <2>1. n % l \in Nat /\ n % l < l /\ n = l * (n \div l) + (n % l) /\ n \div l \in Nat
    BY <1>1, <1>4, SMT
  <2>2. QED
    BY <2>1
<1>6. d <= c
  BY <1>1 DEF PercentDiv, DivHalfUp, n, PF
<1> HIDE DEF d
<1>7. d * l <= c * l /\ d * l \in Nat /\ c * l \in Nat
  BY <1>1, <1>5, <1>6, ProductGrows
<1>8. d * l = l * d
  BY <1>1, <1>5, SMT
<1>9. n <= c * l + l - 1
  BY <1>1, <1>4, <1>5, <1>7, <1>8
<1>10. x * PF <= c * l + PF \div 2
  BY <1>1, <1>2, <1>3, <1>7, <1>9 DEF n
<1>11. QED
  BY <1>10 DEF PF

\* The same without the rounding: the largest loan that needs no more collateral.
LEMMA LoanIsWithin ==
  ASSUME NEW x \in Nat, NEW c \in Nat, NEW l \in 1 .. PERCENTAGE_FACTOR,
         PercentDiv(x, l) <= c
  PROVE  LET most == ((c + 1) * l - l \div 2 - 1) \div PERCENTAGE_FACTOR
         IN most \in Nat /\ x <= most
<1> DEFINE PF == PERCENTAGE_FACTOR
           n == x * PF + l \div 2
           d == n \div l
           e == (c + 1) * l - l \div 2 - 1
<1>1. PF \in Nat \ {0} /\ l \in Nat \ {0}
  BY PercentageAssumption
<1>2. l \div 2 \in Nat
  BY <1>1, SMT
<1> HIDE DEF PF
<1>3. x * PF \in Nat
  BY <1>1, SMT
<1>4. n \in Nat
  BY <1>2, <1>3
<1> HIDE DEF n
<1>5. d \in Nat /\ n < l * d + l
  <2>1. n % l \in Nat /\ n % l < l /\ n = l * (n \div l) + (n % l) /\ n \div l \in Nat
    BY <1>1, <1>4, SMT
  <2>2. QED
    BY <2>1
<1>6. d <= c
  BY <1>1 DEF PercentDiv, DivHalfUp, n, PF
<1> HIDE DEF d
<1>7. d * l <= c * l /\ d * l \in Nat /\ c * l \in Nat
  BY <1>1, <1>5, <1>6, ProductGrows
<1>8. d * l = l * d /\ (c + 1) * l = c * l + l
  BY <1>1, <1>5, SMT
<1>9. n < c * l + l
  BY <1>1, <1>4, <1>5, <1>7, <1>8
<1>10. e \in Nat /\ e >= x * PF
  BY <1>1, <1>2, <1>3, <1>7, <1>8, <1>9 DEF n
<1> HIDE DEF e
<1>11. e \div PF \in Nat /\ x <= e \div PF
  BY <1>1, <1>10, QuotientIsNat, QuotientAtLeast
<1>12. QED
  BY <1>11 DEF e, PF

\* A threshold at or above the loan to value covers the loan, and a unit more when
\* the two are far enough apart.
LEMMA LoanIsCovered ==
  ASSUME NEW x \in Nat, NEW c \in Nat, NEW l \in 1 .. PERCENTAGE_FACTOR,
         PercentDiv(x, l) <= c, NEW t \in Nat, l <= t
  PROVE  /\ PercentMul(c, t) >= x
         /\ (t - l) * c >= PERCENTAGE_FACTOR => PercentMul(c, t) >= x + 1
<1> DEFINE PF == PERCENTAGE_FACTOR
<1>1. PF \in Nat \ {0} /\ PF \div 2 \in Nat /\ l \in Nat
  BY PercentageAssumption, QuotientIsNat
<1>2. x * PF <= c * l + PF \div 2
  BY LoanFits
<1>3. PercentMul(c, t) = (c * t + PF \div 2) \div PF
  BY DEF PercentMul, MulHalfUp
<1> HIDE DEF PF
<1>4. PICK k \in Nat : t = l + k
  <2>1. t - l \in Nat /\ t = l + (t - l)
    BY <1>1
  <2>2. QED
    BY <2>1
<1>5. /\ c * t = c * l + k * c
      /\ c * l \in Nat /\ k * c \in Nat /\ x * PF \in Nat
      /\ (x + 1) * PF = x * PF + PF
  BY <1>1, <1>4, SMT
<1>6. t - l = k
  BY <1>1, <1>4
<1> DEFINE n == c * t + PF \div 2
<1>7. /\ n \in Nat /\ n >= x * PF
      /\ k * c >= PF => n >= (x + 1) * PF
  BY <1>1, <1>2, <1>5
<1> HIDE DEF n
<1>8. /\ n \div PF >= x
      /\ k * c >= PF => n \div PF >= x + 1
  <2>1. x + 1 \in Nat
    OBVIOUS
  <2>2. QED
    BY <1>1, <1>7, <2>1, QuotientAtLeast
<1>9. QED
  BY <1>3, <1>6, <1>8 DEF n, PF

\* A ratio of a number to a smaller one is at least one.
LEMMA RatioAboveOne ==
  ASSUME NEW unit \in Nat \ {0}, NEW m \in Nat, NEW d \in Nat \ {0}, m >= d
  PROVE  DivHalfUp(m, d, unit) >= unit
<1>1. d * unit <= m * unit /\ m * unit \in Nat /\ d * unit \in Nat /\ d \div 2 \in Nat
  <2>1. d \div 2 \in Nat
    BY SMT
  <2>2. QED
    BY <2>1, ProductGrows
<1>2. unit * d = d * unit
  BY SMT
<1> DEFINE n == m * unit + d \div 2
<1>3. n \in Nat /\ n >= unit * d
  BY <1>1, <1>2
<1> HIDE DEF n
<1>4. n \div d >= unit
  BY <1>3, QuotientAtLeast
<1>5. QED
  BY <1>4 DEF DivHalfUp, n

\* Truncating two parts loses at most one unit more than truncating the whole.
LEMMA QuotientOfSum ==
  ASSUME NEW x \in Nat, NEW n \in Nat, NEW unit \in Nat \ {0}
  PROVE  /\ (x + n) \div unit <= x \div unit + n \div unit + 1
         /\ x % unit = 0 => (x + n) \div unit <= x \div unit + n \div unit
<1> DEFINE d == x \div unit
           r == x % unit
           e == n \div unit
           s == n % unit
           w == (x + n) \div unit
           v == (x + n) % unit
<1>1. /\ d \in Nat /\ r \in Nat /\ x = unit * d + r /\ r < unit
      /\ e \in Nat /\ s \in Nat /\ n = unit * e + s /\ s < unit
  BY SMT
<1>2. x + n \in Nat
  OBVIOUS
<1>3. w \in Nat /\ v \in Nat /\ x + n = unit * w + v
  <2> DEFINE y == x + n
  <2>1. y \in Nat
    BY <1>2
  <2> HIDE DEF y
  <2>2. y \div unit \in Nat /\ y % unit \in Nat /\ y = unit * (y \div unit) + (y % unit)
    BY <2>1, SMT
  <2>3. QED
    BY <2>2 DEF y
<1> HIDE DEF d, r, e, s, w, v
<1>4. unit * d \in Nat /\ unit * e \in Nat /\ unit * w \in Nat
  BY <1>1, <1>3, SMT
<1>5. SUFFICES ASSUME w >= d + e + 1
               PROVE  w <= d + e + 1 /\ r # 0
  BY <1>1, <1>3 DEF d, e, w, r
<1>6. PICK k \in Nat : w = d + e + 1 + k
  <2>1. w - (d + e + 1) \in Nat /\ w = d + e + 1 + (w - (d + e + 1))
    BY <1>1, <1>3, <1>5
  <2>2. QED
    BY <2>1
<1>7. unit * w = unit * d + unit * e + unit + unit * k /\ unit * k \in Nat
  BY <1>1, <1>6, SMT
<1>8. k >= 1 => unit * k >= unit
  <2>1. ASSUME k >= 1 PROVE unit <= unit * k
    <3>1. 1 * unit <= k * unit
      BY <2>1, ProductGrows
    <3>2. k * unit = unit * k
      BY SMT
    <3>3. QED
      BY <3>1, <3>2
  <2>2. QED
    BY <2>1
<1>9. r + s >= unit + unit * k
  BY <1>1, <1>3, <1>4, <1>7
<1>10. k = 0
  BY <1>1, <1>7, <1>8, <1>9
<1>11. QED
  BY <1>1, <1>6, <1>7, <1>9, <1>10

\* Truncated quotients of two numbers are no more than that of their sum.
LEMMA QuotientOfParts ==
  ASSUME NEW x \in Nat, NEW n \in Nat, NEW unit \in Nat \ {0}
  PROVE  x \div unit + n \div unit <= (x + n) \div unit
<1>1. /\ x \div unit \in Nat /\ unit * (x \div unit) \in Nat /\ unit * (x \div unit) <= x
      /\ n \div unit \in Nat /\ unit * (n \div unit) \in Nat /\ unit * (n \div unit) <= n
  BY QuotientBounds
<1> DEFINE d == x \div unit
           e == n \div unit
<1>2. (d + e) * unit = unit * d + unit * e
  BY <1>1, SMT
<1>3. d + e \in Nat /\ x + n \in Nat /\ x + n >= (d + e) * unit
  BY <1>1, <1>2
<1> HIDE DEF d, e
<1>4. (x + n) \div unit >= d + e
  <2> DEFINE s == x + n
             k == d + e
  <2>1. s \in Nat /\ k \in Nat /\ s >= k * unit
    BY <1>3
  <2> HIDE DEF s, k
  <2>2. s \div unit >= k
    BY <2>1, QuotientAtLeast
  <2>3. QED
    BY <2>2 DEF s, k
<1>5. (x + n) \div unit \in Nat
  <2> DEFINE s == x + n
  <2>1. s \in Nat
    BY <1>3
  <2> HIDE DEF s
  <2>2. s \div unit \in Nat
    BY <2>1, QuotientIsNat
  <2>3. QED
    BY <2>2 DEF s
<1>6. QED
  BY <1>1, <1>3, <1>4, <1>5 DEF d, e

\* Collateral that covers a debt at a bonus, less x of the one and y of the other,
\* still covers it up to what x exceeds y with the bonus by.
LEMMA CoverLeft ==
  ASSUME NEW c \in Nat, NEW debt \in Nat, NEW bonus \in Nat, c >= PercentMul(debt, bonus),
         NEW x \in Nat, NEW y \in Nat, NEW left \in Nat, NEW owed \in Nat,
         left + x >= c, owed + y <= debt,
         NEW slack \in Nat, PERCENTAGE_FACTOR * x <= PERCENTAGE_FACTOR * slack + y * bonus
  PROVE  left + slack >= PercentMul(owed, bonus)
<1> DEFINE F == PERCENTAGE_FACTOR
           h == F \div 2
           z == debt - y
           m == PercentMul(debt, bonus)
           k == PercentMul(z, bonus)
           n == PercentMul(owed, bonus)
<1>1. F \in Nat \ {0} /\ h \in Nat /\ z \in Nat /\ debt = z + y /\ owed <= z
  BY PercentageAssumption, QuotientIsNat
<1>2. m \in Nat /\ k \in Nat /\ n \in Nat
  BY <1>1, PercentMulIsNat
<1> HIDE DEF z
<1>3. n <= k
  BY <1>1, MulHalfUpGrows, PercentageAssumption DEF PercentMul
<1>4. F * x <= F * slack + y * bonus
  OBVIOUS
<1>5. z * bonus \in Nat /\ y * bonus \in Nat /\ debt * bonus = z * bonus + y * bonus
  BY <1>1, SMT
<1>6. F * k <= z * bonus + h /\ F * k \in Nat
  <2> DEFINE s == z * bonus + h
  <2>1. s \in Nat /\ k = s \div F
    BY <1>1, <1>5 DEF PercentMul, MulHalfUp
  <2> HIDE DEF s, k, F
  <2>2. F * k \in Nat /\ F * k <= s
    BY <1>1, <2>1, QuotientBounds
  <2>3. QED
    BY <2>2 DEF s
<1>7. debt * bonus + h < F * m + F /\ F * m \in Nat
  <2> DEFINE s == debt * bonus + h
  <2>1. s \in Nat /\ m = s \div F
    BY <1>1, <1>5 DEF PercentMul, MulHalfUp
  <2> HIDE DEF s, m, F
  <2>2. s = F * (s \div F) + (s % F) /\ s % F < F /\ s % F \in Nat /\ F * (s \div F) \in Nat
    BY <1>1, <2>1, SMT
  <2>3. QED
    BY <1>1, <2>1, <2>2 DEF s
<1>8. m <= left + x
  BY <1>2
<1> HIDE DEF F, h, k, m, n
<1>9. /\ F * m <= F * (left + x) /\ F * (left + x) = F * left + F * x
      /\ F * left \in Nat /\ F * x \in Nat /\ F * slack \in Nat
  <2>1. m * F <= (left + x) * F /\ m * F = F * m /\ (left + x) * F = F * (left + x)
    BY <1>1, <1>2, <1>8, ProductGrows, SMT
  <2>2. F * (left + x) = F * left + F * x /\ F * left \in Nat /\ F * x \in Nat /\ F * slack \in Nat
    BY <1>1, SMT
  <2>3. QED
    BY <2>1, <2>2
<1>10. F * k < F * left + F * slack + F
  BY <1>1, <1>4, <1>5, <1>6, <1>7, <1>9
<1>11. k < left + slack + 1
  <2>1. SUFFICES ASSUME k >= left + slack + 1 PROVE FALSE
    BY <1>2
  <2>2. (left + slack + 1) * F <= k * F
    BY <1>1, <1>2, <2>1, ProductGrows
  <2>3. (left + slack + 1) * F = F * left + F * slack + F /\ k * F = F * k
    BY <1>1, <1>2, SMT
  <2>4. QED
    BY <1>1, <1>6, <1>9, <1>10, <2>2, <2>3
<1>12. QED
  BY <1>2, <1>3, <1>11 DEF n

\* The roundings of a liquidation, in units of account: TermsWithinBonus, once the
\* collateral seized and the debt paid are valued, and so truncated.
LEMMA RoundingCovers ==
  ASSUME NEW cp \in Nat, NEW dp \in Nat, NEW bonus \in Nat, NEW unit \in Nat \ {0},
         NEW seized \in Nat, NEW paid \in Nat,
         PERCENTAGE_FACTOR * cp * seized <= bonus * (dp * (paid + 2) + cp)
  PROVE  LET x     == (cp * seized) \div unit + 1
             y     == (dp * paid) \div unit
             slack == (bonus * (2 * dp + cp + unit)) \div (PERCENTAGE_FACTOR * unit) + 2
         IN /\ x \in Nat /\ y \in Nat /\ slack \in Nat
            /\ PERCENTAGE_FACTOR * x <= PERCENTAGE_FACTOR * slack + y * bonus
<1> DEFINE F     == PERCENTAGE_FACTOR
           v     == cp * seized
           d     == dp * paid
           w     == bonus * (2 * dp + cp + unit)
           x     == v \div unit + 1
           y     == d \div unit
           slack == w \div (F * unit) + 2
<1>1. F \in Nat \ {0}
  BY PercentageAssumption
<1>2. v \in Nat /\ d \in Nat /\ w \in Nat /\ F * unit \in Nat \ {0}
  BY <1>1, SMT
<1>3. F * v <= bonus * d + 2 * (bonus * dp) + bonus * cp
  <2>1. F * cp * seized = F * v
    BY <1>1, SMT
  <2>2. bonus * (dp * (paid + 2) + cp) = bonus * d + 2 * (bonus * dp) + bonus * cp
    BY SMT
  <2>3. QED
    BY <2>1, <2>2
<1>4. w = 2 * (bonus * dp) + bonus * cp + bonus * unit
  BY SMT
<1>5. bonus * dp \in Nat /\ bonus * cp \in Nat /\ bonus * unit \in Nat /\ bonus * d \in Nat
      /\ F * v \in Nat
  BY <1>1, <1>2, SMT
<1> HIDE DEF F, v, d, w
<1>6. x \in Nat /\ unit * x \in Nat /\ unit * x <= v + unit
  <2>1. v \div unit \in Nat /\ unit * (v \div unit) \in Nat /\ unit * (v \div unit) <= v
    BY <1>2, QuotientBounds
  <2>2. unit * x = unit * (v \div unit) + unit
    BY <2>1, SMT
  <2>3. QED
    BY <1>2, <2>1, <2>2
<1>7. y \in Nat /\ unit * y \in Nat /\ d <= unit * y + unit
  BY <1>2, QuotientBounds
<1>8. slack \in Nat /\ (F * unit) * slack \in Nat /\ w + F * unit <= (F * unit) * slack
  <2> DEFINE u == F * unit
             q == w \div u
  <2>1. u \in Nat \ {0}
    BY <1>2
  <2> HIDE DEF u
  <2>2. q \in Nat /\ u * q \in Nat /\ w <= u * q + u
    BY <1>2, <2>1, QuotientBounds
  <2> HIDE DEF q
  <2>3. u * (q + 2) = u * q + 2 * u
    BY <2>1, <2>2, SMT
  <2>4. q + 2 \in Nat /\ u * (q + 2) \in Nat /\ w + u <= u * (q + 2)
    BY <1>2, <2>1, <2>2, <2>3
  <2>5. QED
    BY <2>4 DEF q, u
<1> HIDE DEF x, y, slack
<1>9. F * (unit * x) <= F * v + F * unit /\ F * (unit * x) \in Nat
  <2>1. (unit * x) * F <= (v + unit) * F
    BY <1>1, <1>2, <1>6, ProductGrows
  <2>2. (unit * x) * F = F * (unit * x) /\ (v + unit) * F = F * v + F * unit
        /\ F * (unit * x) \in Nat
    BY <1>1, <1>2, <1>6, SMT
  <2>3. QED
    BY <2>1, <2>2
<1>10. bonus * d <= bonus * (unit * y) + bonus * unit /\ bonus * (unit * y) \in Nat
  <2>1. d * bonus <= (unit * y + unit) * bonus
    BY <1>2, <1>7, ProductGrows
  <2>2. d * bonus = bonus * d /\ (unit * y + unit) * bonus = bonus * (unit * y) + bonus * unit
        /\ bonus * (unit * y) \in Nat
    BY <1>2, <1>7, SMT
  <2>3. QED
    BY <2>1, <2>2
<1>11. F * (unit * x) <= (F * unit) * slack + bonus * (unit * y)
  BY <1>2, <1>3, <1>4, <1>5, <1>8, <1>9, <1>10
<1> DEFINE l == F * x
           r == F * slack + y * bonus
<1>12. /\ l \in Nat /\ r \in Nat
       /\ l * unit = F * (unit * x) /\ r * unit = (F * unit) * slack + bonus * (unit * y)
  BY <1>1, <1>6, <1>7, <1>8, SMT
<1> HIDE DEF l, r
<1>13. l <= r
  <2>1. SUFFICES ASSUME r + 1 <= l PROVE FALSE
    BY <1>12
  <2>2. (r + 1) * unit <= l * unit
    BY <1>12, <2>1, ProductGrows
  <2>3. (r + 1) * unit = r * unit + unit /\ r * unit \in Nat /\ l * unit \in Nat
    BY <1>12, SMT
  <2>4. QED
    BY <1>11, <1>12, <2>2, <2>3
<1>14. QED
  BY <1>6, <1>7, <1>8, <1>13 DEF l, r, F, v, d, w, x, y, slack
=============================================================================
