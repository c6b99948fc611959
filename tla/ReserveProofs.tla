---------------------------- MODULE ReserveProofs ----------------------------
(***************************************************************************)
(* Proofs about one reserve in time, for every strategy, reserve factor,   *)
(* premium and unit, and any number of users.                              *)
(*                                                                         *)
(* Views and updates compute with the same expressions, rounded half up;   *)
(* all that is needed of them is that they are monotone, in the time that  *)
(* passed and in the amount, and exact in the unit.  With that, every      *)
(* call is shown to be one of two kinds of step: an Operation, which       *)
(* brings the reserve to the present, moves the debts of some users and    *)
(* sets the rates from what it cached, or a step that lets the reserve     *)
(* Rest.  The theorems are about steps of these kinds and of Tick.         *)
(***************************************************************************)
EXTENDS MCReserve, ArithmeticProofs

-----------------------------------------------------------------------------
(* The arithmetic of interest.                                              *)

LEMMA RayMulFacts ==
  /\ \A x, y \in Nat : RayMul(x, y) \in Nat /\ RayDiv(x, y) \in Nat
  /\ \A x \in Nat : RayMul(x, RAY) = x /\ RayMul(RAY, x) = x
  /\ \A x \in Nat : RayMul(x, 0) = 0 /\ RayMul(0, x) = 0
  /\ \A x, y, z \in Nat : x <= y => RayMul(x, z) <= RayMul(y, z) /\ RayMul(z, x) <= RayMul(z, y)
  /\ RAY \in Nat \ {0}
<1>1. RAY \in Nat \ {0}
  BY RayAssumption
<1>2. \A x, y \in Nat : RayMul(x, y) \in Nat /\ RayDiv(x, y) \in Nat
  BY <1>1, MulHalfUpIsNat, DivHalfUpIsNat DEF RayMul, RayDiv
<1>3. \A x \in Nat : RayMul(x, RAY) = x /\ RayMul(RAY, x) = x
  BY <1>1, MulHalfUpOne DEF RayMul
<1>4. \A x \in Nat : RayMul(x, 0) = 0 /\ RayMul(0, x) = 0
  BY <1>1, MulHalfUpZero DEF RayMul
<1>5. \A x, y, z \in Nat : x <= y => RayMul(x, z) <= RayMul(y, z) /\ RayMul(z, x) <= RayMul(z, y)
  BY <1>1, MulHalfUpGrows, MulHalfUpCommutes DEF RayMul
<1>6. QED
  BY <1>1, <1>2, <1>3, <1>4, <1>5

\* Linear interest: nothing in no time, and more with the time.
LEMMA LinearInterestGrows ==
  ASSUME NEW rate \in Nat, NEW s \in Nat, NEW t \in Nat, s <= t
  PROVE  /\ CalculateLinearInterest(rate, s) \in Nat
         /\ CalculateLinearInterest(rate, s) >= RAY
         /\ CalculateLinearInterest(rate, 0) = RAY
         /\ CalculateLinearInterest(0, s) = RAY
         /\ CalculateLinearInterest(rate, s) <= CalculateLinearInterest(rate, t)
<1> DEFINE year == SECONDS_PER_YEAR
<1>1. year \in Nat \ {0} /\ RAY \in Nat
  BY RayAssumption
<1> HIDE DEF year
<1>2. rate * s \in Nat /\ rate * t \in Nat /\ rate * s <= rate * t
  <2>1. s * rate <= t * rate
    BY ProductGrows
  <2>2. QED
    BY <2>1, SMT
<1>3. (rate * s) \div year \in Nat /\ (rate * t) \div year \in Nat
        /\ (rate * s) \div year <= (rate * t) \div year
  BY <1>1, <1>2, QuotientIsNat, QuotientGrows
<1>4. 0 \div year = 0 /\ rate * 0 = 0 /\ 0 * s = 0
  BY <1>1, SMT
<1>5. QED
  BY <1>1, <1>3, <1>4 DEF CalculateLinearInterest, year

\* Compounded interest likewise, for the terms of the expansion the code keeps.
LEMMA CompoundedInterestGrows ==
  ASSUME NEW rate \in Nat, NEW s \in Nat, NEW t \in Nat, s <= t
  PROVE  /\ CalculateCompoundedInterest(rate, s) \in Nat
         /\ CalculateCompoundedInterest(rate, s) >= RAY
         /\ CalculateCompoundedInterest(rate, 0) = RAY
         /\ CalculateCompoundedInterest(rate, s) <= CalculateCompoundedInterest(rate, t)
<1> DEFINE year   == SECONDS_PER_YEAR
           two    == RayMul(rate, rate) \div (year * year)
           three  == RayMul(two, rate) \div year
           less(e) == IF e > 2 THEN e - 2 ELSE 0
           first(e)  == (rate * e) \div year
           second(e) == (e * (e - 1) * two) \div 2
           third(e)  == (e * (e - 1) * less(e) * three) \div 6
<1>1. year \in Nat \ {0} /\ RAY \in Nat
  BY RayAssumption
<1>2. year * year \in Nat \ {0}
  BY <1>1, SMT
<1>3. two \in Nat
  BY <1>2, RayMulFacts, QuotientIsNat
<1>4. three \in Nat
  BY <1>1, <1>3, RayMulFacts, QuotientIsNat
<1> HIDE DEF two, three, year
<1>5. ASSUME NEW e \in Nat \ {0}, NEW f \in Nat \ {0}, e <= f
      PROVE  /\ first(e) \in Nat /\ first(e) <= first(f)
             /\ second(e) \in Nat /\ second(e) <= second(f)
             /\ third(e) \in Nat /\ third(e) <= third(f)
  <2>1. rate * e \in Nat /\ rate * f \in Nat /\ rate * e <= rate * f
    <3>1. e * rate <= f * rate
      BY <1>5, ProductGrows
    <3>2. QED
      BY <3>1, SMT
  <2>2. first(e) \in Nat /\ first(e) <= first(f)
    BY <1>1, <2>1, QuotientIsNat, QuotientGrows
  <2> DEFINE a == e * (e - 1)
             b == f * (f - 1)
             c == less(e)
             d == less(f)
  <2>3. a \in Nat /\ b \in Nat /\ a <= b
    <3>1. e - 1 \in Nat /\ f - 1 \in Nat /\ e - 1 <= f - 1
      BY <1>5
    <3>2. e * (e - 1) <= f * (e - 1) /\ e * (e - 1) \in Nat /\ f * (e - 1) \in Nat
      BY <1>5, <3>1, ProductGrows
    <3>3. (e - 1) * f <= (f - 1) * f /\ (f - 1) * f \in Nat
      BY <3>1, ProductGrows
    <3>4. (e - 1) * f = f * (e - 1) /\ (f - 1) * f = f * (f - 1)
      BY <3>1, SMT
    <3>5. QED
      BY <3>2, <3>3, <3>4
  <2>4. c \in Nat /\ d \in Nat /\ c <= d
    BY <1>5
  <2> HIDE DEF a, b, c, d
  <2>5. a * two \in Nat /\ b * two \in Nat /\ a * two <= b * two
    BY <1>3, <2>3, ProductGrows
  <2>6. (a * two) \div 2 \in Nat /\ (a * two) \div 2 <= (b * two) \div 2
    BY <2>5, QuotientIsNat, QuotientGrows
  <2>7. a * c \in Nat /\ b * d \in Nat /\ a * c <= b * d
    <3>1. a * c <= b * c /\ a * c \in Nat /\ b * c \in Nat
      BY <2>3, <2>4, ProductGrows
    <3>2. c * b <= d * b /\ d * b \in Nat
      BY <2>3, <2>4, ProductGrows
    <3>3. c * b = b * c /\ d * b = b * d
      BY <2>3, <2>4, SMT
    <3>4. QED
      BY <3>1, <3>2, <3>3
  <2>8. a * c * three \in Nat /\ b * d * three \in Nat /\ a * c * three <= b * d * three
    BY <1>4, <2>7, ProductGrows
  <2>9. (a * c * three) \div 6 \in Nat /\ (a * c * three) \div 6 <= (b * d * three) \div 6
    BY <2>8, QuotientIsNat, QuotientGrows
  <2>10. QED
    BY <2>2, <2>6, <2>9 DEF a, b, c, d
<1>6. \A e \in Nat : CalculateCompoundedInterest(rate, e) =
                       IF e = 0 THEN RAY ELSE RAY + first(e) + second(e) + third(e)
  BY DEF CalculateCompoundedInterest, two, three, year
<1> HIDE DEF first, second, third
<1>7. CASE s = 0
  <2>1. t # 0 => first(t) \in Nat /\ second(t) \in Nat /\ third(t) \in Nat
    BY <1>5
  <2>2. QED
    BY <2>1, <1>1, <1>6, <1>7
<1>8. CASE s # 0
  <2>1. /\ s \in Nat \ {0} /\ t \in Nat \ {0}
    BY <1>8
  <2>2. /\ first(s) \in Nat /\ first(t) \in Nat /\ first(s) <= first(t)
        /\ second(s) \in Nat /\ second(t) \in Nat /\ second(s) <= second(t)
        /\ third(s) \in Nat /\ third(t) \in Nat /\ third(s) <= third(t)
    BY <1>5, <2>1
  <2>3. QED
    BY <2>1, <2>2, <1>1, <1>6
<1>9. QED
  BY <1>7, <1>8

LEMMA CompoundedInterestFacts ==
  /\ \A rate, s \in Nat : /\ CalculateCompoundedInterest(rate, s) \in Nat
                          /\ CalculateCompoundedInterest(rate, s) >= RAY
  /\ \A rate \in Nat : CalculateCompoundedInterest(rate, 0) = RAY
  /\ \A rate, s, t \in Nat : s <= t =>
       CalculateCompoundedInterest(rate, s) <= CalculateCompoundedInterest(rate, t)
<1>1. ASSUME NEW rate \in Nat, NEW s \in Nat
      PROVE  /\ CalculateCompoundedInterest(rate, s) \in Nat
             /\ CalculateCompoundedInterest(rate, s) >= RAY
             /\ CalculateCompoundedInterest(rate, 0) = RAY
  <2>1. s <= s
    OBVIOUS
  <2>2. QED
    BY <2>1, CompoundedInterestGrows
<1>2. QED
  BY <1>1, CompoundedInterestGrows

-----------------------------------------------------------------------------
(* The stable debt token.                                                   *)

\* The clocks of a token do not run ahead, and a debt was stamped when it was
\* made: in a block after the epoch.
StableClocks(t, n) ==
  /\ t.totalSupplyTimestamp <= n
  /\ \A u \in Users : t.timestamp[u] <= n /\ (t.timestamp[u] = 0 => t.balance[u] = 0)

LEMMA WadToRayFacts == \A x \in Nat : WadToRay(x) \in Nat
  BY RayAssumption DEF WadToRay

LEMMA StableViews ==
  ASSUME NEW t \in StableToken, NEW n \in Nat, StableClocks(t, n)
  PROVE  /\ StableTotalSupply(t, n) \in Nat
         /\ \A u \in Users : StableBalanceOf(t, u, n) \in Nat
         /\ t.totalSupplyTimestamp = n => StableTotalSupply(t, n) = t.totalSupply
         /\ \A u \in Users : t.timestamp[u] = n => StableBalanceOf(t, u, n) = t.balance[u]
         /\ \A u \in Users : t.balance[u] = 0 => StableBalanceOf(t, u, n) = 0
         /\ \A u \in Users : StableBalanceOf(t, u, n) >= t.balance[u]
<1>1. ASSUME NEW amount \in Nat, NEW rate \in Nat, NEW since \in Nat, since <= n
      PROVE  LET debt == RayMul(amount, CalculateCompoundedInterest(rate, n - since))
             IN /\ debt \in Nat /\ debt >= amount
                /\ since = n => debt = amount
                /\ amount = 0 => debt = 0
  <2> DEFINE interest == CalculateCompoundedInterest(rate, n - since)
  <2>1. n - since \in Nat /\ (since = n => n - since = 0)
    BY <1>1
  <2>2. interest \in Nat /\ interest >= RAY /\ (since = n => interest = RAY)
    BY <2>1, CompoundedInterestFacts
  <2> HIDE DEF interest
  <2>3. RayMul(amount, interest) \in Nat /\ RayMul(amount, RAY) = amount
          /\ RayMul(amount, RAY) <= RayMul(amount, interest)
          /\ RayMul(0, interest) = 0
    BY <2>2, RayMulFacts
  <2>4. QED
    BY <2>2, <2>3 DEF interest
<1>2. /\ t.totalSupply \in Nat /\ t.avgStableRate \in Nat /\ t.totalSupplyTimestamp \in Nat
      /\ t.totalSupplyTimestamp <= n
      /\ \A u \in Users : /\ t.balance[u] \in Nat /\ t.rate[u] \in Nat
                          /\ t.timestamp[u] \in Nat /\ t.timestamp[u] <= n
  BY DEF StableToken, StableClocks
<1>3. /\ StableTotalSupply(t, n) \in Nat
      /\ t.totalSupplyTimestamp = n => StableTotalSupply(t, n) = t.totalSupply
  BY <1>1, <1>2 DEF StableTotalSupply
<1>4. ASSUME NEW u \in Users
      PROVE  /\ StableBalanceOf(t, u, n) \in Nat
             /\ StableBalanceOf(t, u, n) >= t.balance[u]
             /\ t.timestamp[u] = n => StableBalanceOf(t, u, n) = t.balance[u]
             /\ t.balance[u] = 0 => StableBalanceOf(t, u, n) = 0
  BY <1>1, <1>2 DEF StableBalanceOf
<1>5. QED
  BY <1>3, <1>4

\* Time only adds to a debt and to the total.
LEMMA StableViewsGrow ==
  ASSUME NEW t \in StableToken, NEW m \in Nat, NEW n \in Nat, StableClocks(t, m), m <= n
  PROVE  /\ StableTotalSupply(t, m) <= StableTotalSupply(t, n)
         /\ \A u \in Users : StableBalanceOf(t, u, m) <= StableBalanceOf(t, u, n)
<1>1. ASSUME NEW amount \in Nat, NEW rate \in Nat, NEW since \in Nat, since <= m
      PROVE  RayMul(amount, CalculateCompoundedInterest(rate, m - since)) <=
               RayMul(amount, CalculateCompoundedInterest(rate, n - since))
  <2> DEFINE before == CalculateCompoundedInterest(rate, m - since)
             after  == CalculateCompoundedInterest(rate, n - since)
  <2>1. m - since \in Nat /\ n - since \in Nat /\ m - since <= n - since
    BY <1>1
  <2>2. before \in Nat /\ after \in Nat /\ before <= after
    BY <2>1, CompoundedInterestFacts
  <2> HIDE DEF before, after
  <2>3. RayMul(amount, before) <= RayMul(amount, after)
    BY <2>2, RayMulFacts
  <2>4. QED
    BY <2>3 DEF before, after
<1>2. /\ t.totalSupply \in Nat /\ t.avgStableRate \in Nat /\ t.totalSupplyTimestamp \in Nat
      /\ t.totalSupplyTimestamp <= m
      /\ \A u \in Users : /\ t.balance[u] \in Nat /\ t.rate[u] \in Nat
                          /\ t.timestamp[u] \in Nat /\ t.timestamp[u] <= m
  BY DEF StableToken, StableClocks
<1>3. QED
  BY <1>1, <1>2 DEF StableTotalSupply, StableBalanceOf

LEMMA WeightedRateIsNat ==
  ASSUME NEW r \in Nat, NEW x \in Nat, NEW s \in Nat, NEW y \in Nat
  PROVE  WeightedRate(r, x, s, y) \in Nat
<1>1. WadToRay(x) \in Nat /\ WadToRay(y) \in Nat /\ WadToRay(x + y) \in Nat
  <2>1. x + y \in Nat
    OBVIOUS
  <2>2. QED
    BY <2>1, WadToRayFacts
<1>2. RayMul(r, WadToRay(x)) \in Nat /\ RayMul(s, WadToRay(y)) \in Nat
  BY <1>1, RayMulFacts
<1>3. RayMul(r, WadToRay(x)) + RayMul(s, WadToRay(y)) \in Nat
  BY <1>2
<1>4. QED
  BY <1>1, <1>3, RayMulFacts DEF WeightedRate

\* t is the token s after the debt of u was set to balance at time n.
Restamped(s, t, u, balance, n) ==
  /\ t \in StableToken /\ StableClocks(t, n)
  /\ t.balance = [s.balance EXCEPT ![u] = balance]
  /\ \A v \in Users \ {u} : t.rate[v] = s.rate[v] /\ t.timestamp[v] = s.timestamp[v]
  /\ t.timestamp[u] = n \/ (t.timestamp[u] = 0 /\ balance = 0)
  /\ t.totalSupplyTimestamp = n

LEMMA StableMintFacts ==
  ASSUME NEW t \in StableToken, NEW u \in Users, NEW amount \in Nat, NEW rate \in Nat,
         NEW n \in Nat \ {0}, StableClocks(t, n)
  PROVE  LET change == StableMint(t, u, amount, rate, n)
         IN /\ Restamped(t, change.token, u, StableBalanceOf(t, u, n) + amount, n)
            /\ change.token.timestamp[u] = n
            /\ change.supply \in Nat /\ change.avgStableRate \in Nat
            /\ change.supply = change.token.totalSupply
            /\ change.avgStableRate = change.token.avgStableRate
<1> DEFINE owed   == StableBalanceOf(t, u, n)
           supply == StableTotalSupply(t, n)
           avg    == WeightedRate(t.avgStableRate, supply, rate, amount)
           own    == WeightedRate(t.rate[u], owed, rate, amount)
<1>1. owed \in Nat /\ supply \in Nat
  BY StableViews
<1>2. avg \in Nat /\ own \in Nat
  <2>1. t.avgStableRate \in Nat /\ t.rate[u] \in Nat
    BY DEF StableToken
  <2>2. QED
    BY <1>1, <2>1, WeightedRateIsNat
<1> DEFINE token == [t EXCEPT !.balance[u]   = owed + amount,
                              !.rate[u]      = own,
                              !.timestamp[u] = n,
                              !.totalSupply          = supply + amount,
                              !.avgStableRate        = avg,
                              !.totalSupplyTimestamp = n]
<1>3. StableMint(t, u, amount, rate, n) =
        [token |-> token, supply |-> supply + amount, avgStableRate |-> avg]
  BY DEF StableMint, StableToken
<1> HIDE DEF owed, supply, avg, own
<1>4. /\ token \in StableToken
      /\ token.balance = [t.balance EXCEPT ![u] = owed + amount]
      /\ token.rate = [t.rate EXCEPT ![u] = own]
      /\ token.timestamp = [t.timestamp EXCEPT ![u] = n]
      /\ token.totalSupply = supply + amount /\ token.avgStableRate = avg
      /\ token.totalSupplyTimestamp = n
  <2>1. owed + amount \in Nat /\ supply + amount \in Nat
    BY <1>1
  <2>2. token \in StableToken
    BY <1>2, <2>1 DEF StableToken
  <2>3. QED
    BY <2>2 DEF StableToken
<1> HIDE DEF token
<1>5. Restamped(t, token, u, owed + amount, n) /\ token.timestamp[u] = n
  BY <1>1, <1>4 DEF Restamped, StableClocks, StableToken
<1> DEFINE change == StableMint(t, u, amount, rate, n)
<1>6. /\ change.token = token /\ change.supply = supply + amount
      /\ change.avgStableRate = avg
  BY <1>3
<1> HIDE DEF change
<1>7. /\ Restamped(t, change.token, u, owed + amount, n)
      /\ change.token.timestamp[u] = n
      /\ change.supply \in Nat /\ change.avgStableRate \in Nat
      /\ change.supply = change.token.totalSupply
      /\ change.avgStableRate = change.token.avgStableRate
  <2>1. supply + amount \in Nat
    BY <1>1
  <2>2. token.totalSupply = supply + amount /\ token.avgStableRate = avg
    BY <1>4
  <2>3. QED
    BY <2>1, <2>2, <1>2, <1>5, <1>6
<1>8. QED
  BY <1>7 DEF owed, change

LEMMA StableBurnFacts ==
  ASSUME NEW t \in StableToken, NEW u \in Users, NEW n \in Nat \ {0}, StableClocks(t, n),
         NEW amount \in Nat, amount <= StableBalanceOf(t, u, n)
  PROVE  LET change == StableBurn(t, u, amount, n)
         IN /\ Restamped(t, change.token, u, StableBalanceOf(t, u, n) - amount, n)
            /\ change.supply \in Nat /\ change.avgStableRate \in Nat
            /\ change.token.totalSupply # 0 => change.supply = change.token.totalSupply
            /\ change.avgStableRate = change.token.avgStableRate
            /\ change.token.timestamp[u] = IF amount = StableBalanceOf(t, u, n) THEN 0 ELSE n
<1> DEFINE owed   == StableBalanceOf(t, u, n)
           after  == SupplyAfterBurn(t, u, amount, n)
           whole  == amount = owed
<1>1. owed \in Nat /\ owed - amount \in Nat
  BY StableViews
<1>2. after.stored \in Nat /\ after.returned \in Nat /\ after.avgStableRate \in Nat
        /\ (after.stored # 0 => after.returned = after.stored)
  <2> DEFINE supply == StableTotalSupply(t, n)
             firstTerm  == RayMul(t.avgStableRate, WadToRay(supply))
             secondTerm == RayMul(t.rate[u], WadToRay(amount))
             left == RayDiv(firstTerm - secondTerm, WadToRay(supply - amount))
  <2>1. supply \in Nat
    BY StableViews
  <2>2. firstTerm \in Nat /\ secondTerm \in Nat
    BY <2>1, RayMulFacts, WadToRayFacts DEF StableToken
  <2>3. supply > amount /\ secondTerm < firstTerm => left \in Nat
    <3>1. supply > amount /\ secondTerm < firstTerm =>
            firstTerm - secondTerm \in Nat /\ supply - amount \in Nat
      BY <2>1, <2>2
    <3>2. QED
      BY <3>1, RayMulFacts, WadToRayFacts
  <2>4. after = IF supply <= amount THEN [stored |-> 0, returned |-> 0, avgStableRate |-> 0]
                ELSE IF secondTerm >= firstTerm
                THEN [stored |-> 0, returned |-> supply - amount, avgStableRate |-> 0]
                ELSE [stored |-> supply - amount, returned |-> supply - amount,
                      avgStableRate |-> left]
    BY DEF SupplyAfterBurn
  <2> HIDE DEF supply, firstTerm, secondTerm, left, after
  <2>5. QED
    BY <2>1, <2>2, <2>3, <2>4
<1> DEFINE token == [t EXCEPT !.balance[u]   = owed - amount,
                              !.rate[u]      = IF whole THEN 0 ELSE @,
                              !.timestamp[u] = IF whole THEN 0 ELSE n,
                              !.totalSupply          = after.stored,
                              !.avgStableRate        = after.avgStableRate,
                              !.totalSupplyTimestamp = n]
<1>3. StableBurn(t, u, amount, n) =
        [token |-> token, supply |-> after.returned, avgStableRate |-> after.avgStableRate]
  BY DEF StableBurn
<1> HIDE DEF owed, after
<1>4. /\ token \in StableToken
      /\ token.balance = [t.balance EXCEPT ![u] = owed - amount]
      /\ \A v \in Users \ {u} : token.rate[v] = t.rate[v]
      /\ token.timestamp = [t.timestamp EXCEPT ![u] = IF whole THEN 0 ELSE n]
      /\ token.totalSupply = after.stored /\ token.avgStableRate = after.avgStableRate
      /\ token.totalSupplyTimestamp = n
  BY <1>1, <1>2 DEF StableToken
<1> HIDE DEF token
<1>5. whole => owed - amount = 0
  BY <1>1
<1>6. token.timestamp[u] = IF whole THEN 0 ELSE n
  BY <1>4 DEF StableToken
<1>7. Restamped(t, token, u, owed - amount, n)
  BY <1>1, <1>4, <1>5, <1>6 DEF Restamped, StableClocks, StableToken
<1> DEFINE change == StableBurn(t, u, amount, n)
<1>8. /\ change.token = token /\ change.supply = after.returned
      /\ change.avgStableRate = after.avgStableRate
  BY <1>3
<1> HIDE DEF change
<1>9. /\ Restamped(t, change.token, u, owed - amount, n)
      /\ change.supply \in Nat /\ change.avgStableRate \in Nat
      /\ change.token.totalSupply # 0 => change.supply = change.token.totalSupply
      /\ change.avgStableRate = change.token.avgStableRate
      /\ change.token.timestamp[u] = IF amount = owed THEN 0 ELSE n
  BY <1>2, <1>4, <1>6, <1>7, <1>8
<1>10. QED
  BY <1>9 DEF owed, change

-----------------------------------------------------------------------------
(* The rate strategy.                                                       *)

LEMMA OnSlopesIsNat ==
  ASSUME NEW x \in Nat, NEW y \in Nat, NEW utilization \in Nat
  PROVE  OnSlopes(x, y, utilization) \in Nat
<1>1. /\ OPTIMAL_UTILIZATION_RATE \in Nat /\ RAY - OPTIMAL_UTILIZATION_RATE \in Nat
      /\ utilization > OPTIMAL_UTILIZATION_RATE => utilization - OPTIMAL_UTILIZATION_RATE \in Nat
  BY StrategyAssumption, RayAssumption
<1>2. CASE utilization > OPTIMAL_UTILIZATION_RATE
  <2> DEFINE part == RayDiv(utilization - OPTIMAL_UTILIZATION_RATE, RAY - OPTIMAL_UTILIZATION_RATE)
  <2>1. part \in Nat
    BY <1>1, <1>2, RayMulFacts
  <2> HIDE DEF part
  <2>2. RayMul(y, part) \in Nat
    BY <2>1, RayMulFacts
  <2>3. x + RayMul(y, part) \in Nat
    BY <2>2
  <2>4. QED
    BY <1>2, <2>3 DEF OnSlopes, part
<1>3. CASE ~(utilization > OPTIMAL_UTILIZATION_RATE)
  <2>1. RayMul(x, utilization) \in Nat
    BY RayMulFacts
  <2>2. QED
    BY <1>1, <1>3, <2>1, RayMulFacts DEF OnSlopes
<1>4. QED
  BY <1>2, <1>3

LEMMA StableExcessIsNat ==
  ASSUME NEW ratio \in Nat
  PROVE  StableExcess(ratio) \in Nat
<1> DEFINE optimal == OPTIMAL_STABLE_TO_TOTAL_DEBT_RATIO
           part    == RayDiv(ratio - optimal, RAY - optimal)
<1>1. optimal \in Nat /\ RAY - optimal \in Nat /\ StableRateExcessOffset \in Nat
  BY StrategyAssumption, RayAssumption
<1>2. CASE ratio > optimal
  <2>1. ratio - optimal \in Nat
    BY <1>1, <1>2
  <2>2. part \in Nat
    BY <1>1, <2>1, RayMulFacts
  <2> HIDE DEF part
  <2>3. RayMul(StableRateExcessOffset, part) \in Nat
    BY <1>1, <2>2, RayMulFacts
  <2>4. QED
    BY <1>2, <2>3 DEF StableExcess, part
<1>3. CASE ~(ratio > optimal)
  BY <1>3 DEF StableExcess
<1>4. QED
  BY <1>2, <1>3

\* The debts a rate is computed from.
TotalDebts == [stable : Nat, averageStableRate : Nat, variable : Nat]

LEMMA OverallBorrowRateIsNat ==
  ASSUME NEW debt \in TotalDebts, NEW rate \in Nat
  PROVE  OverallBorrowRate(debt, rate) \in Nat
<1>1. debt.stable \in Nat /\ debt.averageStableRate \in Nat /\ debt.variable \in Nat
  BY DEF TotalDebts
<1>2. debt.stable + debt.variable \in Nat
  BY <1>1
<1>3. /\ WadToRay(debt.stable) \in Nat /\ WadToRay(debt.variable) \in Nat
      /\ WadToRay(debt.stable + debt.variable) \in Nat
  BY <1>1, <1>2, WadToRayFacts
<1>4. /\ RayMul(WadToRay(debt.variable), rate) \in Nat
      /\ RayMul(WadToRay(debt.stable), debt.averageStableRate) \in Nat
  BY <1>1, <1>3, RayMulFacts
<1>5. RayMul(WadToRay(debt.variable), rate)
        + RayMul(WadToRay(debt.stable), debt.averageStableRate) \in Nat
  BY <1>4
<1>6. QED
  BY <1>3, <1>5, RayMulFacts DEF OverallBorrowRate

LEMMA RatesAreNat ==
  ASSUME NEW debt \in TotalDebts, NEW available \in Nat, NEW unbacked \in Nat,
         NEW factor \in 0 .. PERCENTAGE_FACTOR
  PROVE  LET rates == CalculateInterestRates(debt, available, unbacked, factor)
         IN rates.liquidity \in Nat /\ rates.variable \in Nat /\ rates.stable \in Nat
<1> DEFINE total        == debt.stable + debt.variable
           utilization  == RayDiv(total, available + total)
           suppliedPart == RayDiv(total, available + unbacked + total)
           climb        == OnSlopes(VariableRateSlope1, VariableRateSlope2, utilization)
           variableRate == BaseVariableBorrowRate + climb
           overall      == OverallBorrowRate(debt, variableRate)
           stableClimb  == OnSlopes(StableRateSlope1, StableRateSlope2, utilization)
           excess       == StableExcess(RayDiv(debt.stable, total))
<1>1. debt.stable \in Nat /\ debt.variable \in Nat
  BY DEF TotalDebts
<1>2. total \in Nat /\ available + total \in Nat /\ available + unbacked + total \in Nat
  BY <1>1
<1>3. utilization \in Nat /\ suppliedPart \in Nat /\ RayDiv(debt.stable, total) \in Nat
  BY <1>1, <1>2, RayMulFacts
<1>4. /\ {BaseVariableBorrowRate, VariableRateSlope1, VariableRateSlope2, StableRateSlope1,
          StableRateSlope2, BaseStableRateOffset} \subseteq Nat
  BY StrategyAssumption
<1> HIDE DEF total, utilization, suppliedPart
<1>5. climb \in Nat /\ stableClimb \in Nat
  BY <1>3, <1>4, OnSlopesIsNat
<1>6. excess \in Nat
  BY <1>3, StableExcessIsNat
<1> HIDE DEF climb, stableClimb, excess
<1>7. variableRate \in Nat /\ BaseStableBorrowRate \in Nat
  BY <1>4, <1>5 DEF BaseStableBorrowRate
<1> HIDE DEF variableRate
<1>8. overall \in Nat
  BY <1>7, OverallBorrowRateIsNat
<1> HIDE DEF overall
<1>9. RayMul(overall, suppliedPart) \in Nat
  BY <1>3, <1>8, RayMulFacts
<1>10. PERCENTAGE_FACTOR - factor \in Nat
  BY PercentageAssumption
<1>11. PercentMul(RayMul(overall, suppliedPart), PERCENTAGE_FACTOR - factor) \in Nat
  BY <1>9, <1>10, PercentMulIsNat
<1>12. BaseStableBorrowRate + stableClimb + excess \in Nat
  BY <1>5, <1>6, <1>7
<1>13. CalculateInterestRates(debt, available, unbacked, factor) =
         [liquidity |-> PercentMul(RayMul(overall, suppliedPart), PERCENTAGE_FACTOR - factor),
          variable  |-> variableRate,
          stable    |-> BaseStableBorrowRate + stableClimb + excess]
  BY DEF CalculateInterestRates, total, utilization, suppliedPart, climb, variableRate,
         overall, stableClimb, excess
<1>14. QED
  BY <1>7, <1>11, <1>12, <1>13

-----------------------------------------------------------------------------
(* The reserve.                                                             *)

ReserveTypeOK ==
  /\ reserve \in ReserveData
  /\ aToken \in [Accounts -> Nat]
  /\ variable \in VariableToken
  /\ stable \in StableToken
  /\ liquidity \in Nat
  /\ now \in Nat \ {0}
  /\ loan \in Loan

\* The inductive invariant.  No clock of the reserve or of its stable debt is
\* ahead of the last update, indexes are at least 1, and the protocol's part of
\* a premium is part of it.
ReserveInv ==
  /\ ReserveTypeOK
  /\ reserve.lastUpdateTimestamp <= now
  /\ StableClocks(stable, reserve.lastUpdateTimestamp)
  /\ reserve.liquidityIndex >= RAY /\ reserve.variableBorrowIndex >= RAY
  /\ loan.toProtocol <= loan.premium

LEMMA ScaledSums ==
  ASSUME ReserveTypeOK
  PROVE  ScaledSupply \in Nat /\ ScaledVariableSupply \in Nat
<1>1. IsFiniteSet(Users) /\ IsFiniteSet(Accounts)
  BY ReserveAssumption, FS_AddElement DEF Accounts
<1>2. DOMAIN aToken = Accounts /\ \A x \in Accounts : aToken[x] \in Nat
  BY DEF ReserveTypeOK
<1>3. DOMAIN variable.scaled = Users /\ \A u \in Users : variable.scaled[u] \in Nat
  BY DEF ReserveTypeOK, VariableToken
<1>4. QED
  BY <1>1, <1>2, <1>3, SumIsNat DEF ScaledSupply, ScaledVariableSupply, SumFunction

\* The indexes at an update: nothing is lost of what a deposit is worth, and in
\* the block of the last update both are what they are.
LEMMA IndexFacts ==
  ASSUME ReserveInv
  PROVE  /\ Elapsed \in Nat
         /\ NormalizedIncome \in Nat /\ NormalizedDebt \in Nat
         /\ NextLiquidityIndex = NormalizedIncome
         /\ NextLiquidityIndex >= reserve.liquidityIndex
         /\ NextVariableBorrowIndex \in Nat
         /\ NextVariableBorrowIndex >= reserve.variableBorrowIndex
         /\ reserve.currentLiquidityRate > 0 /\ ScaledVariableSupply # 0
              => NextVariableBorrowIndex = NormalizedDebt
         /\ reserve.lastUpdateTimestamp = now =>
              /\ NormalizedIncome = reserve.liquidityIndex
              /\ NextVariableBorrowIndex = reserve.variableBorrowIndex
              /\ NormalizedDebt = reserve.variableBorrowIndex
<1> DEFINE earned == CalculateLinearInterest(reserve.currentLiquidityRate, Elapsed)
           owed   == CalculateCompoundedInterest(reserve.currentVariableBorrowRate, Elapsed)
           li     == reserve.liquidityIndex
           vi     == reserve.variableBorrowIndex
<1>1. /\ li \in Nat /\ vi \in Nat
      /\ reserve.currentLiquidityRate \in Nat /\ reserve.currentVariableBorrowRate \in Nat
  BY DEF ReserveInv, ReserveTypeOK, ReserveData
<1>2. Elapsed \in Nat /\ (reserve.lastUpdateTimestamp = now => Elapsed = 0)
  BY DEF ReserveInv, ReserveTypeOK, ReserveData, Elapsed
<1> HIDE DEF li, vi
<1>3. /\ earned \in Nat /\ earned >= RAY
      /\ Elapsed = 0 => earned = RAY
      /\ reserve.currentLiquidityRate = 0 => earned = RAY
  BY <1>1, <1>2, LinearInterestGrows
<1>4. owed \in Nat /\ owed >= RAY /\ (Elapsed = 0 => owed = RAY)
  BY <1>1, <1>2, CompoundedInterestFacts
<1>5. NormalizedIncome = RayMul(earned, li) /\ NormalizedDebt = RayMul(owed, vi)
  BY DEF NormalizedIncome, NormalizedDebt, li, vi
<1> HIDE DEF earned, owed
<1>6. /\ NormalizedIncome \in Nat /\ NormalizedIncome >= li
      /\ earned = RAY => NormalizedIncome = li
  BY <1>1, <1>3, <1>5, RayMulFacts
<1>7. /\ NormalizedDebt \in Nat /\ NormalizedDebt >= vi
      /\ owed = RAY => NormalizedDebt = vi
  BY <1>1, <1>4, <1>5, RayMulFacts
<1>8. NextLiquidityIndex = NormalizedIncome
  <2>1. NextLiquidityIndex = IF reserve.currentLiquidityRate > 0 THEN NormalizedIncome ELSE li
    BY DEF NextLiquidityIndex, li
  <2>2. QED
    BY <1>1, <1>3, <1>6, <2>1
<1>9. NextVariableBorrowIndex =
        IF reserve.currentLiquidityRate > 0 /\ ScaledVariableSupply # 0
        THEN NormalizedDebt ELSE vi
  BY DEF NextVariableBorrowIndex, vi
<1>10. QED
  BY <1>1, <1>2, <1>3, <1>4, <1>6, <1>7, <1>8, <1>9 DEF li, vi

\* What has accrued on the debts is not negative, so that the treasury gets a
\* natural number of it.
LEMMA DebtAccruedIsNat ==
  ASSUME ReserveInv
  PROVE  DebtAccrued \in Nat
<1> DEFINE scaled == ScaledVariableSupply
           before == RayMul(scaled, reserve.variableBorrowIndex)
           after  == RayMul(scaled, NextVariableBorrowIndex)
           stableBefore == StableTotalSupply(stable, reserve.lastUpdateTimestamp)
           stableAfter  == StableTotalSupply(stable, now)
<1>1. scaled \in Nat /\ reserve.variableBorrowIndex \in Nat
  BY ScaledSums DEF ReserveInv, ReserveTypeOK, ReserveData
<1>2. NextVariableBorrowIndex \in Nat /\ reserve.variableBorrowIndex <= NextVariableBorrowIndex
  BY <1>1, IndexFacts
<1>3. before \in Nat /\ after \in Nat /\ before <= after
  BY <1>1, <1>2, RayMulFacts
<1>4. /\ stable \in StableToken /\ reserve.lastUpdateTimestamp \in Nat /\ now \in Nat
      /\ reserve.lastUpdateTimestamp <= now
      /\ StableClocks(stable, reserve.lastUpdateTimestamp)
  BY DEF ReserveInv, ReserveTypeOK, ReserveData
<1>5. StableClocks(stable, now)
  BY <1>4 DEF StableClocks, StableToken
<1>6. stableBefore \in Nat /\ stableAfter \in Nat /\ stableBefore <= stableAfter
  BY <1>4, <1>5, StableViews, StableViewsGrow
<1>7. DebtAccrued = after + stableAfter - before - stableBefore
  BY DEF DebtAccrued
<1> HIDE DEF before, after, stableBefore, stableAfter
<1>8. QED
  BY <1>3, <1>6, <1>7

\* The reserve at the beginning of an operation.
LEMMA UpdatedFacts ==
  ASSUME ReserveInv
  PROVE  /\ Updated \in ReserveData
         /\ Updated.lastUpdateTimestamp = now
         /\ Updated.liquidityIndex = NextLiquidityIndex
         /\ Updated.variableBorrowIndex = NextVariableBorrowIndex
         /\ Updated.unbacked = reserve.unbacked
<1>1. reserve \in ReserveData /\ now \in Nat
  BY DEF ReserveInv, ReserveTypeOK
<1>2. NextLiquidityIndex \in Nat /\ NextVariableBorrowIndex \in Nat
  BY IndexFacts
<1> DEFINE accrued == RayDiv(PercentMul(DebtAccrued, RESERVE_FACTOR), NextLiquidityIndex)
<1>3. accrued \in Nat
  <2>1. RESERVE_FACTOR \in Nat
    BY ReserveAssumption, PercentageAssumption
  <2>2. PercentMul(DebtAccrued, RESERVE_FACTOR) \in Nat
    BY <2>1, DebtAccruedIsNat, PercentMulIsNat
  <2>3. QED
    BY <1>2, <2>2, RayMulFacts
<1>4. Updated = [reserve EXCEPT !.liquidityIndex      = NextLiquidityIndex,
                                !.variableBorrowIndex = NextVariableBorrowIndex,
                                !.accruedToTreasury   = @ + accrued,
                                !.lastUpdateTimestamp = now]
  BY DEF Updated
<1> HIDE DEF accrued
<1>5. reserve.accruedToTreasury + accrued \in Nat
  BY <1>1, <1>3 DEF ReserveData
<1>6. QED
  BY <1>1, <1>2, <1>4, <1>5 DEF ReserveData

\* The debts of the cache.
CachedDebt == [supply : Nat, avgStableRate : Nat, scaled : Nat]

\* The rates that WithRates sets.
RatesFor(r, debt, available) ==
  CalculateInterestRates([stable |-> debt.supply, averageStableRate |-> debt.avgStableRate,
                          variable |-> RayMul(debt.scaled, r.variableBorrowIndex)],
                         available, r.unbacked, RESERVE_FACTOR)

LEMMA WithRatesFacts ==
  ASSUME NEW r \in ReserveData, NEW debt \in CachedDebt, NEW added \in Nat, NEW taken \in Nat,
         liquidity + added - taken \in Nat
  PROVE  LET s     == WithRates(r, debt, added, taken)
             rates == RatesFor(r, debt, liquidity + added - taken)
         IN /\ s \in ReserveData
            /\ s.lastUpdateTimestamp = r.lastUpdateTimestamp
            /\ s.liquidityIndex = r.liquidityIndex
            /\ s.variableBorrowIndex = r.variableBorrowIndex
            /\ s.unbacked = r.unbacked
            /\ s.currentLiquidityRate = rates.liquidity
            /\ s.currentVariableBorrowRate = rates.variable
            /\ s.currentStableBorrowRate = rates.stable
<1> DEFINE debts == [stable |-> debt.supply, averageStableRate |-> debt.avgStableRate,
                     variable |-> RayMul(debt.scaled, r.variableBorrowIndex)]
           rates == CalculateInterestRates(debts, liquidity + added - taken, r.unbacked,
                                           RESERVE_FACTOR)
<1>1. debts \in TotalDebts
  <2>1. debt.scaled \in Nat /\ r.variableBorrowIndex \in Nat
    BY DEF CachedDebt, ReserveData
  <2>2. RayMul(debt.scaled, r.variableBorrowIndex) \in Nat
    BY <2>1, RayMulFacts
  <2>3. QED
    BY <2>2 DEF TotalDebts, CachedDebt
<1>2. r.unbacked \in Nat /\ RESERVE_FACTOR \in 0 .. PERCENTAGE_FACTOR
  BY ReserveAssumption DEF ReserveData
<1> HIDE DEF debts
<1>3. rates.liquidity \in Nat /\ rates.variable \in Nat /\ rates.stable \in Nat
  BY <1>1, <1>2, RatesAreNat
<1>4. WithRates(r, debt, added, taken) =
        [r EXCEPT !.currentLiquidityRate      = rates.liquidity,
                  !.currentVariableBorrowRate = rates.variable,
                  !.currentStableBorrowRate   = rates.stable]
  BY DEF WithRates, debts
<1>5. rates = RatesFor(r, debt, liquidity + added - taken)
  BY DEF RatesFor, debts
<1> HIDE DEF rates
<1>6. QED
  BY <1>3, <1>4, <1>5 DEF ReserveData

LEMMA CacheFacts ==
  ASSUME ReserveInv
  PROVE  /\ StableClocks(stable, now)
         /\ SameDebt \in CachedDebt
         /\ SameDebt.supply = StableTotalSupply(stable, now)
         /\ SameDebt.avgStableRate = stable.avgStableRate
         /\ SameDebt.scaled = ScaledVariableSupply
<1>1. /\ stable \in StableToken /\ reserve.lastUpdateTimestamp \in Nat /\ now \in Nat
      /\ reserve.lastUpdateTimestamp <= now
      /\ StableClocks(stable, reserve.lastUpdateTimestamp)
  BY DEF ReserveInv, ReserveTypeOK, ReserveData
<1>2. StableClocks(stable, now)
  BY <1>1 DEF StableClocks, StableToken
<1>3. StableTotalSupply(stable, now) \in Nat /\ stable.avgStableRate \in Nat
        /\ ScaledVariableSupply \in Nat
  BY <1>1, <1>2, StableViews, ScaledSums DEF ReserveInv, StableToken
<1>4. QED
  BY <1>2, <1>3 DEF SameDebt, CachedDebt

-----------------------------------------------------------------------------
(* The steps.  An operation refreshes the reserve: it updates it, changes    *)
(* debts, and sets the rates.  A few steps let it rest, and time passes.    *)

\* The debt the rates are computed from is the debt the tokens have after the
\* step, but for the supply that burn returns when it resets the total.
DebtIsKnown(debt) ==
  /\ debt.scaled = ScaledVariableSupply'
  /\ debt.avgStableRate = stable'.avgStableRate
  /\ \/ debt.supply = StableTotalSupply(stable', now)
     \/ stable'.totalSupply = 0 /\ stable'.totalSupplyTimestamp = now

Refreshes(inKind) ==
  \E r \in ReserveData, debt \in CachedDebt, added \in Nat, taken \in Nat :
    /\ r.lastUpdateTimestamp = now
    /\ r.liquidityIndex >= NextLiquidityIndex
    /\ r.variableBorrowIndex = NextVariableBorrowIndex
    /\ DebtIsKnown(debt)
    /\ liquidity + added - taken \in Nat
    /\ inKind \/ liquidity' = liquidity + added - taken
    /\ reserve' = WithRates(r, debt, added, taken)

\* What happens to the variable debt of u: it rises at the index of the moment, and
\* is repaid at an index above that of its last change, or becomes stable debt.
VariableMoves(u) ==
  /\ variable'.previousIndex[u] \in {variable.previousIndex[u], NextVariableBorrowIndex}
  /\ variable'.scaled[u] > variable.scaled[u] =>
       variable'.previousIndex[u] = NextVariableBorrowIndex
  /\ variable'.scaled[u] < variable.scaled[u] =>
       \/ variable.previousIndex[u] < NextVariableBorrowIndex
       \/ stable'.balance[u] # stable.balance[u]

\* What happens to the stable debt of u: it is raised or moved to another rate now,
\* or it is paid in a later block than its last change, or becomes variable debt.
StableMoves(u) ==
  \/ /\ stable'.balance[u] = stable.balance[u] /\ stable'.rate[u] = stable.rate[u]
     /\ stable'.timestamp[u] = stable.timestamp[u]
  \/ /\ stable'.timestamp[u] = now /\ stable'.balance[u] >= StableBalance(u)
  \/ /\ stable'.timestamp[u] # stable.timestamp[u]
     /\ stable'.timestamp[u] = now \/ stable'.balance[u] = 0
     /\ stable'.balance[u] < StableBalance(u)
     /\ stable.timestamp[u] < now \/ variable'.scaled[u] # variable.scaled[u]

\* The rest of the state has its shape.
RestOK ==
  /\ aToken' \in [Accounts -> Nat]
  /\ variable' \in VariableToken
  /\ liquidity' \in Nat
  /\ loan' \in Loan /\ loan'.toProtocol <= loan'.premium
  /\ now' = now

Operation(inKind) ==
  /\ Refreshes(inKind)
  /\ stable' \in StableToken /\ StableClocks(stable', now)
  /\ \A u \in Users : VariableMoves(u) /\ StableMoves(u)
  /\ RestOK

Rest ==
  /\ reserve' \in {reserve, [reserve EXCEPT !.accruedToTreasury = 0]}
  /\ UNCHANGED <<variable, stable>>
  /\ loan' # NoLoan \/ UNCHANGED <<liquidity, loan>>
  /\ RestOK

\* In the words of the invariant.
LEMMA OperationFacts ==
  ASSUME ReserveInv, NEW inKind \in BOOLEAN, Operation(inKind)
  PROVE  /\ ReserveInv'
         /\ reserve'.lastUpdateTimestamp = now
         /\ reserve'.liquidityIndex >= NextLiquidityIndex
         /\ reserve'.variableBorrowIndex = NextVariableBorrowIndex
<1>1. PICK r \in ReserveData, debt \in CachedDebt, added \in Nat, taken \in Nat :
        /\ r.lastUpdateTimestamp = now
        /\ r.liquidityIndex >= NextLiquidityIndex
        /\ r.variableBorrowIndex = NextVariableBorrowIndex
        /\ liquidity + added - taken \in Nat
        /\ reserve' = WithRates(r, debt, added, taken)
  BY DEF Operation, Refreshes
<1>2. /\ reserve' \in ReserveData
      /\ reserve'.lastUpdateTimestamp = now
      /\ reserve'.liquidityIndex = r.liquidityIndex
      /\ reserve'.variableBorrowIndex = NextVariableBorrowIndex
  BY <1>1, WithRatesFacts
<1>3. /\ reserve.liquidityIndex >= RAY /\ reserve.variableBorrowIndex >= RAY
      /\ reserve.liquidityIndex \in Nat /\ reserve.variableBorrowIndex \in Nat
      /\ NextLiquidityIndex \in Nat /\ NextVariableBorrowIndex \in Nat
      /\ NextLiquidityIndex >= reserve.liquidityIndex
      /\ NextVariableBorrowIndex >= reserve.variableBorrowIndex
      /\ RAY \in Nat /\ r.liquidityIndex \in Nat
  BY IndexFacts, RayMulFacts DEF ReserveInv, ReserveTypeOK, ReserveData
<1>4. reserve'.liquidityIndex >= RAY /\ reserve'.variableBorrowIndex >= RAY
  BY <1>1, <1>2, <1>3
<1>5. ReserveTypeOK'
  BY <1>2 DEF ReserveInv, ReserveTypeOK, Operation, RestOK
<1>6. now \in Nat /\ now' = now /\ StableClocks(stable', now) /\ loan'.toProtocol <= loan'.premium
  BY DEF ReserveInv, ReserveTypeOK, Operation, RestOK
<1>7. ReserveInv'
  BY <1>2, <1>4, <1>5, <1>6 DEF ReserveInv, StableClocks
<1>8. QED
  BY <1>1, <1>2, <1>7

-----------------------------------------------------------------------------
(* What the tokens do.                                                      *)

LEMMA DebtUntouched ==
  ASSUME ReserveInv, UNCHANGED <<variable, stable>>
  PROVE  /\ DebtIsKnown(SameDebt)
         /\ stable' \in StableToken /\ StableClocks(stable', now)
         /\ \A u \in Users : VariableMoves(u) /\ StableMoves(u)
         /\ variable' \in VariableToken
<1>1. ScaledVariableSupply' = ScaledVariableSupply
  BY DEF ScaledVariableSupply
<1>2. DebtIsKnown(SameDebt)
  BY <1>1, CacheFacts DEF DebtIsKnown
<1>3. stable \in StableToken /\ StableClocks(stable, now) /\ variable \in VariableToken
  BY CacheFacts DEF ReserveInv, ReserveTypeOK
<1>4. ASSUME NEW u \in Users
      PROVE  VariableMoves(u) /\ StableMoves(u)
  <2>1. variable.scaled[u] \in Nat
    BY <1>3 DEF VariableToken
  <2>2. QED
    BY <2>1 DEF VariableMoves, StableMoves
<1>5. QED
  BY <1>2, <1>3, <1>4

\* Where stable debt is untouched, the moves of variable debt are those of its token.
LEMMA StableUntouched ==
  ASSUME ReserveInv, UNCHANGED stable
  PROVE  /\ stable' \in StableToken /\ StableClocks(stable', now)
         /\ \A u \in Users : StableMoves(u)
  BY CacheFacts DEF ReserveInv, ReserveTypeOK, StableMoves

LEMMA VariableUntouched ==
  ASSUME ReserveInv, UNCHANGED variable
  PROVE  /\ ScaledVariableSupply' = ScaledVariableSupply
         /\ \A u \in Users : VariableMoves(u)
         /\ variable' \in VariableToken
<1>1. variable \in VariableToken
  BY DEF ReserveInv, ReserveTypeOK
<1>2. QED
  BY <1>1 DEF VariableMoves, VariableToken, ScaledVariableSupply

\* The sum of the scaled debts follows that of u.
LEMMA ScaledSumFollows ==
  ASSUME ReserveInv, NEW u \in Users, NEW n \in Nat,
         variable'.scaled = [variable.scaled EXCEPT ![u] = n]
  PROVE  ScaledVariableSupply' = ScaledVariableSupply + (n - variable.scaled[u])
<1> DEFINE f == variable.scaled
           g == variable'.scaled
<1>1. IsFiniteSet(Users)
  BY ReserveAssumption
<1>2. DOMAIN f = Users /\ DOMAIN g = Users
        /\ \A v \in Users : f[v] \in Nat /\ g[v] \in Nat /\ (v # u => g[v] = f[v])
        /\ g[u] = n
  BY DEF ReserveInv, ReserveTypeOK, VariableToken
<1> HIDE DEF f, g
<1>3. SumFunctionOnSet(g, Users) = SumFunctionOnSet(f, Users) + (g[u] - f[u])
  BY <1>1, <1>2, SumWithOneChanged
<1>4. ScaledVariableSupply = SumFunctionOnSet(f, Users)
        /\ ScaledVariableSupply' = SumFunctionOnSet(g, Users)
  BY <1>2 DEF ScaledVariableSupply, SumFunction, f, g
<1>5. QED
  BY <1>2, <1>3, <1>4 DEF f

LEMMA VariableMintedFacts ==
  ASSUME ReserveInv, NEW u \in Users, NEW amount \in Nat,
         MayMint(amount, NextVariableBorrowIndex),
         variable' = VariableMinted(u, amount, NextVariableBorrowIndex)
  PROVE  LET minted == RayDiv(amount, NextVariableBorrowIndex)
         IN /\ variable' \in VariableToken
            /\ minted \in Nat
            /\ ScaledVariableSupply' = ScaledVariableSupply + minted
            /\ ScaledVariableSupply + minted \in Nat
            /\ \A v \in Users : VariableMoves(v)
            /\ variable'.scaled[u] # variable.scaled[u]
<1> DEFINE index  == NextVariableBorrowIndex
           minted == RayDiv(amount, index)
<1>1. index \in Nat /\ minted \in Nat /\ minted # 0
  BY IndexFacts, RayMulFacts DEF MayMint
<1>2. variable \in VariableToken /\ variable.scaled[u] \in Nat /\ ScaledVariableSupply \in Nat
  BY ScaledSums DEF ReserveInv, ReserveTypeOK, VariableToken
<1>3. variable' = [scaled        |-> [variable.scaled EXCEPT ![u] = @ + minted],
                   previousIndex |-> [variable.previousIndex EXCEPT ![u] = index]]
  BY DEF VariableMinted
<1> HIDE DEF minted, index
<1> DEFINE n == variable.scaled[u] + minted
<1>4. n \in Nat /\ n > variable.scaled[u]
  BY <1>1, <1>2
<1>5. /\ variable'.scaled = [variable.scaled EXCEPT ![u] = n]
      /\ variable'.previousIndex = [variable.previousIndex EXCEPT ![u] = index]
      /\ variable' \in VariableToken
  BY <1>1, <1>2, <1>3, <1>4 DEF VariableToken
<1>6. ScaledVariableSupply' = ScaledVariableSupply + (n - variable.scaled[u])
  <2> HIDE DEF n
  <2>1. QED
    BY <1>4, <1>5, ScaledSumFollows
<1>7. ScaledVariableSupply' = ScaledVariableSupply + minted
  BY <1>1, <1>2, <1>6
<1>8. variable'.scaled[u] = n
  BY <1>2, <1>5 DEF VariableToken
<1> HIDE DEF n
<1>9. ASSUME NEW v \in Users
      PROVE  VariableMoves(v)
  <2>1. CASE v = u
    <3>1. variable'.previousIndex[u] = index
      BY <1>2, <1>5 DEF VariableToken
    <3>2. variable'.scaled[u] > variable.scaled[u] /\ ~(variable'.scaled[u] < variable.scaled[u])
      BY <1>2, <1>4, <1>8
    <3>3. QED
      BY <2>1, <3>1, <3>2 DEF VariableMoves, index
  <2>2. CASE v # u
    <3>1. variable'.scaled[v] = variable.scaled[v] /\ variable.scaled[v] \in Nat
            /\ variable'.previousIndex[v] = variable.previousIndex[v]
      BY <1>2, <1>5, <2>2 DEF VariableToken
    <3>2. QED
      BY <3>1 DEF VariableMoves
  <2>3. QED
    BY <2>1, <2>2
<1>10. variable'.scaled[u] # variable.scaled[u]
  BY <1>2, <1>4, <1>8
<1>11. ScaledVariableSupply + minted \in Nat
  BY <1>1, <1>2
<1>12. QED
  BY <1>1, <1>5, <1>7, <1>9, <1>10, <1>11 DEF minted, index

\* A burn is a move when the guard of a repayment holds or stable debt is made of it.
LEMMA VariableBurntFacts ==
  ASSUME ReserveInv, NEW u \in Users, NEW amount \in Nat,
         MayBurn(variable.scaled[u], amount, NextVariableBorrowIndex),
         variable' = VariableBurnt(u, amount, NextVariableBorrowIndex),
         \/ variable.previousIndex[u] < NextVariableBorrowIndex
         \/ stable'.balance[u] # stable.balance[u]
  PROVE  LET burnt == RayDiv(amount, NextVariableBorrowIndex)
         IN /\ variable' \in VariableToken
            /\ ScaledVariableSupply' = ScaledVariableSupply - burnt
            /\ ScaledVariableSupply - burnt \in Nat
            /\ \A v \in Users : VariableMoves(v)
            /\ variable'.scaled[u] # variable.scaled[u]
<1> DEFINE index == NextVariableBorrowIndex
           burnt == RayDiv(amount, index)
<1>1. index \in Nat
  BY IndexFacts
<1>2. variable \in VariableToken /\ variable.scaled[u] \in Nat /\ ScaledVariableSupply \in Nat
  BY ScaledSums DEF ReserveInv, ReserveTypeOK, VariableToken
<1>3. burnt \in Nat /\ burnt # 0 /\ burnt <= variable.scaled[u]
  BY <1>2 DEF MayBurn
<1>4. variable' = [scaled        |-> [variable.scaled EXCEPT ![u] = @ - burnt],
                   previousIndex |-> [variable.previousIndex EXCEPT ![u] = index]]
  BY DEF VariableBurnt
<1>5. \/ variable.previousIndex[u] < index
      \/ stable'.balance[u] # stable.balance[u]
  OBVIOUS
<1> HIDE DEF burnt, index
<1> DEFINE n == variable.scaled[u] - burnt
<1>6. n \in Nat /\ n < variable.scaled[u]
  BY <1>2, <1>3
<1>7. /\ variable'.scaled = [variable.scaled EXCEPT ![u] = n]
      /\ variable'.previousIndex = [variable.previousIndex EXCEPT ![u] = index]
      /\ variable' \in VariableToken
  BY <1>1, <1>2, <1>4, <1>6 DEF VariableToken
<1>8. ScaledVariableSupply' = ScaledVariableSupply + (n - variable.scaled[u])
  <2> HIDE DEF n
  <2>1. QED
    BY <1>6, <1>7, ScaledSumFollows
<1>9. ScaledVariableSupply' = ScaledVariableSupply - burnt
  BY <1>2, <1>3, <1>8
<1>10. variable'.scaled[u] = n
  BY <1>2, <1>7 DEF VariableToken
<1> HIDE DEF n
<1>11. ASSUME NEW v \in Users
       PROVE  VariableMoves(v)
  <2>1. CASE v = u
    <3>1. variable'.previousIndex[u] = index
      BY <1>2, <1>7 DEF VariableToken
    <3>2. ~(variable'.scaled[u] > variable.scaled[u])
      BY <1>2, <1>6, <1>10
    <3>3. QED
      BY <2>1, <3>1, <3>2, <1>5 DEF VariableMoves, index
  <2>2. CASE v # u
    <3>1. variable'.scaled[v] = variable.scaled[v] /\ variable.scaled[v] \in Nat
            /\ variable'.previousIndex[v] = variable.previousIndex[v]
      BY <1>2, <1>7, <2>2 DEF VariableToken
    <3>2. QED
      BY <3>1 DEF VariableMoves
  <2>3. QED
    BY <2>1, <2>2
<1>12. variable'.scaled[u] # variable.scaled[u]
  BY <1>2, <1>6, <1>10
<1>13. ScaledVariableSupply - burnt \in Nat
  <2>1. variable.scaled[u] <= ScaledVariableSupply
    <3>1. DOMAIN variable.scaled = Users /\ \A v \in Users : variable.scaled[v] \in Nat
      BY <1>2 DEF VariableToken
    <3>2. QED
      BY <3>1, ReserveAssumption, SumBoundsSummand DEF ScaledVariableSupply, SumFunction
  <2>2. QED
    BY <1>2, <1>3, <2>1
<1>14. QED
  BY <1>7, <1>9, <1>11, <1>12, <1>13 DEF burnt, index

\* A debt that was restamped now is known to the rates and leaves other debts alone.
LEMMA RestampedFacts ==
  ASSUME ReserveInv, NEW u \in Users, NEW balance \in Nat,
         Restamped(stable, stable', u, balance, now)
  PROVE  /\ stable' \in StableToken /\ StableClocks(stable', now)
         /\ stable'.balance[u] = balance
         /\ StableTotalSupply(stable', now) = stable'.totalSupply
         /\ stable'.totalSupplyTimestamp = now
         /\ \A v \in Users \ {u} : StableMoves(v)
<1>1. stable \in StableToken /\ now \in Nat
  BY DEF ReserveInv, ReserveTypeOK
<1>2. stable' \in StableToken /\ StableClocks(stable', now) /\ stable'.totalSupplyTimestamp = now
        /\ stable'.balance = [stable.balance EXCEPT ![u] = balance]
  BY DEF Restamped
<1>3. StableTotalSupply(stable', now) = stable'.totalSupply
  BY <1>1, <1>2, StableViews
<1>4. stable'.balance[u] = balance /\ \A v \in Users \ {u} : stable'.balance[v] = stable.balance[v]
  BY <1>1, <1>2 DEF StableToken
<1>5. \A v \in Users \ {u} : StableMoves(v)
  BY <1>4 DEF Restamped, StableMoves
<1>6. QED
  BY <1>2, <1>3, <1>4, <1>5

LEMMA StableMintedFacts ==
  ASSUME ReserveInv, NEW u \in Users, NEW amount \in Nat, NEW rate \in Nat, NEW change,
         change = StableMint(stable, u, amount, rate, now), stable' = change.token
  PROVE  /\ stable' \in StableToken /\ StableClocks(stable', now)
         /\ \A v \in Users : StableMoves(v)
         /\ change.supply \in Nat /\ change.avgStableRate \in Nat
         /\ change.supply = StableTotalSupply(stable', now)
         /\ change.avgStableRate = stable'.avgStableRate
         /\ stable'.balance[u] = StableBalance(u) + amount
<1> DEFINE owed == StableBalanceOf(stable, u, now)
<1>1. stable \in StableToken /\ now \in Nat \ {0} /\ StableClocks(stable, now)
  BY CacheFacts DEF ReserveInv, ReserveTypeOK
<1>2. owed \in Nat /\ StableBalance(u) = owed
  BY <1>1, StableViews DEF StableBalance
<1> HIDE DEF owed
<1>3. /\ Restamped(stable, stable', u, owed + amount, now)
      /\ stable'.timestamp[u] = now
      /\ change.supply \in Nat /\ change.avgStableRate \in Nat
      /\ change.supply = stable'.totalSupply
      /\ change.avgStableRate = stable'.avgStableRate
  BY <1>1, StableMintFacts DEF owed
<1> DEFINE balance == owed + amount
<1>4. balance \in Nat /\ balance >= owed
  BY <1>2
<1>5. Restamped(stable, stable', u, balance, now)
  BY <1>3
<1> HIDE DEF balance
<1>6. /\ stable' \in StableToken /\ StableClocks(stable', now)
      /\ stable'.balance[u] = balance
      /\ StableTotalSupply(stable', now) = stable'.totalSupply
      /\ \A v \in Users \ {u} : StableMoves(v)
  BY <1>4, <1>5, RestampedFacts
<1>7. StableMoves(u)
  BY <1>2, <1>3, <1>4, <1>6 DEF StableMoves
<1>8. QED
  BY <1>2, <1>3, <1>6, <1>7 DEF balance

\* What is burnt was stamped in an earlier block, or all of it becomes variable debt.
LEMMA StableBurntFacts ==
  ASSUME ReserveInv, NEW u \in Users, NEW amount \in Nat \ {0}, NEW change,
         amount <= StableBalance(u),
         change = StableBurn(stable, u, amount, now), stable' = change.token,
         \/ stable.timestamp[u] < now
         \/ amount = StableBalance(u) /\ variable'.scaled[u] # variable.scaled[u]
  PROVE  /\ stable' \in StableToken /\ StableClocks(stable', now)
         /\ \A v \in Users : StableMoves(v)
         /\ change.supply \in Nat /\ change.avgStableRate \in Nat
         /\ \/ change.supply = StableTotalSupply(stable', now)
            \/ stable'.totalSupply = 0 /\ stable'.totalSupplyTimestamp = now
         /\ change.avgStableRate = stable'.avgStableRate
<1> DEFINE owed == StableBalanceOf(stable, u, now)
<1>1. stable \in StableToken /\ now \in Nat \ {0} /\ StableClocks(stable, now)
  BY CacheFacts DEF ReserveInv, ReserveTypeOK
<1>2. owed \in Nat /\ StableBalance(u) = owed /\ amount <= owed
        /\ (stable.balance[u] = 0 => owed = 0)
  BY <1>1, StableViews DEF StableBalance
<1>3. /\ Restamped(stable, stable', u, owed - amount, now)
      /\ change.supply \in Nat /\ change.avgStableRate \in Nat
      /\ stable'.totalSupply # 0 => change.supply = stable'.totalSupply
      /\ change.avgStableRate = stable'.avgStableRate
      /\ stable'.timestamp[u] = IF amount = owed THEN 0 ELSE now
  <2>1. amount \in Nat /\ amount <= StableBalanceOf(stable, u, now)
    BY <1>2
  <2>2. QED
    BY <1>1, <2>1, StableBurnFacts
<1> HIDE DEF owed
<1> DEFINE balance == owed - amount
<1>4. balance \in Nat /\ balance < owed /\ (amount = owed => balance = 0)
  BY <1>2
<1>5. Restamped(stable, stable', u, balance, now)
  BY <1>3
<1> HIDE DEF balance
<1>6. /\ stable' \in StableToken /\ StableClocks(stable', now)
      /\ stable'.balance[u] = balance
      /\ StableTotalSupply(stable', now) = stable'.totalSupply
      /\ stable'.totalSupplyTimestamp = now
      /\ \A v \in Users \ {u} : StableMoves(v)
  BY <1>4, <1>5, RestampedFacts
<1>7. StableMoves(u)
  <2>1. stable.timestamp[u] # 0 /\ stable.timestamp[u] \in Nat
    BY <1>1, <1>2 DEF StableClocks, StableToken
  <2>2. stable'.timestamp[u] = now \/ stable'.balance[u] = 0
    BY <1>3, <1>4, <1>6
  <2>3. stable.timestamp[u] < now \/ variable'.scaled[u] # variable.scaled[u]
    OBVIOUS
  <2>4. stable'.timestamp[u] # stable.timestamp[u]
    <3>1. CASE amount = owed
      BY <1>3, <2>1, <3>1
    <3>2. CASE amount # owed
      <4>1. stable'.timestamp[u] = now /\ stable.timestamp[u] < now
        BY <1>2, <1>3, <3>2
      <4>2. QED
        BY <1>1, <2>1, <4>1
    <3>3. QED
      BY <3>1, <3>2
  <2>5. QED
    BY <2>2, <2>3, <2>4, <1>2, <1>4, <1>6 DEF StableMoves
<1>8. QED
  BY <1>3, <1>6, <1>7

\* The cache after changes of the debts.
LEMMA CacheWithStable ==
  ASSUME ReserveInv, NEW change, change.supply \in Nat, change.avgStableRate \in Nat
  PROVE  /\ WithStable(SameDebt, change) \in CachedDebt
         /\ WithStable(SameDebt, change).supply = change.supply
         /\ WithStable(SameDebt, change).avgStableRate = change.avgStableRate
         /\ WithStable(SameDebt, change).scaled = ScaledVariableSupply
  BY CacheFacts DEF WithStable, CachedDebt

LEMMA CacheWithScaled ==
  ASSUME NEW debt \in CachedDebt, NEW scaled \in Nat
  PROVE  /\ WithScaled(debt, scaled) \in CachedDebt
         /\ WithScaled(debt, scaled).supply = debt.supply
         /\ WithScaled(debt, scaled).avgStableRate = debt.avgStableRate
         /\ WithScaled(debt, scaled).scaled = scaled
  BY DEF WithScaled, CachedDebt

-----------------------------------------------------------------------------
(* The operations.                                                          *)

\* An operation that starts from the updated reserve.
LEMMA RefreshesUpdated ==
  ASSUME ReserveInv, NEW inKind \in BOOLEAN,
         NEW debt \in CachedDebt, NEW added \in Nat, NEW taken \in Nat,
         taken <= liquidity, DebtIsKnown(debt),
         inKind \/ liquidity' = liquidity + added - taken,
         reserve' = WithRates(Updated, debt, added, taken)
  PROVE  Refreshes(inKind)
<1>1. liquidity \in Nat /\ NextLiquidityIndex \in Nat
  BY IndexFacts DEF ReserveInv, ReserveTypeOK
<1>2. liquidity + added - taken \in Nat
  BY <1>1
<1>3. Updated.liquidityIndex >= NextLiquidityIndex
  BY <1>1, UpdatedFacts
<1>4. QED
  BY <1>2, <1>3, UpdatedFacts DEF Refreshes

LEMMA LoanUntouched ==
  ASSUME ReserveInv, UNCHANGED loan
  PROVE  loan' \in Loan /\ loan'.toProtocol <= loan'.premium
  BY DEF ReserveInv, ReserveTypeOK

LEMMA ATokensMinted ==
  ASSUME ReserveInv, NEW x \in Accounts, NEW n \in Nat, aToken' = [aToken EXCEPT ![x] = @ + n]
  PROVE  aToken' \in [Accounts -> Nat]
<1>1. aToken \in [Accounts -> Nat] /\ aToken[x] + n \in Nat
  BY DEF ReserveInv, ReserveTypeOK
<1>2. QED
  BY <1>1

LEMMA ATokensBurnt ==
  ASSUME ReserveInv, NEW x \in Accounts, NEW n \in Nat, n <= aToken[x],
         aToken' = [aToken EXCEPT ![x] = @ - n]
  PROVE  aToken' \in [Accounts -> Nat]
<1>1. aToken \in [Accounts -> Nat] /\ aToken[x] - n \in Nat
  BY DEF ReserveInv, ReserveTypeOK
<1>2. QED
  BY <1>1

LEMMA SupplyStep ==
  ASSUME ReserveInv, NEW u \in Users, NEW amount \in Nat, Supply(u, amount)
  PROVE  Operation(FALSE)
<1>1. liquidity \in Nat /\ aToken \in [Accounts -> Nat] /\ u \in Accounts
  BY DEF ReserveInv, ReserveTypeOK, Accounts
<1>2. UNCHANGED <<variable, stable>> /\ UNCHANGED loan /\ now' = now
        /\ liquidity' = liquidity + amount
        /\ reserve' = WithRates(Updated, SameDebt, amount, 0)
        /\ aToken' = [aToken EXCEPT ![u] = @ + RayDiv(amount, NextLiquidityIndex)]
  BY DEF Supply
<1>3. liquidity' = liquidity + amount - 0 /\ 0 <= liquidity /\ liquidity' \in Nat
  BY <1>1, <1>2
<1>4. Refreshes(FALSE)
  BY <1>2, <1>3, CacheFacts, DebtUntouched, RefreshesUpdated
<1>5. aToken' \in [Accounts -> Nat]
  <2>1. RayDiv(amount, NextLiquidityIndex) \in Nat
    BY IndexFacts, RayMulFacts
  <2>2. QED
    BY <1>1, <1>2, <2>1, ATokensMinted
<1>6. QED
  BY <1>2, <1>3, <1>4, <1>5, DebtUntouched, LoanUntouched DEF Operation, RestOK

LEMMA WithdrawStep ==
  ASSUME ReserveInv, NEW u \in Users, NEW asked \in Nat, NEW all \in BOOLEAN,
         Withdraw(u, asked, all)
  PROVE  Operation(FALSE)
<1> DEFINE balance == RayMul(aToken[u], NextLiquidityIndex)
           amount  == IF all THEN balance ELSE asked
<1>1. liquidity \in Nat /\ aToken[u] \in Nat /\ u \in Accounts
  BY DEF ReserveInv, ReserveTypeOK, Accounts
<1>2. amount \in Nat
  BY <1>1, IndexFacts, RayMulFacts
<1>3. /\ amount <= liquidity
      /\ MayBurn(aToken[u], amount, NextLiquidityIndex)
      /\ reserve' = WithRates(Updated, SameDebt, 0, amount)
      /\ aToken' = [aToken EXCEPT ![u] = @ - RayDiv(amount, NextLiquidityIndex)]
      /\ liquidity' = liquidity - amount
      /\ UNCHANGED <<variable, stable>> /\ UNCHANGED loan /\ now' = now
  BY DEF Withdraw
<1> HIDE DEF amount
<1>4. liquidity' = liquidity + 0 - amount /\ liquidity' \in Nat
  BY <1>1, <1>2, <1>3
<1>5. Refreshes(FALSE)
  BY <1>2, <1>3, <1>4, CacheFacts, DebtUntouched, RefreshesUpdated
<1>6. aToken' \in [Accounts -> Nat]
  <2>1. RayDiv(amount, NextLiquidityIndex) \in Nat
          /\ RayDiv(amount, NextLiquidityIndex) <= aToken[u]
    BY <1>1, <1>3 DEF MayBurn
  <2>2. QED
    BY <1>1, <1>3, <2>1, ATokensBurnt
<1>7. QED
  BY <1>3, <1>4, <1>5, <1>6, DebtUntouched, LoanUntouched DEF Operation, RestOK

LEMMA TransferStep ==
  ASSUME ReserveInv, NEW u \in Users, NEW to \in Users, NEW amount \in Nat,
         Transfer(u, to, amount)
  PROVE  Rest
<1> DEFINE scaled == RayDiv(amount, NormalizedIncome)
<1>1. scaled \in Nat
  BY IndexFacts, RayMulFacts
<1>2. /\ scaled <= aToken[u]
      /\ aToken' = [x \in Accounts |-> aToken[x] + (IF x = to THEN scaled ELSE 0)
                                                 - (IF x = u THEN scaled ELSE 0)]
      /\ UNCHANGED <<variable, stable>> /\ UNCHANGED <<liquidity, loan>> /\ now' = now
      /\ reserve' = reserve
  BY DEF Transfer
<1> HIDE DEF scaled
<1>3. \A x \in Accounts : aToken[x] \in Nat
  BY DEF ReserveInv, ReserveTypeOK
<1>4. \A x \in Accounts : aToken[x] + (IF x = to THEN scaled ELSE 0)
                                     - (IF x = u THEN scaled ELSE 0) \in Nat
  BY <1>1, <1>2, <1>3
<1>5. aToken' \in [Accounts -> Nat]
  BY <1>2, <1>4
<1>6. liquidity' \in Nat /\ variable' \in VariableToken
  BY <1>2 DEF ReserveInv, ReserveTypeOK
<1>7. QED
  BY <1>2, <1>5, <1>6, LoanUntouched DEF Rest, RestOK

LEMMA MintToTreasuryStep ==
  ASSUME ReserveInv, MintToTreasury
  PROVE  Rest
<1> DEFINE amount == RayMul(reserve.accruedToTreasury, NormalizedIncome)
<1>1. reserve.accruedToTreasury \in Nat /\ Treasury \in Accounts
  BY DEF ReserveInv, ReserveTypeOK, ReserveData, Accounts
<1>2. amount \in Nat
  BY <1>1, IndexFacts, RayMulFacts
<1>3. /\ reserve' = [reserve EXCEPT !.accruedToTreasury = 0]
      /\ aToken' = [aToken EXCEPT ![Treasury] = @ + RayDiv(amount, NormalizedIncome)]
      /\ UNCHANGED <<variable, stable>> /\ UNCHANGED <<liquidity, loan>> /\ now' = now
  BY DEF MintToTreasury
<1> HIDE DEF amount
<1>4. RayDiv(amount, NormalizedIncome) \in Nat
  BY <1>2, IndexFacts, RayMulFacts
<1>5. aToken' \in [Accounts -> Nat]
  BY <1>1, <1>3, <1>4, ATokensMinted
<1>6. liquidity' \in Nat /\ variable' \in VariableToken
  BY <1>3 DEF ReserveInv, ReserveTypeOK
<1>7. QED
  BY <1>3, <1>5, <1>6, LoanUntouched DEF Rest, RestOK

LEMMA BorrowedStep ==
  ASSUME ReserveInv, NEW u \in Users, NEW amount \in Nat, NEW released \in Nat,
         released <= liquidity, liquidity' = liquidity - released,
         BorrowVariable(u, amount, released) \/ BorrowStable(u, amount, released),
         UNCHANGED aToken, now' = now, loan' \in Loan, loan'.toProtocol <= loan'.premium
  PROVE  Operation(FALSE)
<1>1. /\ liquidity \in Nat /\ aToken' \in [Accounts -> Nat] /\ variable \in VariableToken
      /\ reserve.currentStableBorrowRate \in Nat
  BY DEF ReserveInv, ReserveTypeOK, ReserveData
<1>2. liquidity' = liquidity + 0 - released /\ liquidity' \in Nat
  BY <1>1
<1>3. CASE BorrowVariable(u, amount, released)
  <2> DEFINE minted == RayDiv(amount, NextVariableBorrowIndex)
             debt   == WithScaled(SameDebt, ScaledVariableSupply + minted)
  <2>1. /\ MayMint(amount, NextVariableBorrowIndex)
        /\ variable' = VariableMinted(u, amount, NextVariableBorrowIndex)
        /\ reserve' = WithRates(Updated, debt, 0, released)
        /\ UNCHANGED stable
    BY <1>3 DEF BorrowVariable
  <2>2. /\ variable' \in VariableToken
        /\ ScaledVariableSupply' = ScaledVariableSupply + minted
        /\ ScaledVariableSupply + minted \in Nat
        /\ \A v \in Users : VariableMoves(v)
    BY <2>1, VariableMintedFacts
  <2> HIDE DEF minted
  <2>3. /\ debt \in CachedDebt /\ debt.supply = SameDebt.supply
        /\ debt.avgStableRate = SameDebt.avgStableRate
        /\ debt.scaled = ScaledVariableSupply + minted
    BY <2>2, CacheFacts, CacheWithScaled
  <2> HIDE DEF debt
  <2>4. DebtIsKnown(debt)
    BY <2>1, <2>2, <2>3, CacheFacts DEF DebtIsKnown
  <2>5. Refreshes(FALSE)
    BY <1>2, <2>1, <2>3, <2>4, RefreshesUpdated
  <2>6. QED
    BY <1>1, <1>2, <2>1, <2>2, <2>5, StableUntouched DEF Operation, RestOK
<1>4. CASE BorrowStable(u, amount, released)
  <2> DEFINE change == StableMint(stable, u, amount, reserve.currentStableBorrowRate, now)
             debt   == WithStable(SameDebt, change)
  <2>1. /\ stable' = change.token
        /\ reserve' = WithRates(Updated, debt, 0, released)
        /\ UNCHANGED variable
    BY <1>4 DEF BorrowStable
  <2>2. /\ stable' \in StableToken /\ StableClocks(stable', now)
        /\ \A v \in Users : StableMoves(v)
        /\ change.supply \in Nat /\ change.avgStableRate \in Nat
        /\ change.supply = StableTotalSupply(stable', now)
        /\ change.avgStableRate = stable'.avgStableRate
    BY <1>1, <2>1, StableMintedFacts
  <2> HIDE DEF change
  <2>3. /\ debt \in CachedDebt /\ debt.supply = change.supply
        /\ debt.avgStableRate = change.avgStableRate
        /\ debt.scaled = ScaledVariableSupply
    BY <2>2, CacheWithStable
  <2> HIDE DEF debt
  <2>4. DebtIsKnown(debt)
    BY <2>1, <2>2, <2>3, VariableUntouched DEF DebtIsKnown
  <2>5. Refreshes(FALSE)
    BY <1>2, <2>1, <2>3, <2>4, RefreshesUpdated
  <2>6. QED
    BY <1>1, <1>2, <2>1, <2>2, <2>5, VariableUntouched DEF Operation, RestOK
<1>5. QED
  BY <1>3, <1>4

LEMMA BorrowStep ==
  ASSUME ReserveInv, NEW u \in Users, NEW amount \in Nat, Borrow(u, amount)
  PROVE  Operation(FALSE)
<1>1. liquidity \in Nat
  BY DEF ReserveInv, ReserveTypeOK
<1>2. /\ amount <= liquidity /\ liquidity' = liquidity - amount
      /\ UNCHANGED aToken /\ now' = now /\ UNCHANGED loan
      /\ BorrowVariable(u, amount, amount) \/ BorrowStable(u, amount, amount)
  BY <1>1 DEF Borrow, Released
<1>3. QED
  BY <1>2, BorrowedStep, LoanUntouched

LEMMA BorrowFlashLoanStep ==
  ASSUME ReserveInv, NEW u \in Users, BorrowFlashLoan(u)
  PROVE  Operation(FALSE)
<1> DEFINE amount == loan.amount
<1>1. liquidity \in Nat /\ amount \in Nat
  BY DEF ReserveInv, ReserveTypeOK, Loan
<1>2. 0 <= liquidity /\ liquidity - 0 = liquidity
  BY <1>1
<1>3. /\ liquidity' = liquidity /\ UNCHANGED aToken /\ now' = now /\ loan' = NoLoan
      /\ BorrowVariable(u, amount, 0) \/ BorrowStable(u, amount, 0)
  BY DEF BorrowFlashLoan
<1> HIDE DEF amount
<1>4. loan' \in Loan /\ loan'.toProtocol <= loan'.premium
  BY <1>3 DEF NoLoan, Loan
<1>5. liquidity' = liquidity - 0
  BY <1>2, <1>3
<1>6. QED
  BY <1>1, <1>2, <1>3, <1>4, <1>5, BorrowedStep

\* The smaller of two numbers.
LEMMA MinOfTwo ==
  ASSUME NEW x \in Nat, NEW y \in Nat
  PROVE  /\ Min({x, y}) \in Nat
         /\ Min({x, y}) <= x /\ Min({x, y}) <= y
         /\ Min({x, y}) = x \/ Min({x, y}) = y
<1> DEFINE S == {x, y}
<1>1. \E m \in S : \A n \in S : m <= n
  <2>1. CASE x <= y
    BY <2>1
  <2>2. CASE y <= x
    BY <2>2
  <2>3. QED
    BY <2>1, <2>2
<1>2. Min(S) \in S /\ \A n \in S : Min(S) <= n
  BY <1>1 DEF Min
<1>3. QED
  BY <1>2

\* What a payback does to the liquidity and to the payer's aTokens.
LEMMA PaidWithFacts ==
  ASSUME ReserveInv, NEW payer \in Users, NEW payback \in Nat, NEW useATokens \in BOOLEAN,
         PaidWith(payer, payback, useATokens)
  PROVE  /\ aToken' \in [Accounts -> Nat]
         /\ liquidity' \in Nat
         /\ useATokens \/ liquidity' = liquidity + payback - 0
<1>1. liquidity \in Nat /\ aToken \in [Accounts -> Nat] /\ payer \in Accounts
        /\ aToken[payer] \in Nat
  BY DEF ReserveInv, ReserveTypeOK, Accounts
<1>2. CASE useATokens
  <2> DEFINE burnt == RayDiv(payback, NextLiquidityIndex)
  <2>1. /\ MayBurn(aToken[payer], payback, NextLiquidityIndex)
        /\ aToken' = [aToken EXCEPT ![payer] = @ - burnt]
        /\ UNCHANGED liquidity
    BY <1>2 DEF PaidWith
  <2>2. burnt \in Nat /\ burnt <= aToken[payer]
    BY <1>1, <2>1 DEF MayBurn
  <2> HIDE DEF burnt
  <2>3. aToken' \in [Accounts -> Nat]
    BY <1>1, <2>1, <2>2, ATokensBurnt
  <2>4. QED
    BY <1>1, <1>2, <2>1, <2>3
<1>3. CASE ~useATokens
  <2>1. liquidity' = liquidity + payback /\ UNCHANGED aToken
    BY <1>3 DEF PaidWith
  <2>2. QED
    BY <1>1, <2>1
<1>4. QED
  BY <1>2, <1>3

LEMMA RepayVariableStep ==
  ASSUME ReserveInv, NEW u \in Users, NEW payer \in Users, NEW amount \in Nat,
         NEW useATokens \in BOOLEAN, RepayVariable(u, payer, amount, useATokens)
  PROVE  Operation(useATokens)
<1> DEFINE owed    == RayMul(variable.scaled[u], NextVariableBorrowIndex)
           payback == Min({amount, owed})
           burnt   == RayDiv(payback, NextVariableBorrowIndex)
           debt    == WithScaled(SameDebt, ScaledVariableSupply - burnt)
<1>1. owed \in Nat /\ liquidity \in Nat
  BY IndexFacts, RayMulFacts DEF ReserveInv, ReserveTypeOK, VariableToken
<1> HIDE DEF owed
<1>2. payback \in Nat
  BY <1>1, MinOfTwo
<1>3. /\ variable.previousIndex[u] < NextVariableBorrowIndex
      /\ MayBurn(variable.scaled[u], payback, NextVariableBorrowIndex)
      /\ variable' = VariableBurnt(u, payback, NextVariableBorrowIndex)
      /\ reserve' = WithRates(Updated, debt, payback, 0)
      /\ PaidWith(payer, payback, useATokens)
      /\ UNCHANGED stable /\ now' = now /\ UNCHANGED loan
  BY DEF RepayVariable, owed
<1> HIDE DEF payback
<1>4. /\ variable' \in VariableToken
      /\ ScaledVariableSupply' = ScaledVariableSupply - burnt
      /\ ScaledVariableSupply - burnt \in Nat
      /\ \A v \in Users : VariableMoves(v)
  BY <1>2, <1>3, VariableBurntFacts
<1> HIDE DEF burnt
<1>5. /\ debt \in CachedDebt /\ debt.supply = SameDebt.supply
      /\ debt.avgStableRate = SameDebt.avgStableRate
      /\ debt.scaled = ScaledVariableSupply - burnt
  BY <1>4, CacheFacts, CacheWithScaled
<1> HIDE DEF debt
<1>6. DebtIsKnown(debt)
  BY <1>3, <1>4, <1>5, CacheFacts DEF DebtIsKnown
<1>7. /\ aToken' \in [Accounts -> Nat] /\ liquidity' \in Nat
      /\ useATokens \/ liquidity' = liquidity + payback - 0
  BY <1>2, <1>3, PaidWithFacts
<1>8. Refreshes(useATokens)
  <2>1. 0 <= liquidity
    BY <1>1
  <2>2. QED
    BY <2>1, <1>2, <1>3, <1>5, <1>6, <1>7, RefreshesUpdated
<1>9. QED
  BY <1>3, <1>4, <1>7, <1>8, StableUntouched, LoanUntouched DEF Operation, RestOK

LEMMA RepayStableStep ==
  ASSUME ReserveInv, NEW u \in Users, NEW payer \in Users, NEW amount \in Nat,
         NEW useATokens \in BOOLEAN, RepayStable(u, payer, amount, useATokens)
  PROVE  Operation(useATokens)
<1> DEFINE owed    == StableBalance(u)
           payback == Min({amount, owed})
           change  == StableBurn(stable, u, payback, now)
           debt    == WithStable(SameDebt, change)
<1>1. owed \in Nat /\ liquidity \in Nat
  BY CacheFacts, StableViews DEF ReserveInv, ReserveTypeOK, StableBalance
<1>2. amount > 0 /\ owed > 0
  BY DEF RepayStable
<1> HIDE DEF owed
<1>3. payback \in Nat \ {0} /\ payback <= owed
  BY <1>1, <1>2, MinOfTwo
<1>4. /\ stable.timestamp[u] < now
      /\ stable' = change.token
      /\ reserve' = WithRates(Updated, debt, payback, 0)
      /\ PaidWith(payer, payback, useATokens)
      /\ UNCHANGED variable /\ now' = now /\ UNCHANGED loan
  BY DEF RepayStable, owed
<1> HIDE DEF payback
<1>5. /\ stable' \in StableToken /\ StableClocks(stable', now)
      /\ \A v \in Users : StableMoves(v)
      /\ change.supply \in Nat /\ change.avgStableRate \in Nat
      /\ \/ change.supply = StableTotalSupply(stable', now)
         \/ stable'.totalSupply = 0 /\ stable'.totalSupplyTimestamp = now
      /\ change.avgStableRate = stable'.avgStableRate
  BY <1>3, <1>4, StableBurntFacts DEF owed
<1> HIDE DEF change
<1>6. /\ debt \in CachedDebt /\ debt.supply = change.supply
      /\ debt.avgStableRate = change.avgStableRate
      /\ debt.scaled = ScaledVariableSupply
  BY <1>5, CacheWithStable
<1> HIDE DEF debt
<1>7. DebtIsKnown(debt)
  BY <1>4, <1>5, <1>6, VariableUntouched DEF DebtIsKnown
<1>8. /\ aToken' \in [Accounts -> Nat] /\ liquidity' \in Nat
      /\ useATokens \/ liquidity' = liquidity + payback - 0
  BY <1>3, <1>4, PaidWithFacts
<1>9. Refreshes(useATokens)
  <2>1. 0 <= liquidity
    BY <1>1
  <2>2. QED
    BY <2>1, <1>3, <1>4, <1>6, <1>7, <1>8, RefreshesUpdated
<1>10. QED
  BY <1>4, <1>5, <1>8, <1>9, VariableUntouched, LoanUntouched DEF Operation, RestOK

LEMMA SwapToVariableStep ==
  ASSUME ReserveInv, NEW u \in Users, SwapToVariable(u)
  PROVE  Operation(FALSE)
<1> DEFINE owed   == StableBalance(u)
           change == StableBurn(stable, u, owed, now)
           minted == RayDiv(owed, NextVariableBorrowIndex)
           cached == WithStable(SameDebt, change)
           debt   == WithScaled(cached, ScaledVariableSupply + minted)
<1>1. owed \in Nat /\ liquidity \in Nat /\ aToken \in [Accounts -> Nat]
  BY CacheFacts, StableViews DEF ReserveInv, ReserveTypeOK, StableBalance
<1>2. /\ owed > 0
      /\ MayMint(owed, NextVariableBorrowIndex)
      /\ stable' = change.token
      /\ variable' = VariableMinted(u, owed, NextVariableBorrowIndex)
      /\ reserve' = WithRates(Updated, debt, 0, 0)
      /\ UNCHANGED aToken /\ UNCHANGED liquidity /\ now' = now /\ UNCHANGED loan
  BY DEF SwapToVariable
<1> HIDE DEF owed
<1>3. owed \in Nat \ {0} /\ owed <= owed /\ 0 <= liquidity /\ liquidity' = liquidity + 0 - 0
  BY <1>1, <1>2
<1>4. /\ variable' \in VariableToken
      /\ ScaledVariableSupply' = ScaledVariableSupply + minted
      /\ ScaledVariableSupply + minted \in Nat
      /\ \A v \in Users : VariableMoves(v)
      /\ variable'.scaled[u] # variable.scaled[u]
  BY <1>1, <1>2, VariableMintedFacts
<1> HIDE DEF minted
<1>5. /\ stable' \in StableToken /\ StableClocks(stable', now)
      /\ \A v \in Users : StableMoves(v)
      /\ change.supply \in Nat /\ change.avgStableRate \in Nat
      /\ \/ change.supply = StableTotalSupply(stable', now)
         \/ stable'.totalSupply = 0 /\ stable'.totalSupplyTimestamp = now
      /\ change.avgStableRate = stable'.avgStableRate
  <2>1. owed <= StableBalance(u) /\ owed = StableBalance(u)
    BY <1>3 DEF owed
  <2>2. QED
    BY <1>2, <1>3, <1>4, <2>1, StableBurntFacts
<1> HIDE DEF change
<1>6. /\ cached \in CachedDebt /\ cached.supply = change.supply
      /\ cached.avgStableRate = change.avgStableRate
  BY <1>5, CacheWithStable
<1> HIDE DEF cached
<1>7. /\ debt \in CachedDebt /\ debt.supply = change.supply
      /\ debt.avgStableRate = change.avgStableRate
      /\ debt.scaled = ScaledVariableSupply + minted
  BY <1>4, <1>6, CacheWithScaled
<1> HIDE DEF debt
<1>8. DebtIsKnown(debt)
  BY <1>4, <1>5, <1>7 DEF DebtIsKnown
<1>9. Refreshes(FALSE)
  BY <1>2, <1>3, <1>7, <1>8, RefreshesUpdated
<1>10. QED
  BY <1>1, <1>2, <1>4, <1>5, <1>9, LoanUntouched DEF Operation, RestOK

LEMMA SwapToStableStep ==
  ASSUME ReserveInv, NEW u \in Users, SwapToStable(u)
  PROVE  Operation(FALSE)
<1> DEFINE owed   == RayMul(variable.scaled[u], NextVariableBorrowIndex)
           change == StableMint(stable, u, owed, reserve.currentStableBorrowRate, now)
           burnt  == RayDiv(owed, NextVariableBorrowIndex)
           cached == WithStable(SameDebt, change)
           debt   == WithScaled(cached, ScaledVariableSupply - burnt)
<1>1. /\ owed \in Nat /\ liquidity \in Nat /\ aToken \in [Accounts -> Nat]
      /\ reserve.currentStableBorrowRate \in Nat
  BY IndexFacts, RayMulFacts DEF ReserveInv, ReserveTypeOK, VariableToken, ReserveData
<1>2. /\ owed > 0
      /\ MayBurn(variable.scaled[u], owed, NextVariableBorrowIndex)
      /\ stable' = change.token
      /\ variable' = VariableBurnt(u, owed, NextVariableBorrowIndex)
      /\ reserve' = WithRates(Updated, debt, 0, 0)
      /\ UNCHANGED aToken /\ UNCHANGED liquidity /\ now' = now /\ UNCHANGED loan
  BY DEF SwapToStable
<1> HIDE DEF owed
<1>3. 0 <= liquidity /\ liquidity' = liquidity + 0 - 0
  BY <1>1, <1>2
<1>4. /\ stable' \in StableToken /\ StableClocks(stable', now)
      /\ \A v \in Users : StableMoves(v)
      /\ change.supply \in Nat /\ change.avgStableRate \in Nat
      /\ change.supply = StableTotalSupply(stable', now)
      /\ change.avgStableRate = stable'.avgStableRate
      /\ stable'.balance[u] = StableBalance(u) + owed
  BY <1>1, <1>2, StableMintedFacts
<1> HIDE DEF change
<1>5. stable'.balance[u] # stable.balance[u]
  <2>1. /\ stable \in StableToken /\ now \in Nat /\ StableClocks(stable, now)
        /\ stable.balance[u] \in Nat
    BY CacheFacts DEF ReserveInv, ReserveTypeOK, StableToken
  <2>2. StableBalance(u) \in Nat /\ StableBalance(u) >= stable.balance[u]
    BY <2>1, StableViews DEF StableBalance
  <2>3. QED
    BY <1>1, <1>2, <1>4, <2>1, <2>2
<1>6. /\ variable' \in VariableToken
      /\ ScaledVariableSupply' = ScaledVariableSupply - burnt
      /\ ScaledVariableSupply - burnt \in Nat
      /\ \A v \in Users : VariableMoves(v)
  BY <1>1, <1>2, <1>5, VariableBurntFacts
<1> HIDE DEF burnt
<1>7. /\ cached \in CachedDebt /\ cached.supply = change.supply
      /\ cached.avgStableRate = change.avgStableRate
  BY <1>4, CacheWithStable
<1> HIDE DEF cached
<1>8. /\ debt \in CachedDebt /\ debt.supply = change.supply
      /\ debt.avgStableRate = change.avgStableRate
      /\ debt.scaled = ScaledVariableSupply - burnt
  BY <1>6, <1>7, CacheWithScaled
<1> HIDE DEF debt
<1>9. DebtIsKnown(debt)
  BY <1>4, <1>6, <1>8 DEF DebtIsKnown
<1>10. Refreshes(FALSE)
  BY <1>2, <1>3, <1>8, <1>9, RefreshesUpdated
<1>11. QED
  BY <1>1, <1>2, <1>4, <1>6, <1>10, LoanUntouched DEF Operation, RestOK

\* The old debt is burnt whole and minted again: u owes what he owed.
LEMMA RebalanceStep ==
  ASSUME ReserveInv, NEW u \in Users, RebalanceStableBorrowRate(u)
  PROVE  Operation(FALSE)
<1> DEFINE owed   == StableBalance(u)
           burnt  == StableBurn(stable, u, owed, now).token
           rate   == reserve.currentStableBorrowRate
           change == StableMint(burnt, u, owed, rate, now)
           debt   == WithStable(SameDebt, change)
<1>1. /\ liquidity \in Nat /\ aToken \in [Accounts -> Nat] /\ rate \in Nat
      /\ stable \in StableToken /\ now \in Nat \ {0} /\ StableClocks(stable, now)
  BY CacheFacts DEF ReserveInv, ReserveTypeOK, ReserveData
<1>2. owed \in Nat /\ owed = StableBalanceOf(stable, u, now) /\ owed - owed = 0
  BY <1>1, StableViews DEF StableBalance
<1>3. /\ stable' = change.token
      /\ reserve' = WithRates(Updated, debt, 0, 0)
      /\ UNCHANGED variable /\ UNCHANGED aToken /\ UNCHANGED liquidity /\ now' = now
      /\ UNCHANGED loan
  BY DEF RebalanceStableBorrowRate
<1> HIDE DEF owed, rate
<1>4. Restamped(stable, burnt, u, 0, now)
  <2>1. owed <= StableBalanceOf(stable, u, now)
    BY <1>2
  <2>2. Restamped(stable, burnt, u, StableBalanceOf(stable, u, now) - owed, now)
    BY <1>1, <1>2, <2>1, StableBurnFacts
  <2>3. StableBalanceOf(stable, u, now) - owed = 0
    BY <1>2
  <2>4. QED
    BY <2>2, <2>3
<1> HIDE DEF burnt
<1>5. burnt \in StableToken /\ StableClocks(burnt, now) /\ burnt.balance[u] = 0
  BY <1>1, <1>4 DEF Restamped, StableToken
<1>6. StableBalanceOf(burnt, u, now) = 0
  BY <1>1, <1>5, StableViews
<1>7. /\ Restamped(burnt, stable', u, owed, now)
      /\ stable'.timestamp[u] = now
      /\ change.supply \in Nat /\ change.avgStableRate \in Nat
      /\ change.supply = stable'.totalSupply
      /\ change.avgStableRate = stable'.avgStableRate
  <2>1. /\ Restamped(burnt, change.token, u, StableBalanceOf(burnt, u, now) + owed, now)
        /\ change.token.timestamp[u] = now
        /\ change.supply \in Nat /\ change.avgStableRate \in Nat
        /\ change.supply = change.token.totalSupply
        /\ change.avgStableRate = change.token.avgStableRate
    BY <1>1, <1>2, <1>5, StableMintFacts
  <2>2. StableBalanceOf(burnt, u, now) + owed = owed
    BY <1>2, <1>6
  <2> HIDE DEF change
  <2>3. QED
    BY <1>3, <2>1, <2>2
<1> HIDE DEF change
<1>8. Restamped(stable, stable', u, owed, now)
  <2>1. stable'.balance = [stable.balance EXCEPT ![u] = owed]
    BY <1>1, <1>4, <1>7 DEF Restamped, StableToken
  <2>2. \A v \in Users \ {u} : /\ stable'.rate[v] = stable.rate[v]
                               /\ stable'.timestamp[v] = stable.timestamp[v]
    BY <1>4, <1>7 DEF Restamped
  <2>3. QED
    BY <1>7, <2>1, <2>2 DEF Restamped
<1>9. /\ stable' \in StableToken /\ StableClocks(stable', now)
      /\ stable'.balance[u] = owed
      /\ StableTotalSupply(stable', now) = stable'.totalSupply
      /\ \A v \in Users \ {u} : StableMoves(v)
  BY <1>2, <1>8, RestampedFacts
<1>10. StableMoves(u)
  <2>1. stable'.balance[u] >= StableBalance(u)
    BY <1>2, <1>9 DEF owed
  <2>2. QED
    BY <1>7, <2>1 DEF StableMoves
<1>11. /\ debt \in CachedDebt /\ debt.supply = change.supply
       /\ debt.avgStableRate = change.avgStableRate
       /\ debt.scaled = ScaledVariableSupply
  BY <1>7, CacheWithStable
<1> HIDE DEF debt
<1>12. DebtIsKnown(debt)
  BY <1>3, <1>7, <1>9, <1>11, VariableUntouched DEF DebtIsKnown
<1>13. Refreshes(FALSE)
  <2>1. 0 <= liquidity /\ liquidity' = liquidity + 0 - 0
    BY <1>1, <1>3
  <2>2. QED
    BY <2>1, <1>3, <1>11, <1>12, RefreshesUpdated
<1>14. QED
  BY <1>1, <1>3, <1>9, <1>10, <1>13, VariableUntouched, LoanUntouched DEF Operation, RestOK

LEMMA FlashLoanStep ==
  ASSUME ReserveInv, NEW amount \in Nat, NEW isAuthorized \in BOOLEAN,
         FlashLoan(amount, isAuthorized)
  PROVE  Rest
<1> DEFINE premium    == PercentMul(amount, FLASHLOAN_PREMIUM_TOTAL)
           toProtocol == PercentMul(amount, FLASHLOAN_PREMIUM_TO_PROTOCOL)
<1>1. /\ liquidity \in Nat /\ aToken \in [Accounts -> Nat] /\ variable \in VariableToken
      /\ amount \in 1 .. liquidity
      /\ loan' = IF isAuthorized THEN [NoLoan EXCEPT !.amount = amount]
                 ELSE [amount |-> amount, premium |-> premium, toProtocol |-> toProtocol]
      /\ liquidity' = liquidity - amount
      /\ UNCHANGED <<variable, stable>> /\ UNCHANGED aToken /\ now' = now
      /\ reserve' = reserve
  BY DEF FlashLoan, ReserveInv, ReserveTypeOK
<1>2. premium \in Nat /\ toProtocol \in Nat /\ toProtocol <= premium
  <2>1. /\ FLASHLOAN_PREMIUM_TOTAL \in Nat /\ FLASHLOAN_PREMIUM_TO_PROTOCOL \in Nat
        /\ FLASHLOAN_PREMIUM_TO_PROTOCOL <= FLASHLOAN_PREMIUM_TOTAL
    BY ReserveAssumption
  <2>2. QED
    BY <2>1, PercentMulIsNat, PercentMulGrows
<1> HIDE DEF premium, toProtocol
<1>3. liquidity' \in Nat
  BY <1>1
<1>4. loan' \in Loan /\ loan'.toProtocol <= loan'.premium /\ loan' # NoLoan
  <2>1. loan'.amount = amount /\ loan' \in Loan /\ loan'.toProtocol <= loan'.premium
    BY <1>1, <1>2 DEF Loan, NoLoan
  <2>2. amount # 0
    BY <1>1
  <2>3. QED
    BY <2>1, <2>2 DEF NoLoan
<1>5. QED
  BY <1>1, <1>3, <1>4 DEF Rest, RestOK

\* An income raises the index at which deposits are counted.
LEMMA CumulateFacts ==
  ASSUME NEW r \in ReserveData, NEW supply \in Nat, NEW income \in Nat
  PROVE  LET s == CumulateToLiquidityIndex(r, supply, income)
         IN /\ s \in ReserveData
            /\ s.liquidityIndex >= r.liquidityIndex
            /\ s.lastUpdateTimestamp = r.lastUpdateTimestamp
            /\ s.variableBorrowIndex = r.variableBorrowIndex
            /\ s.unbacked = r.unbacked /\ s.accruedToTreasury = r.accruedToTreasury
<1> DEFINE share == RayDiv(WadToRay(income), WadToRay(supply))
           ratio == share + RAY
           index == RayMul(ratio, r.liquidityIndex)
<1>1. r.liquidityIndex \in Nat
  BY DEF ReserveData
<1>2. ratio \in Nat /\ ratio >= RAY
  <2>1. share \in Nat /\ RAY \in Nat
    BY WadToRayFacts, RayMulFacts
  <2> HIDE DEF share
  <2>2. QED
    BY <2>1
<1>3. CumulateToLiquidityIndex(r, supply, income) = [r EXCEPT !.liquidityIndex = index]
  BY DEF CumulateToLiquidityIndex
<1> HIDE DEF ratio
<1>4. index \in Nat /\ index >= r.liquidityIndex
  <2>1. RayMul(RAY, r.liquidityIndex) <= index /\ RayMul(RAY, r.liquidityIndex) = r.liquidityIndex
    BY <1>1, <1>2, RayMulFacts
  <2>2. QED
    BY <1>1, <1>2, <2>1, RayMulFacts
<1> HIDE DEF index
<1>5. QED
  BY <1>3, <1>4 DEF ReserveData

\* The reserve with an income of its suppliers and one of the treasury.
LEMMA IncomeFacts ==
  ASSUME ReserveInv, NEW income \in Nat, NEW toProtocol \in Nat
  PROVE  LET r == CumulateToLiquidityIndex(Updated, RayMul(ScaledSupply, NextLiquidityIndex),
                                           income)
             s == [r EXCEPT !.accruedToTreasury = @ + RayDiv(toProtocol, r.liquidityIndex)]
         IN /\ r \in ReserveData /\ s \in ReserveData
            /\ RayDiv(toProtocol, r.liquidityIndex) \in Nat
            /\ r.unbacked = reserve.unbacked
            /\ s.lastUpdateTimestamp = now
            /\ s.liquidityIndex >= NextLiquidityIndex
            /\ s.variableBorrowIndex = NextVariableBorrowIndex
<1> DEFINE supply == RayMul(ScaledSupply, NextLiquidityIndex)
           r == CumulateToLiquidityIndex(Updated, supply, income)
           part == RayDiv(toProtocol, r.liquidityIndex)
           s == [r EXCEPT !.accruedToTreasury = @ + part]
<1>1. supply \in Nat
  <2>1. ScaledSupply \in Nat /\ NextLiquidityIndex \in Nat
    BY ScaledSums, IndexFacts DEF ReserveInv
  <2>2. QED
    BY <2>1, RayMulFacts
<1> HIDE DEF supply
<1>2. /\ r \in ReserveData
      /\ r.liquidityIndex >= Updated.liquidityIndex
      /\ r.lastUpdateTimestamp = Updated.lastUpdateTimestamp
      /\ r.variableBorrowIndex = Updated.variableBorrowIndex
      /\ r.unbacked = Updated.unbacked
  BY <1>1, UpdatedFacts, CumulateFacts
<1> HIDE DEF r
<1>3. r.liquidityIndex \in Nat /\ r.accruedToTreasury \in Nat
  BY <1>2 DEF ReserveData
<1>4. part \in Nat
  BY <1>3, RayMulFacts
<1> HIDE DEF part
<1>5. r.accruedToTreasury + part \in Nat
  BY <1>3, <1>4
<1>6. s \in ReserveData /\ s.lastUpdateTimestamp = r.lastUpdateTimestamp
        /\ s.liquidityIndex = r.liquidityIndex /\ s.variableBorrowIndex = r.variableBorrowIndex
  BY <1>2, <1>5 DEF ReserveData
<1> HIDE DEF s
<1>7. /\ r \in ReserveData /\ s \in ReserveData /\ part \in Nat
      /\ r.unbacked = reserve.unbacked
      /\ s.lastUpdateTimestamp = now
      /\ s.liquidityIndex >= NextLiquidityIndex
      /\ s.variableBorrowIndex = NextVariableBorrowIndex
  BY <1>2, <1>4, <1>6, UpdatedFacts
<1>8. QED
  BY <1>7 DEF s, part, r, supply

LEMMA RepayFlashLoanStep ==
  ASSUME ReserveInv, RepayFlashLoan
  PROVE  Operation(FALSE)
<1> DEFINE income == loan.premium - loan.toProtocol
           paid   == loan.amount + loan.premium
           r == CumulateToLiquidityIndex(Updated, RayMul(ScaledSupply, NextLiquidityIndex), income)
           s == [r EXCEPT !.accruedToTreasury = @ + RayDiv(loan.toProtocol, r.liquidityIndex)]
<1>1. /\ loan.premium \in Nat /\ loan.toProtocol \in Nat /\ loan.amount \in Nat
      /\ loan.toProtocol <= loan.premium
      /\ liquidity \in Nat /\ aToken \in [Accounts -> Nat]
  BY DEF ReserveInv, ReserveTypeOK, Loan
<1>2. income \in Nat /\ paid \in Nat
  BY <1>1
<1>3. /\ reserve' = WithRates(s, SameDebt, paid, 0)
      /\ liquidity' = liquidity + paid
      /\ loan' = NoLoan
      /\ UNCHANGED <<variable, stable>> /\ UNCHANGED aToken /\ now' = now
  BY DEF RepayFlashLoan
<1> HIDE DEF income, paid
<1>4. /\ s \in ReserveData
      /\ s.lastUpdateTimestamp = now
      /\ s.liquidityIndex >= NextLiquidityIndex
      /\ s.variableBorrowIndex = NextVariableBorrowIndex
  BY <1>1, <1>2, IncomeFacts
<1> HIDE DEF s
<1>5. liquidity + paid - 0 \in Nat /\ liquidity' = liquidity + paid - 0 /\ liquidity' \in Nat
  BY <1>1, <1>2, <1>3
<1>6. DebtIsKnown(SameDebt)
  BY <1>3, DebtUntouched
<1>7. Refreshes(FALSE)
  BY <1>2, <1>3, <1>4, <1>5, <1>6, CacheFacts DEF Refreshes
<1>8. loan' \in Loan /\ loan'.toProtocol <= loan'.premium
  BY <1>3 DEF NoLoan, Loan
<1>9. QED
  BY <1>1, <1>3, <1>5, <1>7, <1>8, DebtUntouched DEF Operation, RestOK

LEMMA MintUnbackedStep ==
  ASSUME ReserveInv, NEW u \in Users, NEW amount \in Nat, MintUnbacked(u, amount)
  PROVE  Operation(FALSE)
<1> DEFINE s == [Updated EXCEPT !.unbacked = @ + amount]
<1>1. liquidity \in Nat /\ aToken \in [Accounts -> Nat] /\ u \in Accounts
  BY DEF ReserveInv, ReserveTypeOK, Accounts
<1>2. /\ reserve' = WithRates(s, SameDebt, 0, 0)
      /\ aToken' = [aToken EXCEPT ![u] = @ + RayDiv(amount, NextLiquidityIndex)]
      /\ UNCHANGED <<variable, stable>> /\ UNCHANGED liquidity /\ UNCHANGED loan /\ now' = now
  BY DEF MintUnbacked
<1>3. Updated.unbacked + amount \in Nat
  BY UpdatedFacts DEF ReserveData
<1>4. /\ s \in ReserveData
      /\ s.lastUpdateTimestamp = now
      /\ s.liquidityIndex = NextLiquidityIndex
      /\ s.variableBorrowIndex = NextVariableBorrowIndex
  BY <1>3, UpdatedFacts DEF ReserveData
<1> HIDE DEF s
<1>5. liquidity + 0 - 0 \in Nat /\ liquidity' = liquidity + 0 - 0 /\ liquidity' \in Nat
        /\ s.liquidityIndex >= NextLiquidityIndex
  BY <1>1, <1>2, <1>4, IndexFacts
<1>6. DebtIsKnown(SameDebt)
  BY <1>2, DebtUntouched
<1>7. Refreshes(FALSE)
  BY <1>2, <1>4, <1>5, <1>6, CacheFacts DEF Refreshes
<1>8. aToken' \in [Accounts -> Nat]
  <2>1. RayDiv(amount, NextLiquidityIndex) \in Nat
    BY IndexFacts, RayMulFacts
  <2>2. QED
    BY <1>1, <1>2, <2>1, ATokensMinted
<1>9. QED
  BY <1>2, <1>5, <1>7, <1>8, DebtUntouched, LoanUntouched DEF Operation, RestOK

LEMMA BackUnbackedStep ==
  ASSUME ReserveInv, NEW amount \in Nat, NEW fee \in Nat, BackUnbacked(amount, fee)
  PROVE  Operation(FALSE)
<1> DEFINE backing    == Min({amount, reserve.unbacked})
           toProtocol == PercentMul(fee, BRIDGE_PROTOCOL_FEE)
           income     == fee - toProtocol
           r == CumulateToLiquidityIndex(Updated, RayMul(ScaledSupply, NextLiquidityIndex), income)
           s == [r EXCEPT !.accruedToTreasury = @ + RayDiv(toProtocol, r.liquidityIndex)]
           t == [r EXCEPT !.accruedToTreasury = @ + RayDiv(toProtocol, r.liquidityIndex),
                          !.unbacked = @ - backing]
<1>1. liquidity \in Nat /\ aToken \in [Accounts -> Nat] /\ reserve.unbacked \in Nat
  BY DEF ReserveInv, ReserveTypeOK, ReserveData
<1>2. backing \in Nat /\ backing <= reserve.unbacked
  BY <1>1, MinOfTwo
<1>3. toProtocol \in Nat /\ toProtocol <= fee
  <2>1. BRIDGE_PROTOCOL_FEE \in Nat /\ PERCENTAGE_FACTOR \in Nat \ {0}
          /\ BRIDGE_PROTOCOL_FEE <= PERCENTAGE_FACTOR
    BY ReserveAssumption, PercentageAssumption
  <2>2. PercentMul(fee, PERCENTAGE_FACTOR) = fee
    BY <2>1, MulHalfUpOne DEF PercentMul
  <2>3. toProtocol <= PercentMul(fee, PERCENTAGE_FACTOR)
    BY <2>1, PercentMulGrows
  <2>4. QED
    BY <2>1, <2>2, <2>3, PercentMulIsNat
<1>4. /\ reserve' = WithRates(t, SameDebt, backing + fee, 0)
      /\ liquidity' = liquidity + backing + fee
      /\ UNCHANGED <<variable, stable>> /\ UNCHANGED aToken /\ now' = now /\ UNCHANGED loan
  BY DEF BackUnbacked
<1> HIDE DEF backing, toProtocol
<1>5. income \in Nat
  BY <1>3
<1> HIDE DEF income
<1>6. /\ r \in ReserveData /\ s \in ReserveData
      /\ RayDiv(toProtocol, r.liquidityIndex) \in Nat
      /\ r.unbacked = reserve.unbacked
      /\ s.lastUpdateTimestamp = now
      /\ s.liquidityIndex >= NextLiquidityIndex
      /\ s.variableBorrowIndex = NextVariableBorrowIndex
  BY <1>3, <1>5, IncomeFacts
<1> DEFINE part == RayDiv(toProtocol, r.liquidityIndex)
<1> HIDE DEF r
<1>7. part \in Nat /\ r.unbacked - backing \in Nat /\ r.accruedToTreasury + part \in Nat
  BY <1>1, <1>2, <1>6 DEF ReserveData
<1> HIDE DEF part
<1>8. t = [r EXCEPT !.accruedToTreasury = @ + part, !.unbacked = @ - backing]
        /\ s = [r EXCEPT !.accruedToTreasury = @ + part]
  BY DEF part
<1> HIDE DEF s, t
<1>9. /\ t \in ReserveData
      /\ t.lastUpdateTimestamp = now
      /\ t.liquidityIndex >= NextLiquidityIndex
      /\ t.variableBorrowIndex = NextVariableBorrowIndex
  BY <1>6, <1>7, <1>8 DEF ReserveData
<1>10. /\ backing + fee \in Nat /\ liquidity + (backing + fee) - 0 \in Nat
       /\ liquidity' = liquidity + (backing + fee) - 0 /\ liquidity' \in Nat
  BY <1>1, <1>2, <1>4
<1>11. DebtIsKnown(SameDebt)
  BY <1>4, DebtUntouched
<1>12. Refreshes(FALSE)
  BY <1>4, <1>9, <1>10, <1>11, CacheFacts DEF Refreshes
<1>13. QED
  BY <1>1, <1>4, <1>10, <1>12, DebtUntouched, LoanUntouched DEF Operation, RestOK

-----------------------------------------------------------------------------
(* The invariant holds.                                                     *)

LEMMA RestFacts ==
  ASSUME ReserveInv, Rest
  PROVE  /\ ReserveInv'
         /\ reserve'.lastUpdateTimestamp = reserve.lastUpdateTimestamp
         /\ reserve'.liquidityIndex = reserve.liquidityIndex
         /\ reserve'.variableBorrowIndex = reserve.variableBorrowIndex
         /\ reserve'.currentLiquidityRate = reserve.currentLiquidityRate
         /\ reserve'.currentVariableBorrowRate = reserve.currentVariableBorrowRate
         /\ reserve'.currentStableBorrowRate = reserve.currentStableBorrowRate
         /\ reserve'.unbacked = reserve.unbacked
<1>1. /\ reserve \in ReserveData /\ reserve' \in {reserve, [reserve EXCEPT !.accruedToTreasury = 0]}
      /\ stable' = stable /\ now' = now
  BY DEF ReserveInv, ReserveTypeOK, Rest, RestOK
<1>2. /\ reserve' \in ReserveData
      /\ reserve'.lastUpdateTimestamp = reserve.lastUpdateTimestamp
      /\ reserve'.liquidityIndex = reserve.liquidityIndex
      /\ reserve'.variableBorrowIndex = reserve.variableBorrowIndex
      /\ reserve'.currentLiquidityRate = reserve.currentLiquidityRate
      /\ reserve'.currentVariableBorrowRate = reserve.currentVariableBorrowRate
      /\ reserve'.currentStableBorrowRate = reserve.currentStableBorrowRate
      /\ reserve'.unbacked = reserve.unbacked
  BY <1>1 DEF ReserveData
<1>3. ReserveTypeOK'
  BY <1>1, <1>2 DEF ReserveInv, ReserveTypeOK, Rest, RestOK
<1>4. StableClocks(stable', reserve'.lastUpdateTimestamp) /\ loan'.toProtocol <= loan'.premium
  BY <1>1, <1>2 DEF ReserveInv, Rest, RestOK
<1>5. ReserveInv'
  BY <1>1, <1>2, <1>3, <1>4 DEF ReserveInv, StableClocks
<1>6. QED
  BY <1>2, <1>5

LEMMA TickStep ==
  ASSUME ReserveInv, NEW seconds \in Nat \ {0}, Tick(seconds)
  PROVE  ReserveInv' /\ reserve'.lastUpdateTimestamp < now'
<1>1. now' = now + seconds /\ UNCHANGED <<reserve, aToken, variable, stable, liquidity, loan>>
  BY DEF Tick
<1>2. now \in Nat \ {0} /\ reserve.lastUpdateTimestamp \in Nat /\ reserve.lastUpdateTimestamp <= now
  BY DEF ReserveInv, ReserveTypeOK, ReserveData
<1>3. now' \in Nat \ {0} /\ reserve.lastUpdateTimestamp < now'
  BY <1>1, <1>2
<1>4. ReserveTypeOK'
  BY <1>1, <1>3 DEF ReserveInv, ReserveTypeOK
<1>5. QED
  BY <1>1, <1>2, <1>3, <1>4 DEF ReserveInv, StableClocks

LEMMA InitInv ==
  ASSUME ReserveInit
  PROVE  ReserveInv
<1>1. RAY \in Nat
  BY RayMulFacts
<1>2. ReserveTypeOK
  BY <1>1 DEF ReserveInit, ReserveTypeOK, ReserveData, VariableToken, StableToken, NoStableDebt,
              NoLoan, Loan
<1>3. QED
  BY <1>1, <1>2 DEF ReserveInit, ReserveInv, StableClocks, NoStableDebt, NoLoan

\* Every call of the runs refreshes the reserve or lets it rest; rates are set for
\* liquidity that was not added only where aTokens repay.
LEMMA CallStep ==
  ASSUME ReserveInv, Call
  PROVE  \/ Operation(FALSE) /\ repaidInKindAt' = repaidInKindAt
         \/ Operation(TRUE) /\ repaidInKindAt' = now
         \/ Rest /\ repaidInKindAt' = repaidInKindAt
<1>1. /\ Suppliers \subseteq Users /\ Borrowers \subseteq Users
      /\ SupplyAmounts \subseteq Nat /\ BorrowAmounts \subseteq Nat
      /\ RepayAmounts \subseteq Nat /\ FlashAmounts \subseteq Nat
  BY BoundsAssumption
<1>2. ASSUME SupplierCall
      PROVE  Operation(FALSE) \/ Rest
  <2>1. PICK u \in Users :
          \/ \E amount \in Nat : Supply(u, amount)
          \/ \E amount \in Nat, all \in BOOLEAN : Withdraw(u, amount, all)
          \/ \E to \in Users, amount \in Nat : Transfer(u, to, amount)
    BY <1>1, <1>2 DEF SupplierCall
  <2>2. QED
    BY <2>1, SupplyStep, WithdrawStep, TransferStep
<1>3. ASSUME BorrowerCall
      PROVE  Operation(FALSE) \/ Rest
  <2>1. PICK u \in Users :
          \/ \E amount \in Nat : Borrow(u, amount)
          \/ SwapToVariable(u)
          \/ SwapToStable(u)
          \/ RebalanceStableBorrowRate(u)
    BY <1>1, <1>3 DEF BorrowerCall
  <2>2. QED
    BY <2>1, BorrowStep, SwapToVariableStep, SwapToStableStep, RebalanceStep
<1>4. ASSUME NEW useATokens \in BOOLEAN, RepayCall(useATokens)
      PROVE  Operation(useATokens)
  <2>1. PICK u \in Users, amount \in Nat :
          RepayVariable(u, u, amount, useATokens) \/ RepayStable(u, u, amount, useATokens)
    BY <1>1, <1>4 DEF RepayCall
  <2>2. QED
    BY <2>1, RepayVariableStep, RepayStableStep
<1>5. ASSUME FlashCall
      PROVE  Operation(FALSE) \/ Rest
  <2>1. \/ \E amount \in Nat, isAuthorized \in BOOLEAN : FlashLoan(amount, isAuthorized)
        \/ RepayFlashLoan
        \/ \E u \in Users : BorrowFlashLoan(u)
    BY <1>1, <1>5 DEF FlashCall
  <2>2. QED
    BY <2>1, FlashLoanStep, RepayFlashLoanStep, BorrowFlashLoanStep
<1>6. ASSUME MintToTreasury
      PROVE  Operation(FALSE) \/ Rest
  BY <1>6, MintToTreasuryStep
<1>7. \/ /\ SupplierCall \/ BorrowerCall \/ RepayCall(FALSE) \/ FlashCall \/ MintToTreasury
         /\ repaidInKindAt' = repaidInKindAt
      \/ RepayCall(TRUE) /\ repaidInKindAt' = now
  BY DEF Call
<1>8. SupplierCall \/ BorrowerCall \/ RepayCall(FALSE) \/ FlashCall \/ MintToTreasury
        => Operation(FALSE) \/ Rest
  BY <1>2, <1>3, <1>4, <1>5, <1>6
<1>9. RepayCall(TRUE) => Operation(TRUE)
  BY <1>4
<1>10. QED
  BY <1>7, <1>8, <1>9

LEMMA ReserveInvariance == MCSpec => []ReserveInv
<1>1. MCInit => ReserveInv
  BY InitInv DEF MCInit
<1>2. ReserveInv /\ [MCNext]_allVars => ReserveInv'
  <2> SUFFICES ASSUME ReserveInv, [MCNext]_allVars
               PROVE  ReserveInv'
    OBVIOUS
  <2>1. CASE Call
    BY <2>1, CallStep, OperationFacts, RestFacts
  <2>2. CASE Wait
    <3>1. PICK seconds \in Periods : Tick(seconds)
      BY <2>2 DEF Wait
    <3>2. seconds \in Nat \ {0}
      BY BoundsAssumption
    <3>3. QED
      BY <3>1, <3>2, TickStep
  <2>3. CASE UNCHANGED allVars
    BY <2>3 DEF allVars, reserveVars, ReserveInv, ReserveTypeOK, StableClocks
  <2>4. QED
    BY <2>1, <2>2, <2>3 DEF MCNext
<1>3. QED
  BY <1>1, <1>2, PTL DEF MCSpec

-----------------------------------------------------------------------------
(* Rates.                                                                   *)

HasRates(rates) ==
  /\ reserve.currentLiquidityRate = rates.liquidity
  /\ reserve.currentVariableBorrowRate = rates.variable
  /\ reserve.currentStableBorrowRate = rates.stable

RatesNow == RatesFor(reserve, SameDebt, liquidity)

LEMMA RatesByField == ReserveInv => (RatesOfNow <=> HasRates(RatesNow))
<1> SUFFICES ASSUME ReserveInv
             PROVE  RatesOfNow <=> HasRates(RatesNow)
  OBVIOUS
<1>1. liquidity + 0 - 0 = liquidity /\ reserve \in ReserveData
  BY DEF ReserveInv, ReserveTypeOK
<1>2. WithRates(reserve, SameDebt, 0, 0) =
        [reserve EXCEPT !.currentLiquidityRate      = RatesNow.liquidity,
                        !.currentVariableBorrowRate = RatesNow.variable,
                        !.currentStableBorrowRate   = RatesNow.stable]
  BY <1>1 DEF WithRates, RatesNow, RatesFor
<1>3. RatesOfNow <=> reserve = [reserve EXCEPT !.currentLiquidityRate      = RatesNow.liquidity,
                                               !.currentVariableBorrowRate = RatesNow.variable,
                                               !.currentStableBorrowRate   = RatesNow.stable]
  BY <1>2 DEF RatesOfNow
<1>4. QED
  BY <1>1, <1>3 DEF HasRates, ReserveData

LEMMA RatesByFieldNext == ReserveInv' => (RatesOfNow' <=> HasRates(RatesNow)')
  BY RatesByField, PTL

LEMMA OperationSetsRates ==
  ASSUME ReserveInv, Operation(FALSE)
  PROVE  RatesOfNow' \/ (stable'.totalSupply = 0 /\ stable'.totalSupplyTimestamp = now)
<1>1. PICK r \in ReserveData, debt \in CachedDebt, added \in Nat, taken \in Nat :
        /\ r.lastUpdateTimestamp = now
        /\ r.variableBorrowIndex = NextVariableBorrowIndex
        /\ DebtIsKnown(debt)
        /\ liquidity + added - taken \in Nat
        /\ liquidity' = liquidity + added - taken
        /\ reserve' = WithRates(r, debt, added, taken)
  BY DEF Operation, Refreshes
<1>2. /\ reserve'.variableBorrowIndex = r.variableBorrowIndex
      /\ reserve'.unbacked = r.unbacked
      /\ reserve'.currentLiquidityRate = RatesFor(r, debt, liquidity').liquidity
      /\ reserve'.currentVariableBorrowRate = RatesFor(r, debt, liquidity').variable
      /\ reserve'.currentStableBorrowRate = RatesFor(r, debt, liquidity').stable
  BY <1>1, WithRatesFacts
<1>3. now' = now
  BY DEF Operation, RestOK
<1>4. CASE debt.supply = StableTotalSupply(stable', now)
  <2>1. /\ SameDebt'.supply = debt.supply
        /\ SameDebt'.avgStableRate = debt.avgStableRate
        /\ SameDebt'.scaled = debt.scaled
    BY <1>1, <1>3, <1>4 DEF DebtIsKnown, SameDebt
  <2>2. RatesNow' = RatesFor(r, debt, liquidity')
    BY <1>2, <2>1 DEF RatesNow, RatesFor
  <2>3. HasRates(RatesNow)'
    BY <1>2, <2>2 DEF HasRates
  <2>4. QED
    BY <2>3, RatesByFieldNext, OperationFacts
<1>5. QED
  BY <1>1, <1>4 DEF DebtIsKnown

\* Between transactions, in every block without a repayment by aTokens and in which
\* stable debt does not leave the books, the rates of a reserve updated in the block
\* are those of the strategy for the liquidity and the debts that updateInterestRates
\* left behind, whatever calls were made in the block, from the receivers of flash
\* loans too (updateInterestRates and its callers).
THEOREM RatesStayFresh == MCSpec => []RatesAreFresh
<1>1. MCInit => RatesAreFresh
  BY DEF MCInit, ReserveInit, RatesAreFresh
<1>2. ReserveInv /\ RatesAreFresh /\ [MCNext]_allVars => RatesAreFresh'
  <2> SUFFICES ASSUME ReserveInv, RatesAreFresh, [MCNext]_allVars,
                      loan' = NoLoan,
                      reserve'.lastUpdateTimestamp = now',
                      repaidInKindAt' < now',
                      stable'.totalSupply = 0 => stable'.totalSupplyTimestamp < now'
               PROVE  RatesOfNow'
    BY DEF RatesAreFresh
  <2>1. CASE Operation(FALSE)
    <3>1. now' = now /\ now \in Nat /\ stable'.totalSupplyTimestamp \in Nat
      BY <2>1 DEF Operation, RestOK, ReserveInv, ReserveTypeOK, StableToken
    <3>2. ~(stable'.totalSupply = 0 /\ stable'.totalSupplyTimestamp = now)
      BY <3>1
    <3>3. QED
      BY <2>1, <3>2, OperationSetsRates
  <2>2. CASE Operation(TRUE) /\ repaidInKindAt' = now
    <3>1. now' = now /\ now \in Nat
      BY <2>2 DEF Operation, RestOK, ReserveInv, ReserveTypeOK
    <3>2. QED
      BY <2>2, <3>1
  <2>3. CASE Rest /\ repaidInKindAt' = repaidInKindAt
    <3>1. /\ now' = now /\ stable' = stable /\ variable' = variable
          /\ liquidity' = liquidity /\ loan' = loan
      BY <2>3 DEF Rest, RestOK
    <3>2. RatesOfNow
      BY <2>3, <3>1, RestFacts DEF RatesAreFresh
    <3>3. HasRates(RatesNow)
      BY <3>2, RatesByField
    <3>4. SameDebt' = SameDebt
      BY <3>1 DEF SameDebt, ScaledVariableSupply
    <3>5. RatesNow' = RatesNow
      BY <2>3, <3>1, <3>4, RestFacts DEF RatesNow, RatesFor
    <3>6. HasRates(RatesNow)'
      BY <2>3, <3>3, <3>5, RestFacts DEF HasRates
    <3>7. QED
      BY <2>3, <3>6, RestFacts, RatesByFieldNext
  <2>4. CASE Wait
    <3>1. PICK seconds \in Periods : Tick(seconds)
      BY <2>4 DEF Wait
    <3>2. reserve'.lastUpdateTimestamp < now' /\ now' \in Nat
      BY <3>1, TickStep, BoundsAssumption DEF ReserveInv, ReserveTypeOK
    <3>3. QED
      BY <3>2
  <2>5. CASE UNCHANGED allVars
    <3>1. reserve' = reserve /\ liquidity' = liquidity /\ stable' = stable /\ now' = now
            /\ variable' = variable /\ loan' = loan /\ repaidInKindAt' = repaidInKindAt
      BY <2>5 DEF allVars, reserveVars
    <3>2. RatesOfNow
      BY <3>1 DEF RatesAreFresh
    <3>3. QED
      BY <3>1, <3>2 DEF RatesOfNow, WithRates, SameDebt, ScaledVariableSupply
  <2>6. QED
    BY <2>1, <2>2, <2>3, <2>4, <2>5, CallStep DEF MCNext
<1>3. QED
  BY <1>1, <1>2, ReserveInvariance, PTL DEF MCSpec

-----------------------------------------------------------------------------
(* A debt is not repaid in the block it was opened in.                      *)

\* What the code keeps of the block a debt was opened in: the index or the time of
\* its last change.
OpenedInv ==
  \A u \in Users :
    /\ openedAt[u].variable <= now /\ openedAt[u].stable <= now
    /\ openedAt[u].variable = now =>
         /\ reserve.lastUpdateTimestamp = now
         /\ reserve.variableBorrowIndex <= variable.previousIndex[u]
    /\ openedAt[u].stable = now => stable.timestamp[u] = now \/ stable.balance[u] = 0

OpenedTypeOK == openedAt \in [Users -> [variable : Nat, stable : Nat]]

LEMMA OpenedNoted ==
  ASSUME OpenedTypeOK, NoteOpened, now \in Nat, now' = now, NEW u \in Users
  PROVE  /\ OpenedTypeOK'
         /\ openedAt'[u].variable = IF variable'.scaled[u] > variable.scaled[u] THEN now
                                    ELSE openedAt[u].variable
         /\ openedAt'[u].stable =
              IF StableBalanceOf(stable', u, now) > StableBalanceOf(stable, u, now) THEN now
              ELSE openedAt[u].stable
<1> DEFINE grows(v) == StableBalanceOf(stable', v, now) > StableBalanceOf(stable, v, now)
<1>1. openedAt' = [v \in Users |->
        [variable |-> IF variable'.scaled[v] > variable.scaled[v] THEN now ELSE openedAt[v].variable,
         stable   |-> IF grows(v) THEN now ELSE openedAt[v].stable]]
  BY DEF NoteOpened, StableBalance
<1> HIDE DEF grows
<1>2. OpenedTypeOK'
  BY <1>1 DEF OpenedTypeOK
<1>3. QED
  BY <1>1, <1>2 DEF grows

\* The stable balance of one whose debt did not move, was raised, or fell.
LEMMA StableMoved ==
  ASSUME ReserveInv, Operation(TRUE), NEW u \in Users
  PROVE  /\ StableBalanceOf(stable, u, now) \in Nat /\ StableBalanceOf(stable', u, now) \in Nat
         /\ \/ /\ StableBalanceOf(stable', u, now) = StableBalanceOf(stable, u, now)
               /\ stable'.timestamp[u] = stable.timestamp[u]
               /\ stable'.balance[u] = stable.balance[u]
            \/ /\ stable'.timestamp[u] = now
               /\ StableBalanceOf(stable', u, now) >= StableBalanceOf(stable, u, now)
            \/ /\ stable'.timestamp[u] = now \/ stable'.balance[u] = 0
               /\ stable.timestamp[u] < now \/ variable'.scaled[u] # variable.scaled[u]
<1>1. /\ stable \in StableToken /\ StableClocks(stable, now) /\ now \in Nat
      /\ stable' \in StableToken /\ StableClocks(stable', now)
  BY CacheFacts DEF ReserveInv, ReserveTypeOK, Operation
<1>2. /\ StableBalanceOf(stable, u, now) \in Nat /\ StableBalanceOf(stable', u, now) \in Nat
      /\ stable'.timestamp[u] = now => StableBalanceOf(stable', u, now) = stable'.balance[u]
  BY <1>1, StableViews
<1>3. StableMoves(u)
  BY DEF Operation
<1>4. CASE /\ stable'.balance[u] = stable.balance[u] /\ stable'.rate[u] = stable.rate[u]
           /\ stable'.timestamp[u] = stable.timestamp[u]
  BY <1>2, <1>4 DEF StableBalanceOf
<1>5. QED
  BY <1>2, <1>3, <1>4 DEF StableMoves, StableBalance

LEMMA OperationWeakens ==
  ASSUME Operation(FALSE)
  PROVE  Operation(TRUE)
  BY DEF Operation, Refreshes

LEMMA OpenedStep ==
  ASSUME ReserveInv, OpenedTypeOK, OpenedInv, Call
  PROVE  OpenedTypeOK' /\ OpenedInv'
<1>1. now \in Nat /\ NoteOpened /\ now' = now
  BY CallStep DEF Call, ReserveInv, ReserveTypeOK, Operation, Rest, RestOK
<1>2. OpenedTypeOK'
  <2>1. openedAt' = [v \in Users |-> [variable |-> openedAt'[v].variable,
                                      stable   |-> openedAt'[v].stable]]
          /\ \A v \in Users : openedAt[v].variable \in Nat /\ openedAt[v].stable \in Nat
    BY <1>1 DEF NoteOpened, OpenedTypeOK
  <2>2. \A v \in Users : openedAt'[v].variable \in Nat /\ openedAt'[v].stable \in Nat
    BY <1>1, <2>1, OpenedNoted
  <2>3. QED
    BY <2>1, <2>2 DEF OpenedTypeOK
<1>3. ASSUME NEW u \in Users
      PROVE  /\ openedAt'[u].variable <= now' /\ openedAt'[u].stable <= now'
             /\ openedAt'[u].variable = now' =>
                  /\ reserve'.lastUpdateTimestamp = now'
                  /\ reserve'.variableBorrowIndex <= variable'.previousIndex[u]
             /\ openedAt'[u].stable = now' => stable'.timestamp[u] = now' \/ stable'.balance[u] = 0
  <2>1. /\ openedAt'[u].variable = IF variable'.scaled[u] > variable.scaled[u] THEN now
                                   ELSE openedAt[u].variable
        /\ openedAt'[u].stable =
             IF StableBalanceOf(stable', u, now) > StableBalanceOf(stable, u, now) THEN now
             ELSE openedAt[u].stable
        /\ openedAt[u].variable \in Nat /\ openedAt[u].stable \in Nat
        /\ openedAt[u].variable <= now /\ openedAt[u].stable <= now
    BY <1>1, OpenedNoted DEF OpenedInv, OpenedTypeOK
  <2>2. CASE Operation(TRUE)
    <3>1. /\ reserve'.lastUpdateTimestamp = now
          /\ reserve'.variableBorrowIndex = NextVariableBorrowIndex
      BY <2>2, OperationFacts
    <3>2. openedAt'[u].variable = now => reserve'.variableBorrowIndex <= variable'.previousIndex[u]
      <4>1. CASE variable'.scaled[u] > variable.scaled[u]
        BY <2>2, <3>1, <4>1, IndexFacts DEF Operation, VariableMoves
      <4>2. CASE ~(variable'.scaled[u] > variable.scaled[u]) /\ openedAt[u].variable = now
        <5>1. /\ reserve.lastUpdateTimestamp = now
              /\ reserve.variableBorrowIndex <= variable.previousIndex[u]
          BY <4>2 DEF OpenedInv
        <5>2. NextVariableBorrowIndex = reserve.variableBorrowIndex
                /\ NextVariableBorrowIndex \in Nat
          BY <5>1, IndexFacts
        <5>3. variable'.previousIndex[u] \in {variable.previousIndex[u], NextVariableBorrowIndex}
          BY <2>2 DEF Operation, VariableMoves
        <5>4. QED
          BY <3>1, <5>1, <5>2, <5>3
      <4>3. QED
        BY <2>1, <4>1, <4>2
    <3>3. openedAt'[u].stable = now => stable'.timestamp[u] = now \/ stable'.balance[u] = 0
      <4>1. CASE StableBalanceOf(stable', u, now) > StableBalanceOf(stable, u, now)
        BY <2>2, <4>1, StableMoved
      <4>2. CASE openedAt[u].stable = now
        BY <2>2, <4>2, StableMoved DEF OpenedInv
      <4>3. QED
        BY <2>1, <4>1, <4>2
    <3>4. QED
      BY <1>1, <2>1, <3>1, <3>2, <3>3
  <2>3. CASE Rest
    <3>1. variable' = variable /\ stable' = stable
      BY <2>3 DEF Rest
    <3>2. /\ variable.scaled[u] \in Nat /\ StableBalanceOf(stable, u, now) \in Nat
      BY CacheFacts, StableViews DEF ReserveInv, ReserveTypeOK, VariableToken
    <3>3. openedAt'[u].variable = openedAt[u].variable /\ openedAt'[u].stable = openedAt[u].stable
      BY <2>1, <3>1, <3>2
    <3>4. /\ reserve'.lastUpdateTimestamp = reserve.lastUpdateTimestamp
          /\ reserve'.variableBorrowIndex = reserve.variableBorrowIndex
      BY <2>3, RestFacts
    <3>5. QED
      BY <1>1, <2>1, <3>1, <3>3, <3>4 DEF OpenedInv
  <2>4. QED
    BY <2>2, <2>3, CallStep, OperationWeakens
<1>4. QED
  BY <1>2, <1>3 DEF OpenedInv

LEMMA OpenedInvariance == MCSpec => [](OpenedTypeOK /\ OpenedInv)
<1>1. MCInit => OpenedTypeOK /\ OpenedInv
  BY DEF MCInit, ReserveInit, OpenedTypeOK, OpenedInv
<1>2. ReserveInv /\ OpenedTypeOK /\ OpenedInv /\ [MCNext]_allVars => (OpenedTypeOK /\ OpenedInv)'
  <2> SUFFICES ASSUME ReserveInv, OpenedTypeOK, OpenedInv, [MCNext]_allVars
               PROVE  (OpenedTypeOK /\ OpenedInv)'
    OBVIOUS
  <2>1. CASE Wait
    <3>1. PICK seconds \in Periods : Tick(seconds)
      BY <2>1 DEF Wait
    <3>2. now \in Nat /\ now' = now + seconds /\ seconds \in Nat \ {0} /\ openedAt' = openedAt
      BY <2>1, <3>1, BoundsAssumption DEF Tick, Wait, ReserveInv, ReserveTypeOK
    <3>3. \A u \in Users : /\ openedAt[u].variable \in Nat /\ openedAt[u].variable <= now
                           /\ openedAt[u].stable \in Nat /\ openedAt[u].stable <= now
      BY DEF OpenedTypeOK, OpenedInv
    <3>4. \A u \in Users : openedAt'[u].variable < now' /\ openedAt'[u].stable < now'
      BY <3>2, <3>3
    <3>5. OpenedTypeOK' /\ now' \in Nat
      BY <3>2 DEF OpenedTypeOK
    <3>6. QED
      BY <3>4, <3>5 DEF OpenedInv, OpenedTypeOK
  <2>2. CASE UNCHANGED allVars
    BY <2>2 DEF allVars, reserveVars, OpenedTypeOK, OpenedInv
  <2>3. QED
    BY <2>1, <2>2, OpenedStep DEF MCNext
<1>3. QED
  BY <1>1, <1>2, ReserveInvariance, PTL DEF MCSpec

\* A user repays variable debt only in a later block than the one he last borrowed
\* at a variable rate in, and stable debt only in a later one than he last borrowed
\* at a stable rate in, flash loans that became debts included (validateRepay).
THEOREM NoRepayInOpeningBlock == MCSpec => NoSameBlockRepay
<1> DEFINE VariableRepaidLater(u) ==
             /\ variable'.scaled[u] < variable.scaled[u]
             /\ stable'.balance[u] = stable.balance[u]
             => openedAt[u].variable < now
           StableRepaidLater(u) ==
             /\ StableBalance(u)' < StableBalance(u)
             /\ variable'.scaled[u] = variable.scaled[u]
             => openedAt[u].stable < now
<1>1. ReserveInv /\ OpenedTypeOK /\ OpenedInv /\ [MCNext]_allVars
        => [\A u \in Users :
              /\ variable'.scaled[u] < variable.scaled[u] /\ stable'.balance[u] = stable.balance[u]
                   => openedAt[u].variable < now
              /\ StableBalance(u)' < StableBalance(u) /\ variable'.scaled[u] = variable.scaled[u]
                   => openedAt[u].stable < now]_allVars
  <2> SUFFICES ASSUME ReserveInv, OpenedTypeOK, OpenedInv, MCNext, NEW u \in Users
               PROVE  VariableRepaidLater(u) /\ StableRepaidLater(u)
    OBVIOUS
  <2> HIDE DEF VariableRepaidLater, StableRepaidLater
  <2>1. /\ openedAt[u].variable \in Nat /\ openedAt[u].stable \in Nat /\ now \in Nat
        /\ openedAt[u].variable <= now /\ openedAt[u].stable <= now
        /\ variable.scaled[u] \in Nat /\ variable.previousIndex[u] \in Nat
        /\ stable.timestamp[u] \in Nat
        /\ StableBalanceOf(stable, u, now) \in Nat
        /\ stable.balance[u] = 0 => StableBalanceOf(stable, u, now) = 0
    BY CacheFacts, StableViews
    DEF OpenedTypeOK, OpenedInv, ReserveInv, ReserveTypeOK, VariableToken, StableToken
  <2>2. CASE Operation(TRUE)
    <3>1. now' = now /\ StableBalance(u) = StableBalanceOf(stable, u, now)
            /\ StableBalance(u)' = StableBalanceOf(stable', u, now)
      BY <2>2 DEF Operation, RestOK, StableBalance
    <3>2. VariableRepaidLater(u)
      <4>1. SUFFICES ASSUME variable'.scaled[u] < variable.scaled[u],
                            stable'.balance[u] = stable.balance[u],
                            openedAt[u].variable = now
                     PROVE  FALSE
        BY <2>1 DEF VariableRepaidLater
      <4>2. variable.previousIndex[u] < NextVariableBorrowIndex
        BY <2>2, <4>1 DEF Operation, VariableMoves
      <4>3. NextVariableBorrowIndex = reserve.variableBorrowIndex
              /\ NextVariableBorrowIndex \in Nat
              /\ reserve.variableBorrowIndex <= variable.previousIndex[u]
        BY <4>1, IndexFacts DEF OpenedInv
      <4>4. QED
        BY <2>1, <4>2, <4>3
    <3>3. StableRepaidLater(u)
      <4>1. SUFFICES ASSUME StableBalanceOf(stable', u, now) < StableBalanceOf(stable, u, now),
                            variable'.scaled[u] = variable.scaled[u],
                            openedAt[u].stable = now
                     PROVE  FALSE
        BY <2>1, <3>1 DEF StableRepaidLater
      <4>2. stable.timestamp[u] < now /\ StableBalanceOf(stable', u, now) \in Nat
        BY <2>1, <2>2, <4>1, StableMoved
      <4>3. stable.timestamp[u] = now \/ stable.balance[u] = 0
        BY <4>1 DEF OpenedInv
      <4>4. QED
        BY <2>1, <4>1, <4>2, <4>3
    <3>4. QED
      BY <3>2, <3>3
  <2>3. CASE Rest
    <3>1. variable' = variable /\ stable' = stable /\ now' = now
      BY <2>3 DEF Rest, RestOK
    <3>2. StableBalance(u)' = StableBalance(u) /\ StableBalance(u) \in Nat
      BY <2>1, <3>1 DEF StableBalance
    <3>3. QED
      BY <2>1, <3>1, <3>2 DEF VariableRepaidLater, StableRepaidLater
  <2>4. CASE Wait
    <3>1. PICK seconds \in Periods : Tick(seconds)
      BY <2>4 DEF Wait
    <3>2. variable' = variable /\ stable' = stable /\ now' \in Nat /\ now <= now'
      BY <2>1, <3>1, BoundsAssumption DEF Tick
    <3>3. /\ StableBalanceOf(stable, u, now) <= StableBalanceOf(stable, u, now')
          /\ StableBalanceOf(stable, u, now') \in Nat
      <4>1. stable \in StableToken /\ StableClocks(stable, now)
        BY CacheFacts DEF ReserveInv, ReserveTypeOK
      <4>2. StableClocks(stable, now')
        BY <2>1, <3>2, <4>1 DEF StableClocks, StableToken
      <4>3. QED
        BY <2>1, <3>2, <4>1, <4>2, StableViewsGrow, StableViews
    <3>4. StableBalance(u)' = StableBalanceOf(stable, u, now')
            /\ StableBalance(u) = StableBalanceOf(stable, u, now)
      BY <3>2 DEF StableBalance
    <3>5. QED
      BY <2>1, <3>2, <3>3, <3>4 DEF VariableRepaidLater, StableRepaidLater
  <2>5. QED
    BY <2>2, <2>3, <2>4, CallStep, OperationWeakens DEF MCNext
<1>2. QED
  BY <1>1, ReserveInvariance, OpenedInvariance, PTL DEF MCSpec, NoSameBlockRepay

-----------------------------------------------------------------------------
(* Any number of users, with any amounts, bridges included.                 *)

ReserveNext ==
  \/ \E u \in Users, amount \in Nat :
       \/ Supply(u, amount)
       \/ \E all \in BOOLEAN : Withdraw(u, amount, all)
       \/ \E to \in Users : Transfer(u, to, amount)
       \/ Borrow(u, amount)
       \/ \E payer \in Users, useATokens \in BOOLEAN :
            RepayVariable(u, payer, amount, useATokens) \/ RepayStable(u, payer, amount, useATokens)
       \/ MintUnbacked(u, amount)
  \/ \E u \in Users :
       SwapToVariable(u) \/ SwapToStable(u) \/ RebalanceStableBorrowRate(u) \/ BorrowFlashLoan(u)
  \/ \E amount \in Nat, fee \in Nat : BackUnbacked(amount, fee)
  \/ \E amount \in Nat, isAuthorized \in BOOLEAN : FlashLoan(amount, isAuthorized)
  \/ RepayFlashLoan
  \/ MintToTreasury
  \/ \E seconds \in Nat \ {0} : Tick(seconds)

ReserveSpec == ReserveInit /\ [][ReserveNext]_reserveVars

LEMMA NextStep ==
  ASSUME ReserveInv, ReserveNext
  PROVE  Operation(TRUE) \/ Rest \/ \E seconds \in Nat \ {0} : Tick(seconds)
<1>1. ASSUME NEW u \in Users, NEW amount \in Nat,
             \/ Supply(u, amount)
             \/ \E all \in BOOLEAN : Withdraw(u, amount, all)
             \/ \E to \in Users : Transfer(u, to, amount)
             \/ Borrow(u, amount)
             \/ \E payer \in Users, useATokens \in BOOLEAN :
                  \/ RepayVariable(u, payer, amount, useATokens)
                  \/ RepayStable(u, payer, amount, useATokens)
             \/ MintUnbacked(u, amount)
      PROVE  Operation(TRUE) \/ Rest
  <2>1. ASSUME NEW payer \in Users, NEW useATokens \in BOOLEAN,
               \/ RepayVariable(u, payer, amount, useATokens)
               \/ RepayStable(u, payer, amount, useATokens)
        PROVE  Operation(TRUE)
    <3>1. Operation(useATokens)
      BY <2>1, RepayVariableStep, RepayStableStep
    <3>2. QED
      BY <3>1, OperationWeakens
  <2>2. QED
    BY <1>1, <2>1, SupplyStep, WithdrawStep, TransferStep, BorrowStep, MintUnbackedStep,
       OperationWeakens
<1>2. ASSUME NEW u \in Users,
             SwapToVariable(u) \/ SwapToStable(u) \/ RebalanceStableBorrowRate(u)
               \/ BorrowFlashLoan(u)
      PROVE  Operation(TRUE)
  BY <1>2, SwapToVariableStep, SwapToStableStep, RebalanceStep, BorrowFlashLoanStep,
     OperationWeakens
<1>3. (\E amount \in Nat, fee \in Nat : BackUnbacked(amount, fee)) => Operation(TRUE)
  BY BackUnbackedStep, OperationWeakens
<1>4. (\E amount \in Nat, isAuthorized \in BOOLEAN : FlashLoan(amount, isAuthorized)) => Rest
  BY FlashLoanStep
<1>5. RepayFlashLoan => Operation(TRUE)
  BY RepayFlashLoanStep, OperationWeakens
<1>6. MintToTreasury => Rest
  BY MintToTreasuryStep
<1>7. QED
  BY <1>1, <1>2, <1>3, <1>4, <1>5, <1>6 DEF ReserveNext

LEMMA NextInv == ReserveInv /\ [ReserveNext]_reserveVars => ReserveInv'
<1> SUFFICES ASSUME ReserveInv, [ReserveNext]_reserveVars
             PROVE  ReserveInv'
  OBVIOUS
<1>1. CASE UNCHANGED reserveVars
  BY <1>1 DEF reserveVars, ReserveInv, ReserveTypeOK, StableClocks
<1>2. QED
  BY <1>1, NextStep, OperationFacts, RestFacts, TickStep

\* Interest never accrues negatively, for any history of the reserve: the subtraction
\* of _accrueToTreasury cannot underflow, on which every operation of the reserve
\* would revert, withdrawals and repayments included.
THEOREM AccrualNeverUnderflows == ReserveSpec => [](DebtAccrued >= 0)
<1>1. ReserveInit => ReserveInv
  BY InitInv
<1>2. ReserveInv => DebtAccrued >= 0
  BY DebtAccruedIsNat
<1>3. QED
  BY <1>1, <1>2, NextInv, PTL DEF ReserveSpec

\* Neither index of the reserve ever falls, for any history of it: interest, the
\* premiums of flash loans and the fees of bridges only add to them (updateState,
\* cumulateToLiquidityIndex).
THEOREM IndexesNeverFall ==
  ReserveSpec => [][/\ reserve'.liquidityIndex >= reserve.liquidityIndex
                    /\ reserve'.variableBorrowIndex >= reserve.variableBorrowIndex]_reserveVars
<1>1. ReserveInit => ReserveInv
  BY InitInv
<1>2. ReserveInv /\ [ReserveNext]_reserveVars =>
        [/\ reserve'.liquidityIndex >= reserve.liquidityIndex
         /\ reserve'.variableBorrowIndex >= reserve.variableBorrowIndex]_reserveVars
  <2> SUFFICES ASSUME ReserveInv, ReserveNext
               PROVE  /\ reserve'.liquidityIndex >= reserve.liquidityIndex
                      /\ reserve'.variableBorrowIndex >= reserve.variableBorrowIndex
    OBVIOUS
  <2>1. /\ reserve.liquidityIndex \in Nat /\ reserve.variableBorrowIndex \in Nat
        /\ NextLiquidityIndex \in Nat /\ NextVariableBorrowIndex \in Nat
        /\ NextLiquidityIndex >= reserve.liquidityIndex
        /\ NextVariableBorrowIndex >= reserve.variableBorrowIndex
    BY IndexFacts DEF ReserveInv, ReserveTypeOK, ReserveData
  <2>2. CASE Operation(TRUE)
    <3>1. /\ reserve'.liquidityIndex >= NextLiquidityIndex
          /\ reserve'.variableBorrowIndex = NextVariableBorrowIndex
          /\ reserve'.liquidityIndex \in Nat
      BY <2>2, OperationFacts DEF ReserveInv, ReserveTypeOK, ReserveData
    <3>2. QED
      BY <2>1, <3>1
  <2>3. CASE Rest
    BY <2>1, <2>3, RestFacts
  <2>4. CASE \E seconds \in Nat \ {0} : Tick(seconds)
    BY <2>1, <2>4 DEF Tick
  <2>5. QED
    BY <2>2, <2>3, <2>4, NextStep
<1>3. QED
  BY <1>1, <1>2, NextInv, PTL DEF ReserveSpec

-----------------------------------------------------------------------------
(* Balances.                                                                *)

\* Suppliers earn while there is variable debt.
SuppliersEarn == ScaledVariableSupply # 0 => reserve.currentLiquidityRate > 0

LEMMA OperationKeepsViews ==
  ASSUME ReserveInv, Operation(TRUE)
  PROVE  /\ NormalizedIncome' \in Nat /\ NormalizedIncome' >= NormalizedIncome
         /\ NormalizedDebt' \in Nat
         /\ SuppliersEarn /\ ScaledVariableSupply # 0 => NormalizedDebt' >= NormalizedDebt
<1>1. /\ ReserveInv'
      /\ reserve'.lastUpdateTimestamp = now
      /\ reserve'.liquidityIndex >= NextLiquidityIndex
      /\ reserve'.variableBorrowIndex = NextVariableBorrowIndex
  BY OperationFacts
<1>2. now' = now /\ now \in Nat
  BY DEF Operation, RestOK, ReserveInv, ReserveTypeOK
<1>3. /\ reserve'.liquidityIndex \in Nat /\ reserve'.variableBorrowIndex \in Nat
      /\ reserve'.currentLiquidityRate \in Nat /\ reserve'.currentVariableBorrowRate \in Nat
  BY <1>1 DEF ReserveInv, ReserveTypeOK, ReserveData
<1>4. Elapsed' = 0
  BY <1>1, <1>2 DEF Elapsed
<1>5. /\ CalculateLinearInterest(reserve'.currentLiquidityRate, 0) = RAY
      /\ CalculateCompoundedInterest(reserve'.currentVariableBorrowRate, 0) = RAY
  <2>1. 0 \in Nat /\ 0 <= 0
    OBVIOUS
  <2>2. QED
    BY <1>3, <2>1, LinearInterestGrows, CompoundedInterestFacts
<1>6. NormalizedIncome' = RayMul(RAY, reserve'.liquidityIndex)
        /\ NormalizedDebt' = RayMul(RAY, reserve'.variableBorrowIndex)
  BY <1>4, <1>5 DEF NormalizedIncome, NormalizedDebt
<1>7. NormalizedIncome' = reserve'.liquidityIndex /\ NormalizedDebt' = reserve'.variableBorrowIndex
  BY <1>3, <1>6, RayMulFacts
<1>8. QED
  BY <1>1, <1>3, <1>7, IndexFacts DEF SuppliersEarn

LEMMA TickKeepsViews ==
  ASSUME ReserveInv, NEW seconds \in Nat \ {0}, Tick(seconds)
  PROVE  /\ NormalizedIncome' \in Nat /\ NormalizedIncome' >= NormalizedIncome
         /\ NormalizedDebt' \in Nat /\ NormalizedDebt' >= NormalizedDebt
<1>1. reserve' = reserve /\ now' = now + seconds /\ now \in Nat
  BY DEF Tick, ReserveInv, ReserveTypeOK
<1>2. /\ reserve.liquidityIndex \in Nat /\ reserve.variableBorrowIndex \in Nat
      /\ reserve.currentLiquidityRate \in Nat /\ reserve.currentVariableBorrowRate \in Nat
      /\ reserve.lastUpdateTimestamp \in Nat
  BY DEF ReserveInv, ReserveTypeOK, ReserveData
<1>3. Elapsed \in Nat /\ Elapsed' \in Nat /\ Elapsed <= Elapsed'
  <2>1. Elapsed \in Nat /\ Elapsed = now - reserve.lastUpdateTimestamp
    BY IndexFacts DEF Elapsed
  <2>2. Elapsed' = now' - reserve.lastUpdateTimestamp
    BY <1>1 DEF Elapsed
  <2>3. QED
    BY <1>1, <1>2, <2>1, <2>2
<1> DEFINE earned(t) == CalculateLinearInterest(reserve.currentLiquidityRate, t)
           owed(t)   == CalculateCompoundedInterest(reserve.currentVariableBorrowRate, t)
<1>4. /\ earned(Elapsed) \in Nat /\ earned(Elapsed') \in Nat /\ earned(Elapsed) <= earned(Elapsed')
      /\ owed(Elapsed) \in Nat /\ owed(Elapsed') \in Nat /\ owed(Elapsed) <= owed(Elapsed')
  <2>1. Elapsed' <= Elapsed'
    BY <1>3
  <2>2. QED
    BY <1>2, <1>3, <2>1, LinearInterestGrows, CompoundedInterestFacts
<1>5. /\ NormalizedIncome  = RayMul(earned(Elapsed), reserve.liquidityIndex)
      /\ NormalizedIncome' = RayMul(earned(Elapsed'), reserve.liquidityIndex)
      /\ NormalizedDebt    = RayMul(owed(Elapsed), reserve.variableBorrowIndex)
      /\ NormalizedDebt'   = RayMul(owed(Elapsed'), reserve.variableBorrowIndex)
  BY <1>1 DEF NormalizedIncome, NormalizedDebt
<1> HIDE DEF earned, owed
<1>6. QED
  BY <1>2, <1>4, <1>5, RayMulFacts

LEMMA RestKeepsViews ==
  ASSUME ReserveInv, Rest
  PROVE  NormalizedIncome' = NormalizedIncome /\ NormalizedDebt' = NormalizedDebt
<1>1. now' = now
  BY DEF Rest, RestOK
<1>2. QED
  BY <1>1, RestFacts DEF NormalizedIncome, NormalizedDebt, Elapsed

\* One whose scaled debt is not 0 is one of those who make up the scaled supply.
LEMMA DebtorsAreCounted ==
  ASSUME ReserveInv, NEW u \in Users, ScaledVariableSupply = 0
  PROVE  variable.scaled[u] = 0
<1>1. DOMAIN variable.scaled = Users /\ \A v \in Users : variable.scaled[v] \in Nat
  BY DEF ReserveInv, ReserveTypeOK, VariableToken
<1>2. SumFunctionOnSet(variable.scaled, Users) = 0
  BY <1>1 DEF ScaledVariableSupply, SumFunction
<1>3. QED
  BY <1>1, <1>2, ReserveAssumption, SumOfZeros

LEMMA BalancesGrow ==
  ASSUME ReserveInv, SuppliersEarn,
         Operation(TRUE) \/ Rest \/ \E seconds \in Nat \ {0} : Tick(seconds)
  PROVE  /\ \A x \in Accounts : aToken'[x] = aToken[x] => ATokenBalance(x)' >= ATokenBalance(x)
         /\ \A u \in Users : variable'.scaled[u] = variable.scaled[u] =>
                               VariableBalance(u)' >= VariableBalance(u)
         /\ \A u \in Users : stable'.timestamp[u] = stable.timestamp[u] =>
                               StableBalance(u)' >= StableBalance(u)
<1>1. /\ NormalizedIncome \in Nat /\ NormalizedIncome' \in Nat
      /\ NormalizedIncome' >= NormalizedIncome
      /\ NormalizedDebt \in Nat /\ NormalizedDebt' \in Nat
      /\ ScaledVariableSupply # 0 => NormalizedDebt' >= NormalizedDebt
  <2>1. NormalizedIncome \in Nat /\ NormalizedDebt \in Nat
    BY IndexFacts
  <2>2. CASE Operation(TRUE)
    BY <2>1, <2>2, OperationKeepsViews
  <2>3. CASE Rest
    BY <2>1, <2>3, RestKeepsViews
  <2>4. CASE \E seconds \in Nat \ {0} : Tick(seconds)
    BY <2>1, <2>4, TickKeepsViews
  <2>5. QED
    BY <2>2, <2>3, <2>4
<1>2. ASSUME NEW x \in Accounts, aToken'[x] = aToken[x]
      PROVE  ATokenBalance(x)' >= ATokenBalance(x)
  <2>1. aToken[x] \in Nat
    BY DEF ReserveInv, ReserveTypeOK
  <2>2. RayMul(aToken[x], NormalizedIncome) <= RayMul(aToken[x], NormalizedIncome')
    BY <1>1, <2>1, RayMulFacts
  <2>3. /\ RayMul(aToken[x], NormalizedIncome) \in Nat
        /\ RayMul(aToken[x], NormalizedIncome') \in Nat
    BY <1>1, <2>1, RayMulFacts
  <2>4. ATokenBalance(x) = RayMul(aToken[x], NormalizedIncome)
          /\ ATokenBalance(x)' = RayMul(aToken[x], NormalizedIncome')
    BY <1>2 DEF ATokenBalance
  <2>5. QED
    BY <2>2, <2>3, <2>4
<1>3. ASSUME NEW u \in Users, variable'.scaled[u] = variable.scaled[u]
      PROVE  VariableBalance(u)' >= VariableBalance(u)
  <2> DEFINE scaled == variable.scaled[u]
  <2>1. scaled \in Nat /\ (ScaledVariableSupply = 0 => scaled = 0)
    BY DebtorsAreCounted DEF ReserveInv, ReserveTypeOK, VariableToken
  <2>2. VariableBalance(u) = RayMul(scaled, NormalizedDebt)
          /\ VariableBalance(u)' = RayMul(scaled, NormalizedDebt')
    BY <1>3 DEF VariableBalance
  <2> HIDE DEF scaled
  <2>3. RayMul(scaled, NormalizedDebt) \in Nat /\ RayMul(scaled, NormalizedDebt') \in Nat
    BY <1>1, <2>1, RayMulFacts
  <2>4. CASE ScaledVariableSupply # 0
    <3>1. RayMul(scaled, NormalizedDebt) <= RayMul(scaled, NormalizedDebt')
      BY <1>1, <2>1, <2>4, RayMulFacts
    <3>2. QED
      BY <2>2, <2>3, <3>1
  <2>5. CASE scaled = 0
    <3>1. RayMul(0, NormalizedDebt) = 0 /\ RayMul(0, NormalizedDebt') = 0
      BY <1>1, RayMulFacts
    <3>2. QED
      BY <2>2, <2>5, <3>1
  <2>6. QED
    BY <2>1, <2>4, <2>5
<1>4. ASSUME NEW u \in Users, stable'.timestamp[u] = stable.timestamp[u]
      PROVE  StableBalance(u)' >= StableBalance(u)
  <2>1. /\ stable \in StableToken /\ StableClocks(stable, now) /\ now \in Nat
    BY CacheFacts DEF ReserveInv, ReserveTypeOK
  <2>2. StableBalance(u) = StableBalanceOf(stable, u, now) /\ StableBalance(u) \in Nat
    BY <2>1, StableViews DEF StableBalance
  <2>3. CASE Operation(TRUE)
    <3>1. now' = now /\ StableBalance(u)' = StableBalanceOf(stable', u, now)
      BY <2>3 DEF Operation, RestOK, StableBalance
    <3>2. stable' \in StableToken /\ StableClocks(stable', now) /\ StableMoves(u)
      BY <2>3 DEF Operation
    <3>3. CASE /\ stable'.balance[u] = stable.balance[u] /\ stable'.rate[u] = stable.rate[u]
               /\ stable'.timestamp[u] = stable.timestamp[u]
      BY <2>2, <3>1, <3>3 DEF StableBalanceOf
    <3>4. CASE stable'.timestamp[u] = now /\ stable'.balance[u] >= StableBalance(u)
      <4>1. StableBalanceOf(stable', u, now) = stable'.balance[u]
        BY <2>1, <3>2, <3>4, StableViews
      <4>2. QED
        BY <3>1, <3>4, <4>1
    <3>5. QED
      BY <1>4, <3>2, <3>3, <3>4 DEF StableMoves
  <2>4. CASE Rest
    <3>1. stable' = stable /\ now' = now
      BY <2>4 DEF Rest, RestOK
    <3>2. QED
      BY <2>2, <3>1 DEF StableBalance
  <2>5. CASE \E seconds \in Nat \ {0} : Tick(seconds)
    <3>1. stable' = stable /\ now' \in Nat /\ now <= now'
      BY <2>1, <2>5 DEF Tick
    <3>2. StableBalanceOf(stable, u, now) <= StableBalanceOf(stable, u, now')
      BY <2>1, <3>1, StableViewsGrow
    <3>3. StableClocks(stable, now')
      BY <2>1, <3>1 DEF StableClocks, StableToken
    <3>4. StableBalanceOf(stable, u, now') \in Nat
      BY <2>1, <3>1, <3>3, StableViews
    <3>5. StableBalance(u)' = StableBalanceOf(stable, u, now')
      BY <3>1 DEF StableBalance
    <3>6. QED
      BY <2>2, <3>2, <3>4, <3>5
  <2>6. QED
    BY <2>3, <2>4, <2>5
<1>5. QED
  BY <1>2, <1>3, <1>4

\* As long as suppliers earn whenever there is variable debt, a balance that its
\* holder does not touch never loses value, neither a deposit nor a debt.  Where the
\* reserve factor or rounding leaves them nothing, the hypothesis fails and so does
\* the claim about variable debt: balanceOf compounds with the borrow rate, but
\* updateState then leaves the index as it was.
THEOREM UntouchedBalancesGrow == MCSpec /\ []SuppliersEarn => BalancesOnlyGrow
<1>1. ReserveInv /\ SuppliersEarn /\ [MCNext]_allVars =>
        [/\ \A x \in Accounts : aToken'[x] = aToken[x] => ATokenBalance(x)' >= ATokenBalance(x)
         /\ \A u \in Users : variable'.scaled[u] = variable.scaled[u] =>
                               VariableBalance(u)' >= VariableBalance(u)
         /\ \A u \in Users : stable'.timestamp[u] = stable.timestamp[u] =>
                               StableBalance(u)' >= StableBalance(u)]_allVars
  <2> SUFFICES ASSUME ReserveInv, SuppliersEarn, MCNext
               PROVE  Operation(TRUE) \/ Rest \/ \E seconds \in Nat \ {0} : Tick(seconds)
    BY BalancesGrow
  <2>1. CASE Wait
    BY <2>1, BoundsAssumption DEF Wait
  <2>2. QED
    BY <2>1, CallStep, OperationWeakens DEF MCNext
<1>2. QED
  BY <1>1, ReserveInvariance, PTL DEF MCSpec, BalancesOnlyGrow
=============================================================================
