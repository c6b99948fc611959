----------------------------- MODULE MathUtils ------------------------------
(***************************************************************************)
(* MathUtils.sol: interest over a time, as a factor in ray.  The EVM's     *)
(* integer divisions truncate; the ray operations round half up.           *)
(***************************************************************************)
EXTENDS PercentageMath

CONSTANTS
  RAY,                \* 1 in ray (1e27)
  WAD_RAY_RATIO,      \* a ray has this many more units than a wad (1e9)
  SECONDS_PER_YEAR    \* the units of time in a year

ASSUME RayAssumption == {RAY, WAD_RAY_RATIO, SECONDS_PER_YEAR} \subseteq Nat \ {0}

RayMul(a, b) == MulHalfUp(a, b, RAY)
RayDiv(a, b) == DivHalfUp(a, b, RAY)
WadToRay(a)  == a * WAD_RAY_RATIO

CalculateLinearInterest(rate, elapsed) == RAY + (rate * elapsed) \div SECONDS_PER_YEAR

\* The first terms of the binomial expansion of (1 + rate per second) ** exp.
CalculateCompoundedInterest(rate, exp) ==
  LET expMinusTwo    == IF exp > 2 THEN exp - 2 ELSE 0
      basePowerTwo   == RayMul(rate, rate) \div (SECONDS_PER_YEAR * SECONDS_PER_YEAR)
      basePowerThree == RayMul(basePowerTwo, rate) \div SECONDS_PER_YEAR
  IN IF exp = 0 THEN RAY
     ELSE RAY + (rate * exp) \div SECONDS_PER_YEAR
              + (exp * (exp - 1) * basePowerTwo) \div 2
              + (exp * (exp - 1) * expMinusTwo * basePowerThree) \div 6
=============================================================================
