----------------------------- MODULE BigNumbers -----------------------------
(***************************************************************************)
(* wadraymath.ts: the fixed-point operations that the test suite adds to   *)
(* BigNumber.  Unlike the words of the contracts, a BigNumber is signed;   *)
(* its division truncates towards zero.                                    *)
(***************************************************************************)
EXTENDS InterestRateStrategy, FiniteSetsExt

AbsOf(n) == IF n < 0 THEN -n ELSE n

Truncated(n, d) ==
  (IF (n >= 0) = (d > 0) THEN 1 ELSE -1) * (AbsOf(n) \div AbsOf(d))

BnRayMul(a, b)         == Truncated(RAY \div 2 + a * b, RAY)
BnRayDiv(a, b)         == Truncated(Truncated(b, 2) + a * RAY, b)
BnPercentMul(a, bps)   == Truncated(PERCENTAGE_FACTOR \div 2 + a * bps, PERCENTAGE_FACTOR)
BnWadToRay(a)          == a * WAD_RAY_RATIO

\* BigNumber has no valueOf, so JavaScript's a > b compares the decimal strings:
\* digit by digit from the first, whatever the magnitudes.
PowersOfTen == {10 ^ k : k \in 0 .. 8}
Magnitude(n) == CHOOSE p \in PowersOfTen : n < 10 * p /\ (p <= n \/ p = 1)
StringGreater(a, b) ==
  LET left  == a * Magnitude(b)
      right == b * Magnitude(a)
  IN a # b /\ (left > right \/ (left = right /\ a > b))
=============================================================================
