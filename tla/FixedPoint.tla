----------------------------- MODULE FixedPoint -----------------------------
(***************************************************************************)
(* The fixed-point arithmetic of the protocol: WadRayMath.sol and          *)
(* PercentageMath.sol.  A value in a unit U (WAD, RAY or PERCENTAGE_FACTOR) *)
(* stands for value / U.  Both libraries round half up, and both are       *)
(* written in assembly, where a division by zero yields zero.  The reverts *)
(* on 256-bit overflow are left out: integers are unbounded here.          *)
(***************************************************************************)
EXTENDS Integers

\* a * b in the unit, rounded half up: wadMul, rayMul, percentMul.
MulHalfUp(a, b, unit) == (a * b + unit \div 2) \div unit

\* a / b in the unit, rounded half up, and 0 for b = 0 as the EVM's div gives:
\* wadDiv, rayDiv, percentDiv.
DivHalfUp(a, b, unit) == IF b = 0 THEN 0 ELSE (a * unit + b \div 2) \div b
=============================================================================
