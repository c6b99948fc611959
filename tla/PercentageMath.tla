--------------------------- MODULE PercentageMath ---------------------------
(***************************************************************************)
(* PercentageMath.sol.  PERCENTAGE_FACTOR stands for 100% (1e4 basis       *)
(* points in the code).                                                    *)
(***************************************************************************)
EXTENDS FixedPoint

CONSTANT PERCENTAGE_FACTOR

ASSUME PercentageAssumption == PERCENTAGE_FACTOR \in Nat \ {0}

PercentMul(v, percentage) == MulHalfUp(v, percentage, PERCENTAGE_FACTOR)
PercentDiv(v, percentage) == DivHalfUp(v, percentage, PERCENTAGE_FACTOR)
=============================================================================
