--------------------------- MODULE LiquidationMath --------------------------
(***************************************************************************)
(* The arithmetic of a liquidation, from LiquidationLogic.sol.             *)
(***************************************************************************)
EXTENDS PercentageMath

Least(x, y) == IF x < y THEN x ELSE y

\* Variants of the definitions below, each with a mistake that the properties see.
\* The cap by the balance forgotten.
UncappedCollateral(q) ==
  LET base == (q.debtPrice * q.debtToCover) \div q.collateralPrice
      most == PercentMul(base, q.bonus)
  IN [seized |-> most, fee |-> IF q.fee = 0 THEN 0 ELSE PercentMul(most - base, q.fee),
      debt |-> q.debtToCover]

\* The two prices exchanged.
SwappedPrices(q) ==
  LET base == (q.collateralPrice * q.debtToCover) \div q.debtPrice
      most == PercentMul(base, q.bonus)
  IN [seized |-> Least(most, q.balance), fee |-> 0, debt |-> q.debtToCover]

\* The bonus paid on top of an amount that has it already.
BonusTwice(q) ==
  LET base == (q.debtPrice * q.debtToCover) \div q.collateralPrice
  IN [seized |-> Least(base + PercentMul(base, q.bonus), q.balance), fee |-> 0,
      debt |-> q.debtToCover]

\* The bonus taken off the debt a second time when the balance runs out.
BonusOffTwice(q) ==
  LET base == (q.debtPrice * q.debtToCover) \div q.collateralPrice
      most == PercentMul(base, q.bonus)
      paid == PercentDiv((q.collateralPrice * q.balance) \div q.debtPrice, q.bonus)
  IN [seized |-> Least(most, q.balance), fee |-> 0,
      debt |-> IF most > q.balance THEN PercentDiv(paid, q.bonus) ELSE q.debtToCover]

\* _calculateAvailableCollateralToLiquidate, where q holds the two prices (not
\* zero: the code reverts), the fee of the collateral reserve, the debt to cover,
\* the collateral balance and the bonus.  seized is all that leaves the position;
\* fee, the part of it that goes to the treasury; debt, what is paid for it.
AvailableCollateral(q) ==
  LET base    == (q.debtPrice * q.debtToCover) \div q.collateralPrice
      most    == PercentMul(base, q.bonus)
      capped  == most > q.balance
      seized  == IF capped THEN q.balance ELSE most
      feeBase == IF capped THEN PercentDiv(q.balance, q.bonus) ELSE most - base
  IN [seized |-> seized,
      fee    |-> IF q.fee = 0 THEN 0 ELSE PercentMul(feeBase, q.fee),
      debt   |-> IF capped
                 THEN PercentDiv((q.collateralPrice * q.balance) \div q.debtPrice, q.bonus)
                 ELSE q.debtToCover]

\* The liquidation covers no more debt than asked for.
LiquidationTerms(q) ==
  LET found == AvailableCollateral(q)
  IN [found EXCEPT !.debt = Least(@, q.debtToCover)]
=============================================================================
