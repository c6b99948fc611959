------------------------- MODULE MCLiquidationMath --------------------------
(***************************************************************************)
(* The terms of a liquidation for every input in a small box.  A behaviour *)
(* is a liquidator who offers to cover more and more of one debt.          *)
(***************************************************************************)
EXTENDS LiquidationMath

CONSTANTS MaxPrice, MaxAmount, Bonuses, Fees

\* configureReserveAsCollateral and setEModeCategory refuse a bonus up to 100%.
ASSUME BoxAssumption ==
  /\ MaxPrice \in Nat /\ MaxAmount \in Nat /\ Fees \subseteq Nat
  /\ Bonuses \subseteq Nat /\ \A bonus \in Bonuses : bonus > PERCENTAGE_FACTOR

VARIABLE input

Init == input \in [collateralPrice : 1 .. MaxPrice, debtPrice : 1 .. MaxPrice,
                   fee : Fees, debtToCover : {1}, balance : 0 .. MaxAmount,
                   bonus : Bonuses]

AskForMore ==
  /\ input.debtToCover < MaxAmount
  /\ input' = [input EXCEPT !.debtToCover = @ + 1]

MathSpec == Init /\ [][AskForMore]_input

terms == LiquidationTerms(input)

\* What leaves the position is worth the debt paid and the bonus on it, up to
\* the rounding of one unit of the collateral and two of the debt (one by the
\* price, one by the bonus): executeLiquidationCall never gives the liquidator a
\* better price than the bonus.
SeizedWithinBonus ==
  PERCENTAGE_FACTOR * input.collateralPrice * terms.seized <=
    input.bonus * (input.debtPrice * (terms.debt + 2) + input.collateralPrice)

\* Offering to cover more debt never seizes less collateral and never pays less
\* for it, up to two units of either asset when the collateral runs out: nothing
\* is won by asking for more than the position can pay.
AskingMorePaysMore ==
  [][/\ terms'.seized >= terms.seized
     /\ input.debtPrice * (terms'.debt + 2) + 2 * input.collateralPrice >=
          input.debtPrice * terms.debt]_input

\* The liquidator receives the collateral needed to cover the debt he pays, up
\* to the rounding of one unit of either asset.
LiquidatorNotShort ==
  input.collateralPrice * (terms.seized - terms.fee + 1) + input.debtPrice >=
    input.debtPrice * terms.debt
=============================================================================
