----------------------------- MODULE MCLending ------------------------------
(***************************************************************************)
(* Two users lend to each other.  Both assets are collateral at an LTV of  *)
(* one half and a threshold of four fifths, the most its bonus of one      *)
(* quarter allows; a2 can be borrowed, in both modes.                      *)
(***************************************************************************)
EXTENDS MCMarket

LendingInit ==
  OpenMarket(Collateral(50, 80, 125), StableToo(Collateral(50, 80, 125)), NoCategories, EvenPrices)

PriceMoves == \E v \in Prices : SetPrice(a1, v)

\* A repayment with aTokens is of one's own debt: whoever pays another's debt with
\* the aTokens that back his own loans is not asked for his health afterwards.
OwnDebtSide ==
  \E u \in Users, a \in Assets, mode \in Modes :
    \/ \E n \in Amounts : Borrow(u, a, n, mode)
    \/ \E n \in Amounts : Repay(u, a, n, mode) \/ RepayWithATokens(u, u, a, n, mode)
    \/ SwapBorrowRateMode(u, a, mode)

LendingSpec == LendingInit /\ [][SupplySide \/ OwnDebtSide \/ PriceMoves]_vars
=============================================================================
