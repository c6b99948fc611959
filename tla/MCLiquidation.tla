---------------------------- MODULE MCLiquidation ---------------------------
(***************************************************************************)
(* Loans that go bad: the price of the collateral a1 falls, interest grows *)
(* the debts, the sentinel holds liquidations back, and users liquidate    *)
(* each other or themselves, taking aTokens or underlying, in a1 and a2.   *)
(***************************************************************************)
EXTENDS MCMarket

CONSTANTS
  Fee, Bonus, Threshold,
  Par   \* the price both assets start at; fine enough for health factors near 0.95

LiquidationInit ==
  OpenMarket([Collateral(Threshold, Threshold, Bonus) EXCEPT !.fee = Fee],
             StableToo(Collateral(Threshold, Threshold, Bonus)), NoCategories,
             [x \in Assets \cup Feeds |-> Par])

PriceMoves == \E v \in Prices : SetPrice(a1, v)

Deposits == \E u \in Users, a \in Assets, n \in Amounts : Supply(u, a, n)
Loans    == \E u \in Users, n \in Amounts, mode \in Modes : Borrow(u, a2, n, mode)
\* Users earn the interest; the treasury earns the fees of liquidations.
Growth   == \E u, x \in Users, mode \in Modes : Accrue(u, x, a2, mode)

\* Liquidations, with the guard that most positions fail asked once.
Defaults ==
  \E u \in Users :
    /\ ~Healthy(account[u])
    /\ \E l \in Users, c \in Assets, d \in Assets, n \in Amounts, receive \in BOOLEAN :
         LiquidationCall(l, u, c, d, n, receive)

LiquidationSpec ==
  LiquidationInit /\
    [][Deposits \/ Loans \/ PriceMoves \/ ToggleSentinel \/ Growth \/ Defaults]_vars
=============================================================================
