------------------------------ MODULE MCMarket ------------------------------
(***************************************************************************)
(* Small markets for TLC.  A market starts as the administration leaves it *)
(* once it has listed the assets in the order given and configured them:   *)
(* states of Spec, reached here in one step.                               *)
(***************************************************************************)
EXTENDS Protocol, TLC

CONSTANTS a1, a2, u1, u2

ASSUME MarketAssumption == Assets = {a1, a2} /\ Users = {u1, u2}

Symmetry == Permutations(Users)

\* An active reserve nobody may borrow, with the parameters given as collateral.
Collateral(ltv, lt, bonus) ==
  [NoConfig EXCEPT !.active = TRUE, !.ltv = ltv, !.lt = lt, !.bonus = bonus]

Borrowable(c) == [c EXCEPT !.borrowing = TRUE]
StableToo(c)  == [c EXCEPT !.borrowing = TRUE, !.stableBorrowing = TRUE]

\* a1 at position 0 and a2 at position 1 of the list.
OpenMarket(conf1, conf2, cats, prices) ==
  /\ reserve = (a1 :> [NoReserve EXCEPT !.listed = TRUE])
               @@ (a2 :> [NoReserve EXCEPT !.listed = TRUE, !.id = 1])
  /\ config = (a1 :> conf1) @@ (a2 :> conf2)
  /\ reservesList = [i \in Ids |-> CASE i = 0 -> a1 [] i = 1 -> a2 [] OTHER -> None]
  /\ reservesCount = 2
  /\ categories = cats
  /\ account = [x \in Accounts |-> NoPosition]
  /\ liquidity = [a \in Assets |-> 0]
  /\ price = prices
  /\ sentinelUp = TRUE

NoCategories == [c \in Categories \cup {0} |-> NoCategory]
\* One base unit of any asset is worth one.
EvenPrices   == [x \in Assets \cup Feeds |-> TOKEN_UNIT]
=============================================================================
