------------------------------ MODULE MCModes -------------------------------
(***************************************************************************)
(* Isolation mode and efficiency mode.  A behaviour plays one scenario: a  *)
(* market, and the calls that are made in it.                              *)
(*                                                                         *)
(*   isolation   a1 has a debt ceiling, a2 may be borrowed in isolation;   *)
(*               users act on their own account                            *)
(*   transfers   the same, and aTokens are sent to users who did not ask   *)
(*   emode       a1 and a2 are in categories of their own, the first with  *)
(*               a price feed; prices move                                 *)
(*   categories  the administration defines and redefines categories,      *)
(*               moves assets in and out and takes them off the collateral *)
(***************************************************************************)
EXTENDS MCMarket

CONSTANTS f, Scenarios, Ceiling

ASSUME ModesAssumption ==
  /\ Feeds = {f} /\ Categories = {1, 2}
  /\ Scenarios \subseteq {"isolation", "transfers", "emode", "categories"}

VARIABLE scenario

Efficient(ltv, lt, bonus, source) ==
  [ltv |-> ltv, lt |-> lt, bonus |-> bonus, source |-> source]

WithCategories(first, second) ==
  [c \in 0 .. 2 |-> CASE c = 0 -> NoCategory [] c = 1 -> first [] c = 2 -> second]

Plain == Borrowable(Collateral(50, 80, 125))

Market0 ==
  CASE scenario \in {"isolation", "transfers"} ->
         OpenMarket([Collateral(50, 80, 125) EXCEPT !.ceiling = Ceiling],
                    [Plain EXCEPT !.isolationBorrowable = TRUE], NoCategories, EvenPrices)
    [] scenario = "emode" ->
         OpenMarket([Plain EXCEPT !.category = 1], [Plain EXCEPT !.category = 2],
                    WithCategories(Efficient(50, 90, 110, f), Efficient(75, 90, 110, None)),
                    EvenPrices)
    [] scenario = "categories" -> OpenMarket(Plain, Plain, NoCategories, EvenPrices)

\* Bound on the aTokens of a reserve, tighter where more than balances may change.
Room == CASE scenario = "emode"      -> Least(MaxSupply, 3)
          [] scenario = "categories" -> Least(MaxSupply, 2)
          [] OTHER                   -> MaxSupply

Calls ==
  \E u \in Users, a \in Assets :
    \E n \in Amounts : \/ Supply(u, a, n) /\ ATokenSupply(a)' <= Room
                       \/ Withdraw(u, a, n)
                       \/ Borrow(u, a, n, "variable")
                       \/ Repay(u, a, n, "variable")

CollateralSwitch ==
  \E u \in Users, a \in Assets, use \in BOOLEAN : SetUserUseReserveAsCollateral(u, a, use)

Transfers == \E u \in Users, to \in Users, a \in Assets, n \in Amounts : Transfer(u, to, a, n)

PriceMoves == \E v \in Prices : SetPrice(f, v) \/ SetPrice(a2, v)

CategoryAdmin ==
  \/ SetEModeCategory(1, 50, 60, 160, None)
  \/ SetEModeCategory(1, 75, 90, 110, f)
  \/ \E a \in Assets : \/ \E c \in {0, 1} : SetAssetEModeCategory(a, c)
                       \/ ConfigureReserveAsCollateral(a, 0, 0, 0)
                       \/ ConfigureReserveAsCollateral(a, 50, 70, 140)

Step ==
  \/ Calls
  \/ scenario \in {"isolation", "transfers"} /\ CollateralSwitch
  \/ scenario = "transfers" /\ Transfers
  \/ scenario \in {"emode", "categories"} /\ EfficiencyMode
  \/ scenario = "emode" /\ PriceMoves
  \/ scenario = "categories" /\ CategoryAdmin

ModesSpec ==
  scenario \in Scenarios /\ Market0 /\ [][Step /\ UNCHANGED scenario]_<<vars, scenario>>
=============================================================================
