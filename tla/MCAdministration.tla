-------------------------- MODULE MCAdministration --------------------------
(***************************************************************************)
(* The administration changes the market while users are in it.  A         *)
(* behaviour plays one scenario:                                           *)
(*                                                                         *)
(*   listing   from an empty Pool, reserves are listed, configured, used,  *)
(*             dropped and listed again, until the list is full            *)
(*   switches  the switches of a2, and pauses, between any two calls       *)
(*   risk      the risk parameters move while users borrow                 *)
(*   limits    one reserve, a2: its caps, its ceiling and its fee move     *)
(*             while users and bridges come near them                      *)
(*   upgrades  the contracts themselves are made, upgraded and replaced;   *)
(*             what users have in them does not matter to this, and stays  *)
(***************************************************************************)
EXTENDS MCMarket, Governance

CONSTANTS Scenarios, Pool1, Pool2, Configurator1, Configurator2, AToken1, AToken2

ASSUME ScenariosAssumption ==
  Scenarios \subseteq {"listing", "switches", "risk", "limits", "upgrades"}

\* Each contract has an implementation of revision 1, and one of revision 2.
Revisions == [impl \in Implementations |-> IF impl \in {Pool1, Configurator1, AToken1} THEN 1 ELSE 2]

VARIABLE scenario

Plain == Collateral(50, 80, 125)

Market0 ==
  CASE scenario \in {"listing", "upgrades"} -> Init
    [] scenario = "switches" -> OpenMarket(Plain, StableToo(Plain), NoCategories, EvenPrices)
    [] scenario = "risk"     -> OpenMarket(Borrowable(Plain), Borrowable(Plain), NoCategories,
                                           EvenPrices)
    [] scenario = "limits"   -> OpenMarket(NoConfig, StableToo(Plain), NoCategories, EvenPrices)

VariableCalls ==
  \E u \in Users, a \in Assets, n \in Amounts :
    \/ Supply(u, a, n)
    \/ Withdraw(u, a, n)
    \/ Borrow(u, a, n, "variable")
    \/ Repay(u, a, n, "variable")

BridgedCalls ==
  \E u \in Users, n \in Amounts :
    \/ Supply(u, a2, n)
    \/ Withdraw(u, a2, n)
    \/ \E mode \in Modes : Borrow(u, a2, n, mode) \/ Repay(u, a2, n, mode)
    \/ MintUnbacked(u, a2, n)
    \/ \E fee \in Amounts \cup {0}, x \in Accounts : BackUnbacked(a2, n, fee, x)

Configure ==
  \E a \in Assets : \/ ConfigureReserveAsCollateral(a, 50, 80, 125)
                    \/ EnableBorrowingOnReserve(a, 0, FALSE)
                    \/ \E n \in Limits : SetDebtCeiling(a, n)

\* The switches of a2, the asset that is lent and stays open to loans; a1, its
\* collateral, stays active and is not frozen on the way, but may be paused.
SwitchesOfTheLoan ==
  /\ Switches
  /\ config'[a1] \in {[Plain EXCEPT !.paused = on] : on \in BOOLEAN}
  /\ config'[a2].borrowing

Step ==
  \/ scenario = "listing"  /\ (VariableCalls \/ Listing \/ Configure)
  \/ scenario = "switches" /\ (SupplySide \/ DebtSide \/ SwitchesOfTheLoan)
  \/ scenario = "risk"     /\ (VariableCalls \/ \E a \in Assets : CollateralParameters(a))
  \/ scenario = "limits"   /\ (BridgedCalls \/ LimitParameters(a2) \/ SetLiquidationProtocolFee(a2, 50))

Upgrade == scenario = "upgrades" /\ GovernanceNext

AdministrationInit == scenario \in Scenarios /\ Market0 /\ GovernanceInit

AdministrationSpec ==
  /\ AdministrationInit
  /\ [][/\ UNCHANGED scenario
        /\ (Step /\ UNCHANGED governanceVars) \/ (Upgrade /\ UNCHANGED vars)
       ]_<<vars, governanceVars, scenario>>

\* getReservesList does not give a reserve that has been dropped.
ListHasNoDropped == \A i \in ListedSlots : reserve[reservesList[i]].listed
=============================================================================
