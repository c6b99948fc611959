-------------------------- MODULE PoolConfigurator --------------------------
(***************************************************************************)
(* The administration of the Pool: PoolConfigurator.sol, and the listing   *)
(* and dropping of reserves in Pool.sol that only it may call.  Who holds  *)
(* which role is left out (ACLManager): every action is an authorised one. *)
(* A setter writes the configuration word of an asset whether or not the   *)
(* asset has a reserve, as Pool.setConfiguration does.                     *)
(***************************************************************************)
EXTENDS Pool

CONSTANTS
  Percentages,  \* the values tried for an LTV, a threshold, a bonus or a fee
  Limits        \* the values tried for a cap or a debt ceiling; 0 means none

ASSUME ConfigInputsAssumption ==
  /\ Percentages \subseteq Nat
  /\ Limits \subseteq Nat

unchangedPositions == UNCHANGED <<account, liquidity>>

\* getConfiguration, a setter on the copy, setConfiguration.
SetConfig(a, c) ==
  /\ config' = [config EXCEPT ![a] = c]
  /\ UNCHANGED <<reserve, reservesList, reservesCount, categories>>
  /\ unchangedPositions /\ unchangedMarket

\* A mistake: only whether there is an aToken is looked at.
HasToken(a) == reserve[a].listed

\* _checkNoDepositors; reverts for an asset without an aToken.
NoDepositors(a) == reserve[a].listed /\ NobodyHolds(a)

-----------------------------------------------------------------------------
(* The list of reserves.                                                    *)

\* _addReserveToList: every empty slot up to reservesCount is given to the
\* asset, whose id is the last of them.
EmptySlots == {i \in 0 .. reservesCount : reservesList[i] = None}

InitReserve(a) ==
  LET alreadyAdded == reserve[a].id # 0 \/ reservesList[0] = a
      data(id) == [reserve[a] EXCEPT !.listed = TRUE, !.id = id]
  IN /\ ~reserve[a].listed
     /\ reservesCount < MAX_RESERVES_COUNT
     /\ IF alreadyAdded
        THEN /\ reserve' = [reserve EXCEPT ![a] = data(reserve[a].id)]
             /\ UNCHANGED <<reservesList, reservesCount>>
        ELSE /\ reserve' = [reserve EXCEPT ![a] = data(Max(EmptySlots))]
             /\ reservesList' = [i \in Ids |-> IF i \in EmptySlots THEN a ELSE reservesList[i]]
             /\ reservesCount' = reservesCount + 1
     /\ config' = [config EXCEPT ![a].active = TRUE, ![a].paused = FALSE, ![a].frozen = FALSE]
     /\ UNCHANGED categories /\ unchangedPositions /\ unchangedMarket

\* A mistake: the id and the counters stay.
DropKeepingId(a) ==
  /\ ValidateDropReserve(a)
  /\ reservesList' = [reservesList EXCEPT ![Id(a)] = None]
  /\ reserve' = [reserve EXCEPT ![a].listed = FALSE]
  /\ config' = [config EXCEPT ![a] = NoConfig]
  /\ liquidity' = [liquidity EXCEPT ![a] = 0]
  /\ UNCHANGED <<reservesCount, categories, account>> /\ unchangedMarket

\* The underlying left in the aToken, if any, is beyond the protocol's reach.
DropReserve(a) ==
  /\ ValidateDropReserve(a)
  /\ reservesList' = [reservesList EXCEPT ![Id(a)] = None]
  /\ reserve' = [reserve EXCEPT ![a] = NoReserve]
  /\ config' = [config EXCEPT ![a] = NoConfig]
  /\ liquidity' = [liquidity EXCEPT ![a] = 0]
  /\ UNCHANGED <<reservesCount, categories, account>> /\ unchangedMarket

-----------------------------------------------------------------------------
(* The configuration of a reserve.                                          *)

\* Mistakes: an LTV above the threshold, or a bonus that the threshold does not
\* leave room for, is accepted.
ConfigureAnyLtv(a, ltv, lt, bonus) ==
  /\ lt # 0 /\ bonus > PERCENTAGE_FACTOR /\ PercentMul(lt, bonus) <= PERCENTAGE_FACTOR
  /\ SetConfig(a, [config[a] EXCEPT !.ltv = ltv, !.lt = lt, !.bonus = bonus])
ConfigureAnyBonus(a, ltv, lt, bonus) ==
  /\ ltv <= lt /\ lt # 0 /\ bonus > PERCENTAGE_FACTOR
  /\ SetConfig(a, [config[a] EXCEPT !.ltv = ltv, !.lt = lt, !.bonus = bonus])

ConfigureReserveAsCollateral(a, ltv, lt, bonus) ==
  /\ ltv <= lt
  /\ IF lt # 0 THEN /\ bonus > PERCENTAGE_FACTOR
                    /\ PercentMul(lt, bonus) <= PERCENTAGE_FACTOR
               ELSE bonus = 0 /\ NoDepositors(a)
  /\ SetConfig(a, [config[a] EXCEPT !.ltv = ltv, !.lt = lt, !.bonus = bonus])

EnableBorrowingOnReserve(a, cap, stable) ==
  SetConfig(a, [config[a] EXCEPT !.borrowing = TRUE, !.borrowCap = cap,
                                 !.stableBorrowing = stable])
DisableBorrowingOnReserve(a) == SetConfig(a, [config[a] EXCEPT !.borrowing = FALSE])
SetReserveStableRate(a, on) == SetConfig(a, [config[a] EXCEPT !.stableBorrowing = on])

ActivateReserve(a)   == SetConfig(a, [config[a] EXCEPT !.active = TRUE])
DeactivateReserve(a) == NoDepositors(a) /\ SetConfig(a, [config[a] EXCEPT !.active = FALSE])

SetReserveFreeze(a, frozen) == SetConfig(a, [config[a] EXCEPT !.frozen = frozen])
SetReservePause(a, paused)  == SetConfig(a, [config[a] EXCEPT !.paused = paused])

SetBorrowableInIsolation(a, borrowable) ==
  SetConfig(a, [config[a] EXCEPT !.isolationBorrowable = borrowable])

\* Only a reserve nobody supplies may enter isolation mode.
SetDebtCeiling(a, ceiling) ==
  /\ config[a].ceiling = 0 => NoDepositors(a)
  /\ SetConfig(a, [config[a] EXCEPT !.ceiling = ceiling])

SetBorrowCap(a, cap)       == SetConfig(a, [config[a] EXCEPT !.borrowCap = cap])
SetSupplyCap(a, cap)       == SetConfig(a, [config[a] EXCEPT !.supplyCap = cap])
SetUnbackedMintCap(a, cap) == SetConfig(a, [config[a] EXCEPT !.unbackedCap = cap])

SetLiquidationProtocolFee(a, fee) ==
  /\ fee <= PERCENTAGE_FACTOR
  /\ SetConfig(a, [config[a] EXCEPT !.fee = fee])

SetPoolPause(paused) ==
  LET inList == {reservesList[i] : i \in ListedSlots}
  IN /\ config' = [a \in Assets |->
                     IF a \in inList THEN [config[a] EXCEPT !.paused = paused] ELSE config[a]]
     /\ UNCHANGED <<reserve, reservesList, reservesCount, categories>>
     /\ unchangedPositions /\ unchangedMarket

-----------------------------------------------------------------------------
(* Efficiency mode.                                                         *)

SetEModeCategory(c, ltv, lt, bonus, source) ==
  /\ ltv <= lt
  /\ bonus > PERCENTAGE_FACTOR
  /\ PercentMul(lt, bonus) <= PERCENTAGE_FACTOR
  /\ categories' = [categories EXCEPT ![c] =
                      [ltv |-> ltv, lt |-> lt, bonus |-> bonus, source |-> source]]
  /\ UNCHANGED <<reserve, config, reservesList, reservesCount>>
  /\ unchangedPositions /\ unchangedMarket

SetAssetEModeCategory(a, c) ==
  /\ c > 0 => categories[c].lt > config[a].lt
  /\ SetConfig(a, [config[a] EXCEPT !.category = c])
=============================================================================
