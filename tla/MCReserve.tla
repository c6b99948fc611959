----------------------------- MODULE MCReserve ------------------------------
(***************************************************************************)
(* A reserve over some years: a bounded number of calls, each with one of  *)
(* a few amounts, and time passing between them.  The history variables    *)
(* are the number of calls, on which rounding errors depend, when each     *)
(* user last opened a debt in each mode, and when aTokens last repaid one. *)
(***************************************************************************)
EXTENDS Reserve

CONSTANTS
  Suppliers, Borrowers,   \* who supplies and who borrows
  SupplyAmounts, BorrowAmounts, RepayAmounts, FlashAmounts, Periods,
  MaxCalls, MaxTime

ASSUME BoundsAssumption ==
  /\ Suppliers \cup Borrowers \subseteq Users
  /\ SupplyAmounts \cup BorrowAmounts \cup RepayAmounts \cup FlashAmounts \subseteq Nat
  /\ Periods \subseteq Nat \ {0} /\ {MaxCalls, MaxTime} \subseteq Nat

VARIABLES calls, openedAt, repaidInKindAt

allVars == <<reserveVars, calls, openedAt, repaidInKindAt>>

MCInit ==
  /\ ReserveInit
  /\ calls = 0
  /\ openedAt = [u \in Users |-> [variable |-> 0, stable |-> 0]]
  /\ repaidInKindAt = 0

SupplierCall ==
  \E u \in Suppliers :
    \/ \E amount \in SupplyAmounts : Supply(u, amount)
    \/ \E amount \in SupplyAmounts, all \in BOOLEAN : Withdraw(u, amount, all)
    \/ \E to \in Users \ {u}, amount \in SupplyAmounts : Transfer(u, to, amount)

BorrowerCall ==
  \E u \in Borrowers :
    \/ \E amount \in BorrowAmounts : Borrow(u, amount)
    \/ SwapToVariable(u)
    \/ SwapToStable(u)
    \/ RebalanceStableBorrowRate(u)

RepayCall(useATokens) ==
  \E u \in Borrowers, amount \in RepayAmounts :
    RepayVariable(u, u, amount, useATokens) \/ RepayStable(u, u, amount, useATokens)

FlashCall ==
  \/ \E amount \in FlashAmounts, isAuthorized \in BOOLEAN : FlashLoan(amount, isAuthorized)
  \/ RepayFlashLoan
  \/ \E u \in Borrowers : BorrowFlashLoan(u)

NoteOpened ==
  openedAt' = [u \in Users |->
    [variable |-> IF variable'.scaled[u] > variable.scaled[u] THEN now ELSE openedAt[u].variable,
     stable   |-> IF StableBalance(u)' > StableBalance(u) THEN now ELSE openedAt[u].stable]]

Call ==
  /\ calls < MaxCalls
  /\ \/ /\ SupplierCall \/ BorrowerCall \/ RepayCall(FALSE) \/ FlashCall \/ MintToTreasury
        /\ UNCHANGED repaidInKindAt
     \/ RepayCall(TRUE) /\ repaidInKindAt' = now
  /\ calls' = calls + 1
  /\ NoteOpened

Wait ==
  /\ \E seconds \in Periods : now + seconds <= MaxTime /\ Tick(seconds)
  /\ UNCHANGED <<calls, openedAt, repaidInKindAt>>

MCNext == Call \/ Wait

MCSpec == MCInit /\ [][MCNext]_allVars

-----------------------------------------------------------------------------
\* What depositors and the treasury could claim is in the reserve, lent, or owed
\* to it, up to a unit of rounding per call: interest paid out at linear rates
\* never outruns the interest that accrues on the debts.  A premium is spread over
\* the aTokens, and what has accrued to the treasury gets it too; that is less than
\* the rounding at the premiums of the run (see MCExpected for larger fees).
ClaimsCovered == Claims <= Backing + calls

\* A balance that its holder does not touch never loses value by the calls of
\* others nor by time, whatever the reserve's indexes go through: neither what a
\* depositor has nor what a borrower owes.
BalancesOnlyGrow ==
  [][/\ \A x \in Accounts : aToken'[x] = aToken[x] => ATokenBalance(x)' >= ATokenBalance(x)
     /\ \A u \in Users : variable'.scaled[u] = variable.scaled[u] =>
                           VariableBalance(u)' >= VariableBalance(u)
     /\ \A u \in Users : stable'.timestamp[u] = stable.timestamp[u] =>
                           StableBalance(u)' >= StableBalance(u)]_allVars

\* validateRepay: a debt is not repaid in the block it was opened in, nor in the
\* block its rate mode was swapped in.
NoSameBlockRepay ==
  [][\A u \in Users :
       /\ variable'.scaled[u] < variable.scaled[u] /\ stable'.balance[u] = stable.balance[u]
            => openedAt[u].variable < now
       /\ StableBalance(u)' < StableBalance(u) /\ variable'.scaled[u] = variable.scaled[u]
            => openedAt[u].stable < now]_allVars

RatesOfNow == reserve = WithRates(reserve, SameDebt, 0, 0)

\* Between transactions, the rates of a reserve updated in this block are those
\* of the strategy for the liquidity and the debts it now has, whatever was done
\* in the block and in the calls of flash loan receivers.  Two kinds of block are
\* left out: one in which aTokens repaid a debt (see LiquidityAddedIsReal), and
\* the one in which stable debt leaves the books, where what burn returns for the
\* rates is not what it stores.
RatesAreFresh ==
  /\ loan = NoLoan
  /\ reserve.lastUpdateTimestamp = now
  /\ repaidInKindAt < now
  /\ stable.totalSupply = 0 => stable.totalSupplyTimestamp < now
  => RatesOfNow

\* "The amount of liquidity added to the protocol (supply or repay)" that the
\* rates are computed with was added: with variable debt only, the rates of a
\* reserve updated in this block are those for the liquidity it has.
LiquidityAddedIsReal ==
  /\ loan = NoLoan
  /\ reserve.lastUpdateTimestamp = now
  /\ stable.totalSupplyTimestamp = 0
  => RatesOfNow
=============================================================================
