----------------------------- MODULE StableDebt -----------------------------
(***************************************************************************)
(* The accounting of StableDebtToken.sol: every user has a principal, a    *)
(* rate and a time since which it compounds, and the total supply has the  *)
(* same three on its own.  Both sides accrue separately, so the total is   *)
(* an estimate of the sum of the debts.                                    *)
(*                                                                         *)
(* A token t is a record; Minted and Burnt give the token after the call   *)
(* with what the call returns to the Pool, which is not always what is     *)
(* stored.                                                                 *)
(***************************************************************************)
EXTENDS MathUtils

CONSTANTS Users

StableToken ==
  [balance : [Users -> Nat], rate : [Users -> Nat], timestamp : [Users -> Nat],
   totalSupply : Nat, avgStableRate : Nat, totalSupplyTimestamp : Nat]

NoStableDebt ==
  [balance |-> [u \in Users |-> 0], rate |-> [u \in Users |-> 0],
   timestamp |-> [u \in Users |-> 0],
   totalSupply |-> 0, avgStableRate |-> 0, totalSupplyTimestamp |-> 0]

StableBalanceOf(t, u, now) ==
  RayMul(t.balance[u], CalculateCompoundedInterest(t.rate[u], now - t.timestamp[u]))

StableTotalSupply(t, now) ==
  RayMul(t.totalSupply,
         CalculateCompoundedInterest(t.avgStableRate, now - t.totalSupplyTimestamp))

\* The average of two rates weighted by the amounts they are paid on.
WeightedRate(rate1, amount1, rate2, amount2) ==
  RayDiv(RayMul(rate1, WadToRay(amount1)) + RayMul(rate2, WadToRay(amount2)),
         WadToRay(amount1 + amount2))

\* A mistake: what was owed takes the rate of the new debt.
StableMintAtNewRate(t, u, amount, rate, now) ==
  LET owed   == StableBalanceOf(t, u, now)
      supply == StableTotalSupply(t, now)
      avg    == WeightedRate(t.avgStableRate, supply, rate, amount)
  IN [token |-> [t EXCEPT !.balance[u]   = owed + amount,
                          !.rate[u]      = rate,
                          !.timestamp[u] = now,
                          !.totalSupply          = supply + amount,
                          !.avgStableRate        = avg,
                          !.totalSupplyTimestamp = now],
      supply |-> supply + amount, avgStableRate |-> avg]

\* mint: the interest so far becomes principal and the amount is added to it.
StableMint(t, u, amount, rate, now) ==
  LET owed   == StableBalanceOf(t, u, now)
      supply == StableTotalSupply(t, now)
      avg    == WeightedRate(t.avgStableRate, supply, rate, amount)
  IN [token |-> [t EXCEPT !.balance[u]   = owed + amount,
                          !.rate[u]      = WeightedRate(@, owed, rate, amount),
                          !.timestamp[u] = now,
                          !.totalSupply          = supply + amount,
                          !.avgStableRate        = avg,
                          !.totalSupplyTimestamp = now],
      supply |-> supply + amount, avgStableRate |-> avg]

\* The supply and the average rate after a burn: both are reset when the amount
\* is all of the supply, or when its interest is all of the supply's interest.
SupplyAfterBurn(t, u, amount, now) ==
  LET supply     == StableTotalSupply(t, now)
      firstTerm  == RayMul(t.avgStableRate, WadToRay(supply))
      secondTerm == RayMul(t.rate[u], WadToRay(amount))
  IN IF supply <= amount
     THEN [stored |-> 0, returned |-> 0, avgStableRate |-> 0]
     ELSE IF secondTerm >= firstTerm
     THEN [stored |-> 0, returned |-> supply - amount, avgStableRate |-> 0]
     ELSE [stored |-> supply - amount, returned |-> supply - amount,
           avgStableRate |-> RayDiv(firstTerm - secondTerm, WadToRay(supply - amount))]

\* burn: callers pass no more than the user owes.
StableBurn(t, u, amount, now) ==
  LET owed  == StableBalanceOf(t, u, now)
      after == SupplyAfterBurn(t, u, amount, now)
      whole == amount = owed
  IN [token |-> [t EXCEPT !.balance[u]   = owed - amount,
                          !.rate[u]      = IF whole THEN 0 ELSE @,
                          !.timestamp[u] = IF whole THEN 0 ELSE now,
                          !.totalSupply          = after.stored,
                          !.avgStableRate        = after.avgStableRate,
                          !.totalSupplyTimestamp = now],
      supply |-> after.returned, avgStableRate |-> after.avgStableRate]
=============================================================================
