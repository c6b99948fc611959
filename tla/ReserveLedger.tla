---------------------------- MODULE ReserveLedger ---------------------------
(***************************************************************************)
(* What the Pool promises about the money of its reserves, whatever its    *)
(* users, their flags, modes and prices: each reserve keeps a book of the  *)
(* cash it holds, the claims on it (aTokens), what is owed to it and what  *)
(* bridges have minted unbacked, and every change of the book is one of a  *)
(* few balanced entries.                                                   *)
(***************************************************************************)
EXTENDS Integers

CONSTANT Reserves

VARIABLE book

Book == [cash : Nat, claims : Nat, owed : Nat, unbacked : Nat]

EmptyBook == [cash |-> 0, claims |-> 0, owed |-> 0, unbacked |-> 0]

Init == book = [r \in Reserves |-> EmptyBook]

\* The book c is the book b with so much more of each column.
Changes(b, c, cash, claims, owed, unbacked) ==
  /\ c.cash = b.cash + cash         /\ c.claims = b.claims + claims
  /\ c.owed = b.owed + owed         /\ c.unbacked = b.unbacked + unbacked

\* Underlying paid in for a claim.
Deposit(b, c) == LET n == c.cash - b.cash IN n > 0 /\ Changes(b, c, n, n, 0, 0)

\* Underlying lent.
Lend(b, c) == LET n == c.owed - b.owed IN n > 0 /\ Changes(b, c, -n, 0, n, 0)

\* Claims paid out, debts paid in, or, in a liquidation within one reserve, both.
Settle(b, c) ==
  LET redeemed  == b.claims - c.claims
      collected == b.owed - c.owed
  IN /\ redeemed >= 0 /\ collected >= 0
     /\ Changes(b, c, collected - redeemed, -redeemed, -collected, 0)

\* A debt cancelled against a claim.
Offset(b, c) == LET n == b.owed - c.owed IN n > 0 /\ Changes(b, c, 0, -n, -n, 0)

\* Interest: a debt grows, and a claim with it.
Grow(b, c) == LET n == c.owed - b.owed IN n > 0 /\ Changes(b, c, 0, n, n, 0)

\* A claim that a bridge will back.
MintUnbacked(b, c) == LET n == c.unbacked - b.unbacked IN n > 0 /\ Changes(b, c, 0, n, 0, n)

\* A bridge backs its claims and pays a fee for it.
Back(b, c) ==
  LET backed == b.unbacked - c.unbacked
      fee    == c.claims - b.claims
  IN /\ backed >= 0 /\ fee >= 0
     /\ Changes(b, c, backed + fee, fee, 0, -backed)

Entry(b, c) ==
  Deposit(b, c) \/ Lend(b, c) \/ Settle(b, c) \/ Offset(b, c) \/ Grow(b, c)
    \/ MintUnbacked(b, c) \/ Back(b, c)

Next ==
  /\ book' \in [Reserves -> Book]
  /\ \A r \in Reserves : Entry(book[r], book'[r])

Spec == Init /\ [][Next]_book
=============================================================================
