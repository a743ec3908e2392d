------------------------------ MODULE MCLedger ------------------------------
(* Instances of Ledger for TLC. *)
EXTENDS Ledger, TLC

CONSTANTS sys, alice, bob, carol, ghost, r1

MCAccounts == {sys, alice, bob}
MCCurrency == [x \in MCAccounts |-> "USD"]
\* carol's row has a currency that migration 000004 has not reached yet.
MCMixedAccounts == {sys, alice, bob, carol}
MCMixedCurrency == [x \in MCMixedAccounts |-> IF x = carol THEN "NGN" ELSE "USD"]

\* Accounts alice and bob were opened and funded by one deposit each.
OpeningDeposit(x, m, k) ==
  {[tx |-> <<None, k>>, account |-> x, debit |-> 0, credit |-> m],
   [tx |-> <<None, k>>, account |-> sys, debit |-> m, credit |-> 0]}
MCOpening == OpeningDeposit(alice, 2, 1) \cup OpeningDeposit(bob, 1, 2)

Deposit(x, raw) == [kind |-> "deposit", account |-> x, to |-> x, amount |-> raw]
Withdraw(x, raw) == [kind |-> "withdraw", account |-> x, to |-> x, amount |-> raw]
Transfer(x, y, raw) == [kind |-> "transfer", account |-> x, to |-> y, amount |-> raw]

\* Contending operations on two accounts.
MCContention ==
  {Deposit(alice, 10), Withdraw(alice, 20), Withdraw(bob, 10),
   Transfer(alice, bob, 20), Transfer(bob, alice, 10)}

\* Operations of each kind that succeed or lack funds; amounts around zero,
\* rounding and the range of the column; unknown ids, another currency; the
\* settlement account used as a user's account.
MCEdges ==
  {Deposit(alice, raw) : raw \in {-10, 0, 4, 5, 10, 14, 15, 20, 30, 60}}
    \cup {Withdraw(alice, raw) : raw \in {4, 15, 20, 21, 24, 25}}
    \cup {Transfer(alice, bob, raw) : raw \in {0, 4, 15, 20, 25}}
    \cup {Deposit(sys, 10), Withdraw(sys, 10), Transfer(alice, sys, 20),
          Transfer(sys, alice, 10), Transfer(bob, alice, 20),
          Transfer(alice, alice, 10), Transfer(alice, ghost, 10), Transfer(ghost, alice, 10),
          Deposit(ghost, 10), Deposit(carol, 10), Withdraw(carol, 10), Transfer(alice, carol, 10)}

\* PostgreSQL aborts r1 without need, the others for a changed row only.
MCOneUnlucky == [r \in Requests |-> IF r = r1 THEN {"serialization"} ELSE {}]
MCAllFaults == [r \in Requests |-> FaultKinds]

Symmetry == Permutations(Requests)
=============================================================================
