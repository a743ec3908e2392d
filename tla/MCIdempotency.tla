---------------------------- MODULE MCIdempotency ----------------------------
(* Instances of Idempotency for TLC. *)
EXTENDS Idempotency, TLC

CONSTANTS sys, alice, bob, ghost, carol, c1, c2, c3, k1

MCAccounts == {sys, alice, bob, carol}
MCCurrency == [x \in MCAccounts |-> "USD"]
MCOpening ==
  {[tx |-> <<"opening", 1>>, account |-> alice, debit |-> 0, credit |-> 2],
   [tx |-> <<"opening", 1>>, account |-> sys, debit |-> 2, credit |-> 0]}
MCTxIds == Requests \X {0}

Habit(header, reuse, patient, faults) ==
  [header |-> header, reuse |-> reuse, patient |-> patient, faults |-> faults]

\* All calls repeat one key, impatiently, and everything may go wrong; or a
\* patient client uses one key for two calls, which compete with a call that
\* has none for the same money.
MCHabits ==
  {Habit([c \in Requests |-> k1], FALSE, FALSE, FaultKinds)}
    \cup {Habit([c \in Requests |-> IF c = other THEN NoKey ELSE k1], TRUE, TRUE, {"contention"}) :
            other \in Requests}
\* One call repeated before it was answered; nothing else goes wrong.
MCImpatient == {Habit([c \in Requests |-> k1], FALSE, FALSE, {})}

Call(kind, x, y, raw) == [kind |-> kind, account |-> x, to |-> y, amount |-> raw]
MCInputs ==
  {Call("deposit", alice, alice, 10), Call("deposit", ghost, ghost, 10), Call("deposit", alice, alice, 0),
   Call("withdraw", alice, alice, 20), Call("transfer", alice, bob, 20), Call("deposit", carol, carol, 10),
   Call("withdraw", alice, alice, 10), Call("transfer", alice, alice, 10)}

Symmetry == Permutations(Requests)
=============================================================================
