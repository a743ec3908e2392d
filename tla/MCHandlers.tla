------------------------------ MODULE MCHandlers ------------------------------
(* Instances of Handlers for TLC. *)
EXTENDS Handlers, TLC

CONSTANTS c1, c2, c3, c4, c5, c6, c7, c8

Register(m, p) == [kind |-> "register", email |-> m, password |-> p, as |-> None]
Login(m, p) == [kind |-> "login", email |-> m, password |-> p, as |-> None]
Own(kind, token) == [kind |-> kind, as |-> token]
On(kind, a, token) == [kind |-> kind, account |-> a, as |-> token]
Entries(a, limit, token) == [kind |-> "entries", account |-> a, limit |-> limit, as |-> token]
Move(a, b, token) == [kind |-> "transfer", account |-> a, to |-> b, as |-> token]
Transaction(tx, token) == [kind |-> "transaction", tx |-> tx, as |-> token]

\* Two registrations of one email, logins, an account created and listed.
RegistrationScript ==
  c1 :> {Register("alice", "p")} @@ c2 :> {Register("alice", "p"), Register("alice", "q")}
  @@ c3 :> {Login("alice", "p")} @@ c4 :> {Own("create", c1), Own("create", c3)}
  @@ c5 :> {Own("list", c3), Own("list", None), On("get", c4, c3), On("deposit", c4, c3)}
RegistrationAfter == [c \in DOMAIN RegistrationScript |-> IF c = c4 THEN {c1} ELSE IF c = c5 THEN {c3} ELSE {}]

\* Alice and Bob have an account each and Alice some money; then three calls
\* at once, by either of them.  An account has up to three entries, and a page
\* at most MaxLimit rows.
MoneyScript ==
  c1 :> {Register("alice", "p")} @@ c2 :> {Register("bob", "q")}
  @@ c3 :> {Own("create", c1)} @@ c4 :> {Own("create", c2)} @@ c5 :> {On("deposit", c3, c1)}
  @@ c6 :> {Move(c3, c4, c1), Move(c3, c4, c2), On("withdraw", c3, c1)}
  @@ c7 :> {Transaction(c5, c2), Transaction(c6, c2), On("deposit", c3, c1)}
  @@ c8 :> {Entries(c3, 1, c1), Entries(c3, 3, c1), Entries(c4, 1, c2), On("reconcile", c3, c1), On("get", Settlement, c2)}
Earlier(c) == CASE c = c2 -> {c1} [] c = c3 -> {c2} [] c = c4 -> {c3} [] c = c5 -> {c4}
                [] c \in {c6, c7, c8} -> {c5} [] OTHER -> {}
MoneyAfter == [c \in DOMAIN MoneyScript |-> Earlier(c)]

MCScenarios ==
  {[script |-> RegistrationScript, after |-> RegistrationAfter,
    faults |-> {"malformed", "hashing", "signing", "write", "commitAck", "crash"}],
   [script |-> MoneyScript, after |-> MoneyAfter, faults |-> {"read", "write", "commitAck"}]}
=============================================================================
