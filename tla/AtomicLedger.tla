----------------------------- MODULE AtomicLedger -----------------------------
(***************************************************************************)
(* What the ledger service promises, without transactions, locks, retries  *)
(* or SQL statements: every request is answered at one instant.  At that   *)
(* instant it either posts a balanced pair of entries and moves the money, *)
(* or is refused for a reason that holds of the ledger right then, leaving *)
(* it untouched.  Ledger.tla is shown to implement this module.            *)
(***************************************************************************)
EXTENDS Money

CONSTANTS
  Requests,        \* identities of the requests being served
  Accounts,        \* account ids that have a row in table accounts
  Settlement,      \* the seeded system account
  Currency,        \* currency of each account
  Inputs,          \* the parameters a request may carry
  OpeningEntries,  \* rows of table entries posted before
  TxIds            \* transaction ids a request may draw: <<request, n>>

VARIABLES
  req,       \* parameters of each request
  balance,   \* accounts.balance, committed
  entries,   \* table entries, committed
  answer     \* what each request was answered, or "pending"

vars == <<req, balance, entries, answer>>

\* Where a request takes money from and where it puts it.
Source(q) == IF q.kind = "deposit" THEN Settlement ELSE q.account
Sink(q) == CASE q.kind = "deposit"  -> q.account
             [] q.kind = "withdraw" -> Settlement
             [] q.kind = "transfer" -> q.to

SelfTransfer(q) == q.kind = "transfer" /\ q.account = q.to
Known(q) == {Source(q), Sink(q)} \subseteq Accounts
Affordable(q) == q.kind # "deposit" => Covers(balance[Source(q)], q.amount)

Init ==
  /\ req \in [Requests -> Inputs]
  /\ entries = OpeningEntries
  /\ balance = [a \in Accounts |-> GetAccountBalance(OpeningEntries, a)]
  /\ answer = [r \in Requests |-> "pending"]

\* The request takes effect.  "unknown" is the answer of a request whose
\* commit went through although its acknowledgement was lost.
Post(r, ans) ==
  LET q == req[r]
      m == StringFixed4(q.amount)
  IN /\ answer[r] = "pending"
     /\ ans \in {"ok", "unknown"}
     /\ ~SelfTransfer(q) /\ Known(q) /\ m > 0
     /\ Currency[Source(q)] = Currency[Sink(q)]
     /\ Affordable(q)
     /\ balance' = IF Source(q) = Sink(q)
                     THEN balance
                     ELSE [balance EXCEPT ![Source(q)] = @ - m, ![Sink(q)] = @ + m]
     /\ \A a \in Accounts : InRange(balance'[a])
     /\ \E tx \in TxIds :
          /\ tx[1] = r
          /\ \A e \in entries : e.tx # tx
          /\ entries' = entries \cup
               {[tx |-> tx, account |-> Source(q), debit |-> m, credit |-> 0],
                [tx |-> tx, account |-> Sink(q), debit |-> 0, credit |-> m]}
     /\ answer' = [answer EXCEPT ![r] = ans]
     /\ UNCHANGED req

\* The reasons a request may be refused for.  A request that makes no sense is
\* refused for that reason; the last three do not depend on the ledger: the
\* victim of a deadlock, a transaction that kept conflicting, a connection or
\* client that went away.
Sensible(q) == Positive(q.amount) /\ ~SelfTransfer(q)

Justified(r, why) ==
  LET q == req[r]
      m == StringFixed4(q.amount)
  IN \/ why = "invalidAmount" /\ ~Positive(q.amount)
     \/ why = "sameAccount" /\ Positive(q.amount) /\ SelfTransfer(q)
     \/ why = "notFound" /\ Sensible(q) /\ ~Known(q)
     \/ /\ Sensible(q) /\ Known(q)
        /\ \/ why = "currencyMismatch" /\ Currency[Source(q)] # Currency[Sink(q)]
           \/ why = "insufficientFunds" /\ ~Affordable(q)
           \/ why = "checkViolation" /\ m = 0
           \/ /\ why = "outOfRange"
              /\ ~InRange(m) \/ ~InRange(balance[Source(q)] - m)
                             \/ ~InRange(balance[Sink(q)] + m)
     \/ why \in {"deadlock", "exhausted", "canceled"} /\ Sensible(q)

Refuse(r, why) ==
  /\ answer[r] = "pending"
  /\ Justified(r, why)
  /\ answer' = [answer EXCEPT ![r] = why]
  /\ UNCHANGED <<req, balance, entries>>

Refusals == {"invalidAmount", "sameAccount", "notFound", "currencyMismatch",
             "insufficientFunds", "checkViolation", "outOfRange",
             "deadlock", "exhausted", "canceled"}

Next == \E r \in Requests :
  \/ \E ans \in {"ok", "unknown"} : Post(r, ans)
  \/ \E why \in Refusals : Refuse(r, why)

Spec == Init /\ [][Next]_vars
=============================================================================
