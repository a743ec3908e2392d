-------------------------------- MODULE Ledger --------------------------------
(***************************************************************************)
(* The ledger service (internal/service/ledger.go) over the store's retry  *)
(* loop (internal/db/store.go) and PostgreSQL at SERIALIZABLE.             *)
(*                                                                         *)
(* Each request is a goroutine that runs Deposit, Withdraw or Transfer     *)
(* once: it validates its input, then makes up to MaxAttempts transaction  *)
(* attempts.  An attempt is one SQL statement per step:                    *)
(*                                                                         *)
(*   begin -> lock1 -> lock2 -> check -> entry1 -> entry2                  *)
(*         -> update1 -> update2 -> commit -> done                         *)
(*                                                                         *)
(* and falls back to "backoff" on SQLSTATE 40001, to "done" on any other   *)
(* error.  PostgreSQL is modelled by what these statements rely on: row    *)
(* locks held to the end of the transaction, a snapshot taken by the first *)
(* statement, "could not serialize access due to concurrent update" when a *)
(* row to lock was changed after the snapshot, deadlock detection, CHECK   *)
(* constraints, the range of NUMERIC(19,4), atomic commit.                 *)
(*                                                                         *)
(* Operators named X_Variant are X with a bug it could have had; no        *)
(* definition uses them.  Checked with X replaced by one, a property fails.*)
(***************************************************************************)
EXTENDS Money, Sequences

CONSTANTS
  Requests,        \* identities of the requests being served
  Accounts,        \* account ids that have a row in table accounts
  Settlement,      \* the seeded system account
  Currency,        \* currency of each account
  Inputs,          \* parameters a request may carry
  OpeningEntries,  \* rows of table entries posted before
  MaxAttempts,     \* ExecTx: maxAttempts
  PoolSize,        \* main: SetMaxOpenConns
  Faults,          \* faults of the environment that may befall each request
  None             \* no request

Kinds == {"deposit", "withdraw", "transfer"}
FaultKinds == {"serialization", "connection", "commitAck"}
TxIds == Requests \X (0 .. MaxAttempts - 1)   \* a fresh uuid for every attempt
EarlierTxIds == {None} \X Nat
EntryRows == [tx : TxIds \cup EarlierTxIds, account : Accounts,
              debit : 0 .. NumericMax, credit : 0 .. NumericMax]

ASSUME LedgerAssumption ==
  /\ IsFiniteSet(Requests)
  /\ None \notin Requests
  /\ Settlement \in Accounts
  /\ MaxAttempts \in Nat \ {0}
  /\ PoolSize \in Nat \ {0}
  /\ Faults \in [Requests -> SUBSET FaultKinds]
  /\ \A q \in Inputs : q.kind \in Kinds /\ q.amount \in Int

\* The rows posted before are those of completed transactions: none is of a
\* request still to be served, the books balance and no user is overdrawn.
ASSUME OpeningAssumption ==
  /\ OpeningEntries \subseteq EntryRows
  /\ IsFiniteSet(OpeningEntries)
  /\ \A e \in OpeningEntries : e.tx \in EarlierTxIds
  /\ Total(OpeningEntries, "debit") = Total(OpeningEntries, "credit")
  /\ \A a \in Accounts :
       /\ InRange(GetAccountBalance(OpeningEntries, a))
       /\ a # Settlement => GetAccountBalance(OpeningEntries, a) >= 0

VARIABLES
  \* the database, as committed
  balance,   \* accounts.balance
  entries,   \* table entries
  lock,      \* the request whose transaction holds a row of accounts FOR UPDATE
  \* one request
  pc,        \* where its goroutine is
  req,       \* its parameters
  attempt,   \* ExecTx: attempt
  answer,    \* what the service call returned, or "pending"
  \* its open transaction
  stale,     \* rows others changed and committed after its snapshot
  seen,      \* the balance it read and bases its decision on
  rows,      \* entries it inserted
  delta      \* what its updates add to each balance

ledgerVars == <<balance, entries, lock>>
txVars == <<stale, seen, rows, delta>>
vars == <<balance, entries, lock, pc, req, attempt, answer, stale, seen, rows, delta>>

NoDelta == [a \in Accounts |-> 0]

-----------------------------------------------------------------------------
(* The plan of each operation. *)

\* The row the operation moves money to or from besides q.account.
Peer(q) == IF q.kind = "transfer" THEN q.to ELSE Settlement

\* Variant: Withdraw locks the account before the settlement row.
LockOrder_AccountFirst(q) ==
  CASE q.kind = "deposit"  -> <<Settlement, q.account>>
    [] q.kind = "withdraw" -> <<q.account, Settlement>>
    [] q.kind = "transfer" -> <<q.account, q.to>>

\* Rows in the order the operation locks them.
LockOrder(q) == IF q.kind = "transfer"
                  THEN <<q.account, q.to>>
                  ELSE <<Settlement, q.account>>

\* Variant: the opposing entry has the sign of the first.
Legs_SameSign(q) ==
  LET m == StringFixed4(q.amount)
      s == IF q.kind = "deposit" THEN m ELSE -m
  IN <<[account |-> q.account, change |-> s], [account |-> Peer(q), change |-> s]>>

\* The two legs in the order they are entered and applied to the balances.
Legs(q) ==
  LET m == StringFixed4(q.amount)
      s == IF q.kind = "deposit" THEN m ELSE -m
  IN <<[account |-> q.account, change |-> s],
       [account |-> Peer(q), change |-> -s]>>

\* Withdraw and Transfer require the balance of q.account to cover the
\* amount; Deposit looks at no balance.
Checked(q) == q.kind # "deposit"

\* Tests made before any transaction is opened.
InvalidAmount(q) == ~Positive(q.amount)

\* Variant: Transfer does not compare its ids.
SelfTransfer_Allowed(q) == FALSE
SelfTransfer(q) == q.kind = "transfer" /\ q.account = q.to

-----------------------------------------------------------------------------
(* Control of a request. *)

TxSteps == {"lock1", "lock2", "check", "entry1", "entry2",
            "update1", "update2", "commit"}
Steps == TxSteps \cup {"begin", "backoff", "done"}

Errors == {"invalidAmount", "sameAccount", "notFound", "currencyMismatch",
           "insufficientFunds", "checkViolation", "outOfRange",
           "deadlock", "exhausted", "canceled"}
Answers == Errors \cup {"pending", "ok", "unknown"}

\* Connections of the pool in use: one per open transaction.
InUse == {r \in Requests : pc[r] \in TxSteps}

Goto(r, next) == pc' = [pc EXCEPT ![r] = next]

Answer(r, ans) ==
  /\ Goto(r, "done")
  /\ answer' = [answer EXCEPT ![r] = ans]

\* The end of a transaction, either way: its locks are released and what the
\* goroutine kept of it is gone.
EndTx(r) ==
  /\ lock' = [a \in Accounts |-> IF lock[a] = r THEN None ELSE lock[a]]
  /\ seen' = [seen EXCEPT ![r] = 0]
  /\ rows' = [rows EXCEPT ![r] = {}]
  /\ delta' = [delta EXCEPT ![r] = NoDelta]

\* Variant: the attempts of one call share a transaction's snapshot.
Rollback_KeepsSnapshot(r) ==
  /\ EndTx(r)
  /\ UNCHANGED <<stale, balance, entries>>

Rollback(r) ==
  /\ EndTx(r)
  /\ stale' = [stale EXCEPT ![r] = {}]
  /\ UNCHANGED <<balance, entries>>

\* An error other than 40001 is returned at once.
Fail(r, err) ==
  /\ Rollback(r)
  /\ Answer(r, err)
  /\ UNCHANGED <<req, attempt>>

\* Variant: attempts are not counted.
Conflict_Uncounted(r) ==
  /\ Rollback(r)
  /\ Goto(r, "backoff")
  /\ UNCHANGED <<req, attempt, answer>>

\* SQLSTATE 40001, from a statement or from COMMIT: another attempt after a
\* pause, until the attempts are used up.
Conflict(r) ==
  /\ Rollback(r)
  /\ \/ /\ attempt[r] < MaxAttempts - 1
        /\ attempt' = [attempt EXCEPT ![r] = @ + 1]
        /\ Goto(r, "backoff")
        /\ UNCHANGED answer
     \/ /\ attempt[r] = MaxAttempts - 1
        /\ Answer(r, "exhausted")
        /\ UNCHANGED attempt
  /\ UNCHANGED req

-----------------------------------------------------------------------------
(* One request, statement by statement. *)

\* validatePositiveAmount, and Transfer's test of its two ids, fail before
\* ExecTx is reached.
RejectInput(r) ==
  /\ pc[r] = "begin"
  /\ \/ InvalidAmount(req[r]) /\ Answer(r, "invalidAmount")
     \/ /\ ~InvalidAmount(req[r]) /\ SelfTransfer(req[r])
        /\ Answer(r, "sameAccount")
  /\ UNCHANGED <<ledgerVars, txVars, req, attempt>>

\* BeginTx takes a connection of the pool, or waits for one.  The snapshot is
\* taken by the first statement; nothing the request does in between can be
\* observed, so BEGIN and the arrival of that statement are one step.
BeginTx(r) ==
  /\ pc[r] = "begin"
  /\ ~InvalidAmount(req[r]) /\ ~SelfTransfer(req[r])
  /\ Cardinality(InUse) < PoolSize
  /\ Goto(r, "lock1")
  /\ UNCHANGED <<ledgerVars, txVars, req, attempt, answer>>

\* Variant: a plain SELECT, which neither locks the row nor waits.
LockRow_PlainSelect(r, i, here, next) ==
  LET a == LockOrder(req[r])[i]
  IN /\ pc[r] = here
     /\ a \in Accounts
     /\ seen' = IF Checked(req[r]) /\ a = req[r].account
                  THEN [seen EXCEPT ![r] = balance[a]]
                  ELSE seen
     /\ Goto(r, next)
     /\ UNCHANGED <<balance, entries, lock, req, attempt, answer, stale, rows, delta>>

\* SELECT ... FOR UPDATE of the i-th row returns the row and locks it.
LockRow(r, i, here, next) ==
  LET a == LockOrder(req[r])[i]
  IN /\ pc[r] = here
     /\ a \in Accounts \ stale[r]
     /\ lock[a] \in {None, r}
     /\ lock' = [lock EXCEPT ![a] = r]
     /\ seen' = IF Checked(req[r]) /\ a = req[r].account
                  THEN [seen EXCEPT ![r] = balance[a]]
                  ELSE seen
     /\ Goto(r, next)
     /\ UNCHANGED <<balance, entries, req, attempt, answer, stale, rows, delta>>

\* It returns no row: sql.ErrNoRows.
RowMissing(r, i, here) ==
  /\ pc[r] = here
  /\ LockOrder(req[r])[i] \notin Accounts
  /\ Fail(r, "notFound")

\* The row was changed by a transaction that committed after the snapshot,
\* perhaps while this statement waited for the lock: SQLSTATE 40001.
RowChanged(r, i, here) ==
  /\ pc[r] = here
  /\ LockOrder(req[r])[i] \in stale[r]
  /\ Conflict(r)

\* Variant: an amount equal to the balance is refused.
CheckFails_OnEqual(r) ==
  /\ pc[r] = "check"
  /\ Checked(req[r]) /\ seen[r] * 10 <= req[r].amount
  /\ Fail(r, "insufficientFunds")

\* Currency and funds are examined on the rows just read.
CheckFails(r) ==
  LET q == req[r]
      mismatch == Currency[q.account] # Currency[Peer(q)]
  IN /\ pc[r] = "check"
     /\ \/ mismatch /\ Fail(r, "currencyMismatch")
        \/ /\ ~mismatch
           /\ Checked(q) /\ ~Covers(seen[r], q.amount)
           /\ Fail(r, "insufficientFunds")

CheckPasses(r) ==
  LET q == req[r]
  IN /\ pc[r] = "check"
     /\ Currency[q.account] = Currency[Peer(q)]
     /\ Checked(q) => Covers(seen[r], q.amount)
     /\ Goto(r, "entry1")
     /\ UNCHANGED <<ledgerVars, txVars, req, attempt, answer>>

\* CreateEntry of the i-th leg.  The transaction id is a fresh uuid of every
\* attempt.  Table entries rejects an amount out of range and, by
\* check_single_side, an amount rounded to zero.
EntryOf(r, i) ==
  LET leg == Legs(req[r])[i]
  IN [tx |-> <<r, attempt[r]>>, account |-> leg.account,
      debit |-> IF leg.change < 0 THEN -leg.change ELSE 0,
      credit |-> IF leg.change > 0 THEN leg.change ELSE 0]

\* Variant: the entry is inserted through the store, outside the transaction.
CreateEntry_Autocommit(r, i, here, next) ==
  LET change == Legs(req[r])[i].change
  IN /\ pc[r] = here
     /\ change # 0 /\ InRange(change)
     /\ entries' = entries \cup {EntryOf(r, i)}
     /\ Goto(r, next)
     /\ UNCHANGED <<balance, lock, txVars, req, attempt, answer>>

CreateEntry(r, i, here, next) ==
  LET change == Legs(req[r])[i].change
  IN /\ pc[r] = here
     /\ change # 0 /\ InRange(change)
     /\ rows' = [rows EXCEPT ![r] = @ \cup {EntryOf(r, i)}]
     /\ Goto(r, next)
     /\ UNCHANGED <<ledgerVars, req, attempt, answer, stale, seen, delta>>

\* The two legs carry the same magnitude, so only the first can be rejected.
EntryRejected(r) ==
  LET change == Legs(req[r])[1].change
  IN /\ pc[r] = "entry1"
     /\ \/ change = 0 /\ Fail(r, "checkViolation")
        \/ ~InRange(change) /\ Fail(r, "outOfRange")

\* Variant: the column has no precision.
UpdateBalance_Unbounded(r, i, here, next) ==
  LET leg == Legs(req[r])[i]
  IN /\ pc[r] = here
     /\ delta' = [delta EXCEPT ![r][leg.account] = @ + leg.change]
     /\ Goto(r, next)
     /\ UNCHANGED <<ledgerVars, req, attempt, answer, stale, seen, rows>>

\* UPDATE accounts SET balance = balance + $1, on a row this transaction
\* holds: it sees the committed balance and its own earlier update.
UpdateBalance(r, i, here, next) ==
  LET leg == Legs(req[r])[i]
  IN /\ pc[r] = here
     /\ InRange(balance[leg.account] + delta[r][leg.account] + leg.change)
     /\ delta' = [delta EXCEPT ![r][leg.account] = @ + leg.change]
     /\ Goto(r, next)
     /\ UNCHANGED <<ledgerVars, req, attempt, answer, stale, seen, rows>>

UpdateRejected(r, i, here) ==
  LET leg == Legs(req[r])[i]
  IN /\ pc[r] = here
     /\ ~InRange(balance[leg.account] + delta[r][leg.account] + leg.change)
     /\ Fail(r, "outOfRange")

\* COMMIT makes the entries and the balances visible together; the rows it
\* changed become stale for every transaction still open.
Changed(r) == {Legs(req[r])[i].account : i \in 1 .. 2}

CommitTx(r) ==
  /\ pc[r] = "commit"
  /\ EndTx(r)
  /\ balance' = [a \in Accounts |-> balance[a] + delta[r][a]]
  /\ entries' = entries \cup rows[r]
  /\ stale' = [p \in Requests |->
                  IF p \in InUse \ {r} THEN stale[p] \cup Changed(r) ELSE {}]
  /\ UNCHANGED <<req, attempt>>

Commit(r) == CommitTx(r) /\ Answer(r, "ok")

\* sleepWithContext(retryWait(attempt)) is over.
Retry(r) ==
  /\ pc[r] = "backoff"
  /\ Goto(r, "begin")
  /\ UNCHANGED <<ledgerVars, txVars, req, attempt, answer>>

-----------------------------------------------------------------------------
(* Deadlocks between transactions. *)

\* The row a request is waiting for, when it waits.
Wanted(r) == LockOrder(req[r])[IF pc[r] = "lock1" THEN 1 ELSE 2]
Waiting(r) ==
  /\ pc[r] \in {"lock1", "lock2"}
  /\ Wanted(r) \in Accounts \ stale[r]
  /\ lock[Wanted(r)] \notin {None, r}
WaitsFor(r) == lock[Wanted(r)]

\* Everyone in S waits for someone in S and is waited for by someone in S.
Deadlocked(S) ==
  /\ S # {}
  /\ \A r \in S : Waiting(r)
  /\ {WaitsFor(r) : r \in S} = S

\* PostgreSQL aborts a transaction that finds itself on a cycle with SQLSTATE
\* 40P01, which isSerializationError does not recognise.
DeadlockVictim(r) ==
  /\ \E S \in SUBSET InUse : r \in S /\ Deadlocked(S)
  /\ Fail(r, "deadlock")

-----------------------------------------------------------------------------
(* Faults of the environment. *)

\* Serializable snapshot isolation may abort a transaction although no row it
\* locks has changed.
SerializationFailure(r) ==
  /\ "serialization" \in Faults[r]
  /\ pc[r] \in TxSteps \ {"check"}
  /\ Conflict(r)

\* The context is cancelled or the connection breaks: while waiting for a
\* connection, during a statement, before COMMIT reaches the server, or in
\* the pause before a retry.
ConnectionLost(r) ==
  /\ "connection" \in Faults[r]
  /\ pc[r] \in TxSteps \cup {"begin", "backoff"}
  /\ ~InvalidAmount(req[r]) /\ ~SelfTransfer(req[r])
  /\ Fail(r, "canceled")

\* Variant: the lost acknowledgement is taken for a conflict.
CommitUnacknowledged_Retried(r) ==
  /\ "commitAck" \in Faults[r]
  /\ attempt[r] < MaxAttempts - 1
  /\ pc[r] = "commit"
  /\ EndTx(r)
  /\ balance' = [a \in Accounts |-> balance[a] + delta[r][a]]
  /\ entries' = entries \cup rows[r]
  /\ stale' = [stale EXCEPT ![r] = {}]
  /\ attempt' = [attempt EXCEPT ![r] = @ + 1]
  /\ Goto(r, "backoff")
  /\ UNCHANGED <<req, answer>>

\* The connection breaks after the server committed and before it said so.
CommitUnacknowledged(r) ==
  /\ "commitAck" \in Faults[r]
  /\ CommitTx(r)
  /\ Answer(r, "unknown")

-----------------------------------------------------------------------------
Init ==
  /\ req \in [Requests -> Inputs]
  /\ entries = OpeningEntries
  /\ balance = [a \in Accounts |-> GetAccountBalance(OpeningEntries, a)]
  /\ lock = [a \in Accounts |-> None]
  /\ pc = [r \in Requests |-> "begin"]
  /\ attempt = [r \in Requests |-> 0]
  /\ answer = [r \in Requests |-> "pending"]
  /\ stale = [r \in Requests |-> {}]
  /\ seen = [r \in Requests |-> 0]
  /\ rows = [r \in Requests |-> {}]
  /\ delta = [r \in Requests |-> NoDelta]

\* What the code and the database do of themselves for one request.
Step(r) ==
  \/ RejectInput(r) \/ BeginTx(r)
  \/ LockRow(r, 1, "lock1", "lock2") \/ LockRow(r, 2, "lock2", "check")
  \/ RowMissing(r, 1, "lock1") \/ RowMissing(r, 2, "lock2")
  \/ RowChanged(r, 1, "lock1") \/ RowChanged(r, 2, "lock2")
  \/ DeadlockVictim(r)
  \/ CheckFails(r) \/ CheckPasses(r)
  \/ CreateEntry(r, 1, "entry1", "entry2") \/ CreateEntry(r, 2, "entry2", "update1")
  \/ EntryRejected(r)
  \/ UpdateBalance(r, 1, "update1", "update2") \/ UpdateBalance(r, 2, "update2", "commit")
  \/ UpdateRejected(r, 1, "update1") \/ UpdateRejected(r, 2, "update2")
  \/ Commit(r) \/ Retry(r)

Fault(r) == SerializationFailure(r) \/ ConnectionLost(r) \/ CommitUnacknowledged(r)

\* Every request has been answered: the server idles.
Idle ==
  /\ \A r \in Requests : pc[r] = "done"
  /\ UNCHANGED vars

Next == (\E r \in Requests : Step(r) \/ Fault(r)) \/ Idle

Spec == Init /\ [][Next]_vars

\* Goroutines are scheduled, PostgreSQL answers every statement that is not
\* waiting for a lock and breaks every deadlock, timers fire.
FairSpec == Spec /\ \A r \in Requests : WF_vars(Step(r))

-----------------------------------------------------------------------------
(* Properties. *)

\* Types: every variable keeps its shape; balances stay within NUMERIC(19,4)
\* and ExecTx never counts beyond its last attempt.
TypeOK ==
  /\ balance \in [Accounts -> -NumericMax .. NumericMax]
  /\ entries \in SUBSET EntryRows
  /\ lock \in [Accounts -> Requests \cup {None}]
  /\ pc \in [Requests -> Steps]
  /\ req \in [Requests -> Inputs]
  /\ attempt \in [Requests -> 0 .. MaxAttempts - 1]
  /\ answer \in [Requests -> Answers]
  /\ stale \in [Requests -> SUBSET Accounts]
  /\ seen \in [Requests -> Int]
  /\ rows \in [Requests -> SUBSET EntryRows]
  /\ delta \in [Requests -> [Accounts -> Int]]

\* Withdraw and Transfer never overdraw a user's account, whatever runs
\* concurrently and however the amount is rounded after the funds test.
NoOverdraft == \A a \in Accounts \ {Settlement} : balance[a] >= 0

\* The balance read by GetAccountForUpdate stays the committed balance until
\* the transaction that decided on it ends: no time-of-check race.
Decided == {"check", "entry1", "entry2", "update1", "update2", "commit"}
DecisionCurrent ==
  \A r \in Requests : Checked(req[r]) /\ pc[r] \in Decided =>
    seen[r] = balance[req[r].account]

\* The cached balance of every account equals SUM(credit) - SUM(debit) of its
\* entries, in every committed state, through rollbacks and retries.
Reconciled == \A a \in Accounts : balance[a] = GetAccountBalance(entries, a)

\* Double entry: over the whole ledger debits equal credits.
BooksBalance == Total(entries, "debit") = Total(entries, "credit")

\* A request whose effect was committed, acknowledged or not, has posted one
\* transaction of two entries; any other request, however many attempts it
\* made, has posted nothing.
EntriesOf(r) == {e \in entries : e.tx[1] = r}
Committed == {r \in Requests : answer[r] \in {"ok", "unknown"}}
ExactlyOnce ==
  \A r \in Requests :
    IF r \in Committed
      THEN EntriesOf(r) = {EntryOf(r, 1), EntryOf(r, 2)}
      ELSE EntriesOf(r) = {}

\* Deposits and withdrawals lock the settlement row first, so they never
\* deadlock among themselves: on every cycle there is a transfer.
DeadlockNeedsTransfer ==
  \A S \in SUBSET InUse :
    Deadlocked(S) => \E r \in S : req[r].kind = "transfer"

\* Unless PostgreSQL aborts its transactions without need, every attempt a
\* request loses is lost to another request that committed: if it gives up
\* after MaxAttempts, at least MaxAttempts others went through.
Lost(r) == attempt[r] + (IF answer[r] = "exhausted" THEN 1 ELSE 0)
ContentionBound ==
  \A r \in Requests :
    "serialization" \notin Faults[r] => Lost(r) <= Cardinality(Committed \ {r})

\* Every service call returns: retries are bounded, locks are released on
\* every path and deadlocks are broken.
EveryRequestAnswered == \A r \in Requests : <>(answer[r] # "pending")

\* The service implements the atomic ledger: every call takes effect at one
\* instant, its commit, or is refused for a reason that is true at that instant.
Atomic == INSTANCE AtomicLedger
AtomicSpec == Atomic!Spec
=============================================================================
