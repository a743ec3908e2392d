# The bank ledger, modelled and verified

TLA+ models of the Bank Ledger API (Go, PostgreSQL), TLC runs that check them on
small instances and TLAPS proofs for all instances. Paths below are relative to
the repository.

## The system

| Component | Source | State | Operations |
|---|---|---|---|
| Ledger service | `internal/service/ledger.go` | none of its own | `Deposit`, `Withdraw`, `Transfer`, `ReconcileAccount` |
| Store | `internal/db/store.go` | attempt counter of a call | `ExecTx`: serializable transaction, retried on SQLSTATE 40001 |
| Database | `db/migrations`, `db/queries`, `db/sqlc` | accounts (cached balances), entries, users, idempotency keys | one SQL statement per generated method |
| Idempotency middleware | `internal/api/middleware_idempotency.go` | table `idempotency_keys` | lookup, execute, save |
| HTTP handlers | `internal/api/handler.go` | none | register, login, accounts, money operations, listings, reconcile |
| Amounts | `internal/api/amount.go`, `validatePositiveAmount` | none | parse, validate, round |
| Rate limiter | `internal/ratelimit/ratelimit.go` | token bucket per client, last use | admit, evict idle buckets |
| Middleware chain | `cmd/main.go` | none of its own | which middleware a route passes, in which order |
| Start-up | `docker-entrypoint`, `cmd/main.go`, `docker-compose.yml` | environment, schema version, advisory lock | resolve the URL, migrate, check, serve, restart |
| Shutdown | `cmd/main.go` | listener, connections, pool of 25 connections | signal, drain, force, close |

Every HTTP request is a goroutine. The handlers call the service, the service
runs a closure in `ExecTx`, the closure issues SQL statements; requests meet only
in the database (rows of `accounts`, locks, constraints), in the connection pool
and in the limiters' maps. Containers meet in the schema of the database. What is
hard: interleavings of statements of several
transactions, deadlocks between transfers, retries of a closure, a commit whose
acknowledgement is lost, decisions on a balance read earlier, decimals that are
tested unrounded and stored rounded, key lookups and saves that are not one
transaction with the operation, a lookup that fails and is taken for a miss,
reads outside any transaction, pages read while rows are added, buckets
removed between lookup and use, containers that migrate at the same time, a
shutdown while handlers run.

What makes each part correct:

* ledger: books balance, cached balances equal the entries, no user is
  overdrawn, each call takes effect once or not at all, every call returns;
* store: only serialization failures are retried, an attempt leaves no trace
  unless it commits;
* reconciliation: the verdict says something about the account;
* idempotency: a stored key ends the operation, replays are faithful;
* rate limiter: eviction gives nobody more than the bucket would;
* chain: limits hold per client, refusals are not stored, strangers spend nothing;
* handlers: only the owner debits, nobody is shown what is not theirs, what was
  acknowledged stays visible, a registration that failed late can be used;
* listings: pages neither skip nor repeat rows without reason;
* start-up: no server on an incomplete schema or another database, no migration
  twice, and it does come up;
* shutdown: whoever is in time gets the answer, and the process ends.

## Modules

| Module | Models | Uses |
|---|---|---|
| `Money` | validation, rounding, funds comparison, `NUMERIC(19,4)`, sums of entries | |
| `AtomicLedger` | abstract: every request is answered in one step | `Money` |
| `Ledger` | service, `ExecTx` and PostgreSQL, one SQL statement per step | `Money`, implements `AtomicLedger` |
| `LedgerProofs` | theorems about `Ledger`, and that it implements `AtomicLedger` | `Ledger` |
| `Idempotency` | the middleware and the handlers' status codes around the ledger | `AtomicLedger` |
| `IdempotencyProofs` | theorems about `Idempotency` | `Idempotency` |
| `Handlers` | every handler and `ReconcileAccount`, one statement per step, over users, accounts, entries | |
| `HandlersProofs` | theorems about `Handlers` | `Handlers` |
| `Listing` | `GetEntries`: pages by limit and offset against commits | |
| `ListingProofs` | theorems about `Listing` | `Listing` |
| `TokenBuckets` | abstract: one token bucket per client, for ever | |
| `RateLimiter` | the map of buckets, its mutex, `cleanup` | implements `TokenBuckets` |
| `RateLimiterProofs` | theorems about `RateLimiter` | `RateLimiter` |
| `RequestChain` | global and endpoint limiters, authentication, idempotency, in the order of `main` | |
| `RequestChainProofs` | theorems about `RequestChain` | `RequestChain` |
| `Startup` | `docker-entrypoint`, migrations, `main` up to the ping, restarts | |
| `StartupProofs` | theorems about `Startup` | `Startup` |
| `Lifecycle` | `main` from `ListenAndServe` to its return, beside the handlers | |
| `LifecycleProofs` | theorems about `Lifecycle` | `Lifecycle` |
| `MC...` | instances for TLC | |

An operator named `X_Something` next to `X` is `X` with a bug it could have had
("Variant" in its comment). No definition uses them: `PROJECT.json` pairs each
with the property that fails when `X` is replaced by it.

### Ledger

`pc[r]` is the place of request `r` in its operation:

    begin -> lock1 -> lock2 -> check -> entry1 -> entry2 -> update1 -> update2 -> commit -> done

with `backoff` between attempts. Deposits and withdrawals lock the settlement
row and then the account (ledger.go:51-59, 131-139), transfers lock source and
destination in request order (224-232); `LockOrder` says so. `Legs` are the two
entries and the two updates in code order. `Fail` is an error `ExecTx` returns at
once (store.go:47-50), `Conflict` one it retries (51-58).

PostgreSQL at SERIALIZABLE is what these statements rely on: a row lock is held
until the transaction ends (`lock`), a row changed by a commit after the
snapshot cannot be locked (`stale`, SQLSTATE 40001, which also covers a waiter
whose blocker commits), a cycle of waiting transactions loses a member (40P01,
`DeadlockVictim`), constraints reject a row or an update, commit is atomic.
Instead of row versions, `stale[r]` collects the rows others committed since
`r`'s snapshot. Entries and updates are visible to their own transaction only
(`rows`, `delta`). Faults, which `Faults` enables for each request: serialization
failures PostgreSQL raises without a changed row, broken connections or cancelled
contexts at any statement, commits whose acknowledgement is lost.

Amounts are integers: stored money in units of 0.0001, raw request amounts with
one digit more, which decides `StringFixed(4)` and stands for everything
strictly between two stored values.

`NewFromString` of a stored balance cannot fail and is left out. Descriptions,
timestamps, logging and metrics are left out. The entry ids and transaction ids
of PostgreSQL and `uuid.New` are taken to be fresh.

### AtomicLedger

`Post`: the request takes effect at one instant, on the balances of that
instant, as a pair of entries with a new transaction id. `Refuse`: it is answered
with an error that is true of the ledger at that instant, or with one that
depends on no balance (deadlock, retries used up, connection gone), and nothing
changes. `Ledger` implements it without a refinement mapping: the committed
tables and the answers are the abstract state and every other step stutters.

### Idempotency

`Send`, `Hit`/`Miss`/`LookupFails`, `Handle`, `Execute`, `Save` are the stages of
one HTTP call; the response is written at `Execute`, before the key is saved.
`Hash` is the compound hash of header and body. It leaves the path, and with it
the operation and the account, out: a deposit and a withdrawal of one amount with
one header are one key (`reuse`), the second is answered with the first's response
and not executed. Calls without a header pass untouched.

A statement fails when its client has gone (`gone`, a cancelled `r.Context()`) or
when the database does not answer (fault `database`, at any call). A failing lookup
is logged and the call executed, whatever is stored (`LookupFails`,
middleware_idempotency.go:105-111); a failing read of the account is a 404, which is
stored if the save succeeds; a failing save is logged. A call whose client has gone
while COMMIT is on its way may still post (`Possible`).

`StatusOf` is the mapping of errors to codes, which differs per handler: Transfer
answers 400 to every error; an account of somebody else is 403. A `habit` is chosen
at the start: which calls carry which key, whether the client reuses a key on
another endpoint, whether it waits for an answer before it repeats a call, and
which faults may occur.

### Handlers

`pc[c]` is the statement call `c` is at, named after the generated query. Users,
accounts and transactions are named by the call that creates them, tokens by the
call they answer, so a token carries the user it was signed for and nothing else.
`before[c]` remembers what was answered when `c` was sent. The ledger's own
transaction is one step (what `AtomicSpec` shows), with one unit of money. A
`scenario`, chosen at the start, says what each call may be, which answers its
client waits for and which faults may occur. `GetEntries` answers with at most
`MaxLimit` rows (100), or the limit asked for (`PageSize`); which rows are on the page
is open here. `ReadBalance` and `ReconcileAccount` are the two statements of the
reconciliation (ledger.go:308, 314), outside any transaction. Faults: a body that
cannot be decoded, a password bcrypt refuses to hash (over 72 bytes), a token that
cannot be signed, a read or a write that fails, a commit whose acknowledgement is
lost, a crash. Two peculiarities of the code are in the model:
Login answers 401, and the handlers that read an account answer 404, to any
failure of the read, the database's included.

### Listing

`created_at` defaults to `now()`, the start of the transaction: entries become
visible in another order than they are listed in (`Begin`, `Commit`). `Heads` leaves
the order of ties open, which the two entries of a transaction on one account
would have. `ToInt32` is the conversion of the parsed offset to an integer
of `-Half .. Half - 1` (2^31 in the code, 8 in the run); a negative result makes the
query fail (500).

### TokenBuckets, RateLimiter, RequestChain

A request looks its bucket up under the mutex (`getLimiter`) and takes a token
after the unlock (`Allow`), so it may hold a bucket that `cleanup` has removed.
Time is in ticks; `Price` ticks make one token. `SlowEviction` is the assumption
under which forgetting a client is harmless: the bucket is full again before
`ttl`. In `main` every bucket refills in less than a second and every `ttl` is at
least five minutes. `Stall` bounds how long a runnable goroutine waits; without
it a request might sit between lookup and `Allow` for longer than `ttl`.

`Chain` is the order of `r.Use` in `main`. `RequestChain` takes limiters as
`TokenBuckets` has them. The client id is the API key or `RemoteAddr` in the global
limiter and the forwarded address or `RemoteAddr` in the endpoint limiter; nothing
in the code sets the `user_id` context value that `Middleware` looks for.
`RemoteAddr` includes the port, so a client that opens a new connection is a new
peer; the model calls a peer whatever the string is.

### Startup

The environment is one record: DB_URL and its fallbacks (unset, blank, a local URL
in lower or upper case, two others), RENDER, RUN_DB_MIGRATIONS_ON_START, missing
variables, the length of the secret. `ShellUrl` and `GoUrl` are the two
resolutions and `Exported` what the first hands to the second. golang-migrate is
external: lock, read the version once, then for each file mark it dirty, run it,
mark it clean. A file runs in one implicit transaction, so it applies wholly
or not at all. A lock that is not obtained ("timeout") is an error the entrypoint
retries. A database that does not answer is one or is not, by the text of the
error: "connection refused" is on the list of docker-entrypoint:66 (`NotReady`), "the
database system is starting up" and "no such host" are not, and the container exits
at once (`Unrecognised`), to be started again. An outage in the middle may produce
either.

### Lifecycle

`main` goes select, draining, limiters, pool, return. net/http is external: a new
connection has five seconds to send its headers, the write deadline starts when
they are read and an answer after it is lost although the handler ran to its
end, Shutdown closes the listener and idle connections and waits for the others,
Close cuts them. A handler is waiting for a transaction, running it, or has an
outcome; conflicts send it back to waiting. Clients that disconnect of their own
accord are in `Idempotency`, not here.

## Runs

| Run | Bounds | Question |
|---|---|---|
| `ledger_contention` | 3 requests out of 5 contending operations, 2 connections, 2 accounts and settlement, 2 attempts; one request suffers serialization failures at any time | is the outcome that of some sequential order (so that nobody is overdrawn), who can deadlock, who can run out of attempts, does every call return |
| `ledger_faults` | 2 requests out of 33 inputs, 3 attempts, all faults, `NumericMax` 5, one account in another currency | do aborted, retried and unacknowledged attempts leave the ledger consistent, is nobody overdrawn; rounding, range, unknown accounts, settlement used as an account |
| `idempotency` | 3 calls: one key repeated impatiently with all faults, or a patient client with one key, reused, and a competing call without | is a stored key final and its replay faithful; may a patient client trust the answers |
| `idempotency_concurrent` | 2 overlapping calls | violated: both execute |
| `handlers` | two scenarios: 5 calls around two registrations of one email; 2 users with an account each, then 3 concurrent calls out of 11, pages of 1 and 2 rows of an account with up to 3 | do registrations hold, who debits, who is shown what, is what was acknowledged seen, what a reconciliation means |
| `reconcile_verdict` | the same two scenarios | violated: a mismatch without drift |
| `listing` | 5 entries, limits 0, 1, 4 with `MaxLimit` 3, offsets around the sign and the wrap of a 4-bit integer, ties | do pages miss or repeat entries; truncation |
| `rate_limiter` | 4 requests of 2 clients, burst 2, `Horizon` 12 ticks | the limit in every interval; is forgetting visible |
| `request_chain` | 5 requests, 2 ticks per token, bursts of 2 (global) and 1, `Horizon` 2 ticks | limits over routes, peers and API keys; what refusals leave behind |
| `login_limit` | logins of one client | violated: no limit of their own |
| `startup` | 1 container in all 2592 environments with two fallbacks, each database up or down; 2 containers, 3 migrations, 2 attempts, 2 outages, 2 kills | is the database served the one migrated; schema, double application, coming up |
| `shutdown` | 3 connections, deadlines 1, 3 and 6 units of five seconds | lost answers, the pool, the end of the process |

Why the bounds are enough to be interesting: two requests close a deadlock
cycle, three leave one to make another's snapshot stale twice, so with two
attempts a request runs out of them; with two connections one of the three waits for
the pool while the others wait for rows (any number of connections is left to the
proofs). Balances of 2 and 1 against amounts of 1 and
2 make one operation decide whether the next is affordable. Raw amounts 4, 5,
14, 15, 24, 25 lie on both sides of a rounding boundary, below, at and above a
balance. With `NumericMax` 5 the first entry, the first update and the
second update (the settlement balance) each can be the one that is rejected.
Symmetry (permutations of requests or entries) is used only for safety.
`Horizon` 12 lets a bucket empty, refill and be removed (`Ttl` 7, `Period` 3) and its
client come back. In `request_chain` a token comes back at the horizon, so that a
client is served again, in intervals that start later than 0 too; a bucket that grew
beyond its burst would be seen there. Two fallbacks of three decide every order question of the
resolutions. Five migrations behave as three: the first, a middle, the last.
The deadlines of `shutdown` are those of the code; three connections allow one
that hangs, one that is late and one that has sent nothing. The integer of
`listing` is narrower than 32 bits, with offsets on both sides of its
limits.

What the properties mean in the code:

* `NoOverdraft`: the funds test (ledger.go:150, 243) protects the balance until
  commit, with rounding. `DecisionCurrent`: the balance read under FOR UPDATE
  stays current; this is the "prevents TOCTOU races" of `db/queries/accounts.sql:15`.
* `AtomicSpec`: refinement of `AtomicLedger`.
* `Reconciled`, `BooksBalance`: cache against entries, debits against credits.
* `ExactlyOnce`: one pair of entries per committed request, none otherwise,
  whatever attempts and acknowledgements did.
* `DeadlockNeedsTransfer`: the settlement-first order keeps deposits and
  withdrawals from deadlocking with each other; only transfers can close a cycle.
* `ContentionBound`: without spurious serialization failures a call loses an
  attempt only to another call that commits; ten attempts fail only after
  ten other commits.
* `EveryRequestAnswered`: under weak fairness of each request's steps. The
  fairness is that goroutines are scheduled, timers fire, and PostgreSQL answers
  every statement that waits for nothing and breaks every deadlock
  (`deadlock_timeout`). Faults are not fair: they need not happen.
* `VerdictMeansNetChange`: "mismatch" exactly when the entries posted between the two
  reads change the balance. `MismatchMeansDrift` is what the comment at `ledger.go:330`
  says of a mismatch, and `reconcile_verdict` shows that it is not so: the cache never
  drifts (`Reconciled`), and a mismatch is a commit between the reads.
* `StoredKeyIsFinal`: once a response is stored and no call of the key is on its way to
  the ledger, nothing changes the response or executes the key again, until the lookup of
  a call with a live client fails. `ReplayIsFaithful`: all replays of a key are the one
  stored response of a call that executed; a response that only says that the moment was
  bad is replayed for transfers alone. `AnswersTellTheTruth`: a client may rely on the
  answers if it waits for them, its connection holds and the database answers; a
  deposit and a withdrawal with one header and body count as one call, as the hash has
  it.
* `WindowBound`, `ForgettingIsInvisible`: the limiter keeps its limit in every interval,
  and with eviction implements the one without (refinement mapping: an unknown
  client has a full bucket).
* `EndpointLimitsHold`, `GlobalLimitHolds`: in every interval of time, at the start or
  later, the requests that passed a limiter are no more than a burst and what the rate
  adds in the interval. `RefusalsNotStored`, `OnlyAuthenticSpend`: consequences of the
  order of the middlewares.
* `RegistrationsHold`: Register hashes, inserts the user and then signs. A 500 before the
  insert and a 409 promise nothing; once the row is there, whatever Register answered,
  its credentials work and nobody else gets the email. `OwnerDebits` relates a debit to the
  credentials behind the token; `OwnDataOnly`: see `Handlers`. `ReadYourWrites`: what was
  acknowledged is seen by every later call, in a listing of entries if its page is not
  full.
* `NothingMissed`, `RepeatsAreCommits`: commits only push rows to later pages. An
  entry that begins before and commits during the reading may be missed, it was
  not there at the start. Ties are excepted, see below.
* `ServesWhatWasMigrated`, `ServesCurrentSchema`: the database the server uses is the one
  its entrypoint migrated, and every migration is complete in it. The properties name the one
  exception, `Differ`: a DB_URL on `@LOCALHOST:`, which Go recognises as local and
  replaces by a fallback and the shell does not; the server then uses a database nobody
  need have migrated.
* `AppliedOnce`, `ComesUp`: the second under weak fairness of the
  containers' steps, of restarts (`restart: unless-stopped`) and of databases
  coming back. A migration interrupted by a kill leaves the version dirty: then no
  container serves until someone repairs it, which `ComesUp` excepts.
* `GraceProtects`, `PoolOutlivesHandlers`; `SignalStops` under weak fairness of main's
  goroutine and of time only: handlers may hang.

In all runs but `request_chain` and `login_limit`, which stop with the clock and
all requests answered, deadlock checking is on: the only state without a successor would be
a request stuck before its answer (`Idle` is the finished system).

## Where the code and its comments disagree

1. `middleware_idempotency.go:38` "prevents duplicate execution of mutating
   ledger endpoints" and `README.md:14`. Two overlapping calls with one key both
   miss and both execute (`idempotency_concurrent`).
2. `cmd/main.go:277` "5 req/sec for login" (and 278 for register). The endpoint
   limiter is installed in the protected group, which neither route is in
   (`login_limit`).
3. `internal/service/ledger.go:330` "Mismatch means denormalized cache drifted from
   ledger truth". A commit between the two reads of `ReconcileAccount` is a mismatch
   too, on a sound account (`reconcile_verdict`).

Read while modelling and not the subject of a run: the key is saved with the
request's context, so a client that disconnects after the commit leaves none and
its retry executes again, and a lookup that fails for another reason than a missing row
executes a call whose response is stored (the reasons for `Dependable` in
`AnswersTellTheTruth`).
`middleware_idempotency.go:117` "Only store operational outcomes or domain
validation exceptions (2xx, 4xx)": Transfer answers 400 to deadlocks and exhausted
retries too, and these are stored. `X-RateLimit-Limit` is
`string(rune(burst))`, a character and not a number. Compose creates the database
`simple_ledger` while DB_URL and the health check name `bank_ledger`. Migrations run
before the environment is validated. Entries that share a timestamp have no order
of their own, so pages may repeat or miss them. Compose sets no
`stop_grace_period`, so Docker's default ends the process before the 30 seconds of
grace are over. `cmd/main.go` calls
`ratelimit.NewEndpointRateLimiter`, which `internal/ratelimit` does not define,
and uses `Middleware` with another signature than it has, so that package main
does not compile as it stands; it also registers `/metrics` before `r.Use`, which
chi refuses. The chain and the shutdown are modelled as `main` wires them, with
`PerEndpointLimiter` for the limiter it names.

## Proofs

`LedgerProofs` proves, for any sets of requests and accounts, any inputs of the
right type, any `MaxAttempts`, `PoolSize`, `NumericMax` and any `Faults` of each request:

* `TypeCorrect` (`TypeOK`), which includes that no committed balance leaves
  NUMERIC(19,4);
* `NeverOverdrawn` (`NoOverdraft`);
* `DecisionsCurrent` (`DecisionCurrent`).

Assumptions: `NumericMaxAssumption`, `LedgerAssumption`, `OpeningAssumption`
(the ledger starts with books that balance and nobody overdrawn). TLC evaluates
them in every run of `Ledger`.

None of the three is inductive. A commit adds `delta` to the balances, so
`NoOverdraft` needs to know what `delta` is (`Applied`), that it was affordable
when tested (`Funded`, with `CoversRounded` for the rounding), that the balance
is still the one tested (`SeenCurrent`), and `TypeOK` that the sums still fit
(`Fits`). These mention balances, which commits of others change, so the
invariant also says which rows a request has locked at each step (`Locked`).
`IInv` is their conjunction over all requests. The proof then has two halves:
each step of `r` keeps `Local(r)` and is a `Frame(r)` step, which keeps the
locked rows of all others and their balances (for a commit: because it holds the
rows it changes, `CommitFrame`); and a `Frame(r)` step keeps `Local(p)` of every
other `p` (`FrameKeepsLocal`).

`LifecycleProofs` proves, for any connections and any deadlines with
`LifecycleAssumption`, `TypeCorrect`, `PoolOutlives` (`PoolOutlivesHandlers`) and
`GraceHolds` (`GraceProtects`). The invariant `ShutdownInv` says what the place of main
implies: the listener is closed before anything else (`NoneAccepted`, so nothing
new is read after the drain), after the drain no connection is open or the grace
period was used up (`AfterDrain`), a handler without its connection was cut off
after the grace period (`HandlerHasConnection`), the pool is closed last.

About the books, `LedgerProofs` proves, under the same assumptions:

* `PostsExactlyOnce` (`ExactlyOnce`), `AlwaysReconciled` (`Reconciled`) and
  `BooksAlwaysBalance` (`BooksBalance`). The invariant `BInv` says which rows an open
  transaction has inserted at each step (`Inserted`), what a committed request has
  posted (`Posted`) and that a request is answered when it is done (`Open`). A sum of
  entries is the cardinality of the set of its units; the lemmas on `Total` say what one
  more row adds to it, and that is, with `Applied`, what the commit adds to the balances.
* `ImplementsAtomicLedger` (`AtomicSpec`): the commit, and each refusal, is a step of
  `AtomicLedger`; everything else stutters. A refusal for want of funds needs
  `SeenCurrent`, that the balance read is the one in the abstract state.
* `ContentionBounded` (`ContentionBound`): the attempts a request has lost, and the one it
  is bound to lose because a row of its snapshot has changed (`Spent`), are no more than
  the commits of others.

`DeadlocksNeedTransfers` (`DeadlockNeedsTransfer`): whoever of a
set of deposits and withdrawals waits for a second row holds the settlement row, and
whoever holds that row waits for nobody in the set. This needs that rows are held only
by requests past the lock (`LInv`).

`IdempotencyProofs` proves, for any calls, keys, accounts and habits with
`IdempotencyAssumption`, `TypeCorrect` (`TypeOK`), `ReplaysFaithful`
(`ReplayIsFaithful`), `StoredKeysFinal` (`StoredKeyIsFinal`) and `AnswersTruthful`
(`AnswersTellTheTruth`). The first three follow from `Kept`: a stored response is that
of a call that executed and is never replaced; a settled key is left only through
`LookupFails`, as no other step takes a call with a live client past its lookup. The
last is about patient clients on a
connection that holds only, and so is its invariant `Truth`: one call of a key is under
way at a time, so a call that executes found nothing stored, and then nothing was
applied before.

`HandlersProofs` proves, for any calls, scenarios and faults with `HandlersAssumption`,
`TypeCorrect` (`TypeOK`), `RegistrationsStand` (`RegistrationsHold`), `OnlyOwnersDebit`
(`OwnerDebits`), `ShownOwnData` (`OwnDataOnly`), `WritesAreRead` (`ReadYourWrites`) and
`VerdictsMeanNetChange` (`VerdictMeansNetChange`). Handlers lock nothing, so what a
handler has checked may only be used later because it does not change back: `Grows` is
the relation between two states in which rows of users, owners, entries and answers
only ever are added. Every step is a `Grows` step, and under it what a call has found
out (`Going`) and was told (`Registering`, `Writing`, `Showing`, `Reading`) stays true. `HInv`
adds what the tables hold: an account belongs to the user who created it, an entry was
written by a call allowed to, balances agree with entries. `RegistrationsStand` is about
the row a registration inserted, so that it holds of every answer Register may have
given; `WritesAreRead` takes a page of `PageSize` rows, of which a page that is not full is
all.

`ListingProofs` proves, for any entries, limits, offsets and range of the integer with
`ListingAssumption`, `ReadersMissNothing` (`NothingMissed`), `RepeatsBounded`
(`RepeatsAreCommits`) and `TruncationHarmless` (`TruncationOnlyBeyond`). The invariant
counts the entries in front of one (`Ahead`), which commits only add to. An entry the
client has not seen has at least as many in front of it as the next query skips
(`Skipping`), so it comes in a later page. One that was seen is sent again only when it has
that many too; these are `Moved`, a commit adds at most one to them, as no two untied
entries have the same number in front of them, and a page takes from them what it
sends again.

`RateLimiterProofs` proves, for any clients, requests, rate, burst, ttl and period with
`RateLimiterAssumption` and `SlowEviction`, `IdleClientsGo` (`IdleClientsForgotten`),
`ForgettingUnseen` (`ForgettingIsInvisible`, the refinement of `TokenBuckets`) and
`LimitHolds` (`WindowBound`). A request takes from its bucket after it has left the
mutex, at most `Stall` later; its client was stamped when it got the bucket. So the
bucket it holds is still the one in the map (`HoldOK`), and the bucket of a client that
was not seen for a ttl is full when it is removed (`IdleIsFull`): a new one is no
different. The window bound is then an account of the tokens taken since its beginning
(`WInv`).

`RequestChainProofs` proves, for any requests, clients and limits with `ChainAssumption`,
`RefusalsForgotten` (`RefusalsNotStored`), `AuthenticatedSpendOnly`
(`OnlyAuthenticSpend`), `GlobalLimitStands` (`GlobalLimitHolds`) and
`EndpointLimitsStand` (`EndpointLimitsHold`). `Account` says of each bucket that, from any
moment on, what is left and what the requests that passed it since then took are no more
than a burst and what the rate has added since; with it the limit holds in every interval
that ends now, and stays true of those that ended before. `Way` says which buckets a
request has passed.

`StartupProofs` proves, for any containers, migrations and environments with
`StartupAssumption`, `TypeCorrect` (`TypeOK`), `MigrationsAppliedOnce` (`AppliedOnce`),
`SchemaIsCurrent` (`ServesCurrentSchema`) and `ServesTheMigrated`
(`ServesWhatWasMigrated`). In `SInv`, who migrates holds the advisory lock (`Place`),
so what it read of `schema_migrations` is still there when it goes on, and the version
of a database tells which migrations took effect (`Sequential`). The last theorem
compares the two resolutions of the URL case by case, and so, for the database served,
does `SchemaIsCurrent` (`ServedDatabase`).

Only model-checked:

* liveness (`EveryRequestAnswered`, `ComesUp`, `SignalStops`): fairness and ENABLED are
  out of the prover's reach;
* `ExecutedAtMostOnce`, `LoginLimitHolds` and `MismatchMeansDrift`, which the code does not
  satisfy.

## Plan

The modules of the plan are written, and every invariant, action property and refinement
the passing runs check is proved. What may still be added: lemmas that several proof
modules state in their own words (cardinalities of sets that grow by an element, the
arithmetic of buckets) in one module of their own, and the composition of
`Idempotency` with `Ledger` in place of `AtomicLedger`, which the refinement justifies.

## Not modelled

* JWT and bcrypt are library code: a token and a hash are abstract, tokens do not
  expire.
* Metrics, DTOs, mappers, JSON layout, descriptions, logging: nothing depends on them.
* CORS, security headers, the body size limit, `/metrics`, `/swagger`, `/health` and
  `/ready`: no state; the last two only ping the database.
* Generated documentation, CI and the Dockerfile: no behaviour.
* The down migrations: nothing in the program runs them.
