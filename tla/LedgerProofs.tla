---------------------------- MODULE LedgerProofs ----------------------------
(***************************************************************************)
(* Theorems about Ledger, for any number of requests, accounts, attempts   *)
(* and connections and any faults.                                         *)
(*                                                                         *)
(* The argument is strict two-phase locking.  A request that is past its   *)
(* lock statements holds both rows it works on (Held); a commit changes no *)
(* balance but those of rows the committing transaction holds (Frame); so  *)
(* the balance another request has read and decided on cannot change under *)
(* it (Local), and what was affordable when it was tested still is when    *)
(* the updates are applied.                                                *)
(*                                                                         *)
(* From there: each request posts one pair of entries or none, debits      *)
(* equal credits, cached balances equal the entries, and the whole service *)
(* implements AtomicLedger.                                                *)
(***************************************************************************)
EXTENDS Ledger, FiniteSetTheorems, TLAPS

Posting == {"entry1", "entry2", "update1", "update2", "commit"}

\* The i-th row the operation works on exists and is locked by it.
Held(r, i) ==
  /\ LockOrder(req[r])[i] \in Accounts
  /\ lock[LockOrder(req[r])[i]] = r

\* The part of delta[r] contributed by the i-th leg.
Part(r, i, a) == IF a = Legs(req[r])[i].account THEN Legs(req[r])[i].change ELSE 0

\* What a request's progress says about its variables.
Validated(r) ==
  pc[r] \in TxSteps \cup {"backoff"} => ~InvalidAmount(req[r]) /\ ~SelfTransfer(req[r])
Locked(r) ==
  /\ pc[r] \in Decided \cup {"lock2"} => Held(r, 1)
  /\ pc[r] \in Decided => Held(r, 2)
SeenCurrent(r) ==
  Checked(req[r]) /\ (pc[r] \in Decided \/ (pc[r] = "lock2" /\ req[r].kind = "transfer"))
    => seen[r] = balance[req[r].account]
Funded(r) ==
  pc[r] \in Posting =>
    /\ Currency[req[r].account] = Currency[Peer(req[r])]
    /\ Checked(req[r]) => Covers(seen[r], req[r].amount)
Applied(r) ==
  /\ pc[r] \notin {"update2", "commit"} => delta[r] = NoDelta
  /\ pc[r] = "update2" => delta[r] = [a \in Accounts |-> Part(r, 1, a)]
  /\ pc[r] = "commit" => delta[r] = [a \in Accounts |-> Part(r, 1, a) + Part(r, 2, a)]
Fits(r) ==
  pc[r] \in {"update2", "commit"} => \A a \in Accounts : InRange(balance[a] + delta[r][a])

Local(r) ==
  /\ Validated(r) /\ Locked(r) /\ SeenCurrent(r) /\ Funded(r)
  /\ Applied(r) /\ Fits(r)

\* The inductive invariant.
IInv == TypeOK /\ NoOverdraft /\ \A r \in Requests : Local(r)

-----------------------------------------------------------------------------
(* The operators of the model. *)

\* An amount a stored balance covers still fits it after rounding: the funds
\* test on the raw amount is enough for the update by StringFixed(4).
LEMMA CoversRounded ==
  ASSUME NEW stored \in Int, NEW raw \in Int, Covers(stored, raw)
  PROVE  StringFixed4(raw) <= stored
BY DEF Covers, StringFixed4

\* StringFixed(4) of a positive amount is a natural number.
LEMMA RoundedNat ==
  ASSUME NEW raw \in Int
  PROVE  StringFixed4(raw) \in Int /\ (Positive(raw) => StringFixed4(raw) >= 0)
BY DEF Positive, StringFixed4

\* The parameters of a request are well formed.
LEMMA RequestType ==
  ASSUME TypeOK, NEW r \in Requests
  PROVE  req[r].kind \in Kinds /\ req[r].amount \in Int
BY LedgerAssumption DEF TypeOK

\* The two locked rows are the two rows the legs change.
LEMMA LockOrderOf ==
  ASSUME NEW q, q.kind \in Kinds
  PROVE  /\ q.kind = "transfer" => LockOrder(q)[1] = q.account /\ LockOrder(q)[2] = Peer(q)
         /\ q.kind # "transfer" => LockOrder(q)[1] = Peer(q) /\ LockOrder(q)[2] = q.account
BY DEF LockOrder, Peer, Kinds

LEMMA LegsOf ==
  ASSUME NEW q, q.kind \in Kinds, q.amount \in Int
  PROVE  /\ Legs(q)[1].account = q.account
         /\ Legs(q)[2].account = Peer(q)
         /\ Legs(q)[1].change =
              IF q.kind = "deposit" THEN StringFixed4(q.amount) ELSE -StringFixed4(q.amount)
         /\ Legs(q)[2].change = -Legs(q)[1].change
         /\ Legs(q)[1].change \in Int
         /\ Legs(q)[2].change \in Int
<1>1. StringFixed4(q.amount) \in Int
  BY RoundedNat
<1> QED
  BY <1>1 DEF Legs

\* A request that decides or posts holds the account it is about and the peer.
LEMMA HoldsBoth ==
  ASSUME TypeOK, NEW r \in Requests, Locked(r), pc[r] \in Decided
  PROVE  /\ req[r].account \in Accounts /\ lock[req[r].account] = r
         /\ Peer(req[r]) \in Accounts /\ lock[Peer(req[r])] = r
<1>1. req[r].kind \in Kinds
  BY RequestType
<1>2. Held(r, 1) /\ Held(r, 2)
  BY DEF Locked
<1> QED
  BY <1>1, <1>2, LockOrderOf DEF Held

-----------------------------------------------------------------------------
(* What a step of one request leaves alone. *)

\* The others' own variables, the rows they hold and the balances of these.
Frame(r) ==
  /\ req' = req
  /\ \A p \in Requests \ {r} :
       /\ pc'[p] = pc[p]
       /\ seen'[p] = seen[p]
       /\ delta'[p] = delta[p]
       /\ \A a \in Accounts : lock[a] = p => lock'[a] = p /\ balance'[a] = balance[a]

\* Under it every other request keeps its part of the invariant.
LEMMA FrameKeepsLocal ==
  ASSUME TypeOK, TypeOK', NEW r \in Requests, Frame(r),
         NEW p \in Requests \ {r}, Local(p)
  PROVE  Local(p)'
<1>1. /\ req'[p] = req[p] /\ pc'[p] = pc[p] /\ seen'[p] = seen[p] /\ delta'[p] = delta[p]
      /\ \A a \in Accounts : lock[a] = p => lock'[a] = p /\ balance'[a] = balance[a]
  BY DEF Frame
<1>2. Validated(p)' /\ Funded(p)' /\ Applied(p)'
  BY <1>1 DEF Local, Validated, Funded, Applied, Part
<1>3. Locked(p)'
  BY <1>1 DEF Local, Locked, Held
<1>4. ASSUME Checked(req[p]),
             pc[p] \in Decided \/ (pc[p] = "lock2" /\ req[p].kind = "transfer")
      PROVE  balance'[req[p].account] = balance[req[p].account]
  <2>1. CASE pc[p] \in Decided
    BY <1>1, <2>1, HoldsBoth DEF Local
  <2>2. CASE pc[p] = "lock2" /\ req[p].kind = "transfer"
    <3>1. Held(p, 1)
      BY <2>2 DEF Local, Locked
    <3>2. req[p].account \in Accounts /\ lock[req[p].account] = p
      BY <2>2, <3>1, RequestType, LockOrderOf DEF Held
    <3> QED
      BY <1>1, <3>2
  <2> QED
    BY <1>4, <2>1, <2>2
<1>5. SeenCurrent(p)'
  BY <1>1, <1>4 DEF Local, SeenCurrent
<1>6. Fits(p)'
  <2> SUFFICES ASSUME pc[p] \in {"update2", "commit"}, NEW a \in Accounts
               PROVE  InRange(balance'[a] + delta[p][a])
    BY <1>1 DEF Fits
  <2>1. CASE lock[a] = p
    BY <1>1, <2>1 DEF Local, Fits
  <2>2. CASE lock[a] # p
    <3>1. a # req[p].account /\ a # Peer(req[p])
      BY <2>2, HoldsBoth DEF Local, Decided
    <3>2. a # Legs(req[p])[1].account /\ a # Legs(req[p])[2].account
      BY <3>1, RequestType, LegsOf
    <3>3. delta[p][a] = 0
      BY <3>2 DEF Local, Applied, Part
    <3> QED
      BY <3>3 DEF TypeOK, InRange
  <2> QED
    BY <2>1, <2>2
<1> QED
  BY <1>2, <1>3, <1>5, <1>6 DEF Local

\* The end of a transaction frees the rows of one request only.
LEMMA RollbackFrame ==
  ASSUME TypeOK, NEW r \in Requests, Rollback(r), NEW next \in {"done", "backoff"},
         Goto(r, next), req' = req
  PROVE  Frame(r)
BY DEF TypeOK, Rollback, EndTx, Goto, Frame

\* A request whose transaction is rolled back satisfies its part trivially.
LEMMA RollbackStep ==
  ASSUME IInv, NEW r \in Requests, pc[r] \in TxSteps \cup {"begin", "backoff"},
         ~InvalidAmount(req[r]) /\ ~SelfTransfer(req[r]),
         Rollback(r), NEW next \in {"done", "backoff"}, Goto(r, next),
         req' = req, attempt' \in [Requests -> 0 .. MaxAttempts - 1],
         answer' \in [Requests -> Answers]
  PROVE  IInv'
<1>1. TypeOK'
  <2>1. lock' \in [Accounts -> Requests \cup {None}]
    BY DEF IInv, TypeOK, Rollback, EndTx
  <2>2. pc' \in [Requests -> Steps]
    BY DEF IInv, TypeOK, Goto, Steps
  <2>3. seen' \in [Requests -> Int] /\ stale' \in [Requests -> SUBSET Accounts]
    BY DEF IInv, TypeOK, Rollback, EndTx
  <2>4. rows' \in [Requests -> SUBSET EntryRows]
    BY DEF IInv, TypeOK, Rollback, EndTx
  <2>5. delta' \in [Requests -> [Accounts -> Int]]
    BY DEF IInv, TypeOK, Rollback, EndTx, NoDelta
  <2> QED
    BY <2>1, <2>2, <2>3, <2>4, <2>5 DEF IInv, TypeOK, Rollback
<1>2. NoOverdraft'
  BY DEF IInv, NoOverdraft, Rollback
<1>3. Local(r)'
  BY DEF IInv, TypeOK, Rollback, EndTx, Goto, Local, Validated, Locked, SeenCurrent,
         Funded, Applied, Fits, Decided, Posting, NoDelta
<1>4. Frame(r)
  BY RollbackFrame DEF IInv
<1> QED
  BY <1>1, <1>2, <1>3, <1>4, FrameKeepsLocal DEF IInv

-----------------------------------------------------------------------------
(* One lemma per kind of step. *)

\* Steps that only move a request on: nothing is read, locked or changed.
LEMMA MoveStep ==
  ASSUME IInv, NEW r \in Requests,
         RejectInput(r) \/ BeginTx(r) \/ CheckPasses(r) \/ Retry(r)
  PROVE  IInv'
<1>1. TypeOK'
  BY DEF IInv, TypeOK, RejectInput, BeginTx, CheckPasses, Retry, Goto, Answer, Steps,
         TxSteps, Answers, Errors, ledgerVars, txVars
<1>2. NoOverdraft'
  BY DEF IInv, NoOverdraft, RejectInput, BeginTx, CheckPasses, Retry, ledgerVars
<1>3. Local(r)'
  <2>1. CASE RejectInput(r)
    BY <2>1 DEF IInv, TypeOK, RejectInput, Goto, Answer, ledgerVars, txVars, Local,
           Validated, Locked, SeenCurrent, Funded, Applied, Fits, Decided, Posting, TxSteps
  <2>2. CASE BeginTx(r)
    BY <2>2 DEF IInv, TypeOK, BeginTx, Goto, ledgerVars, txVars, Local,
           Validated, Locked, SeenCurrent, Funded, Applied, Fits, Decided, Posting, TxSteps
  <2>3. CASE CheckPasses(r)
    BY <2>3 DEF IInv, TypeOK, CheckPasses, Goto, ledgerVars, txVars, Local,
           Validated, Locked, Held, SeenCurrent, Funded, Applied, Fits, Decided, Posting, TxSteps
  <2>4. CASE Retry(r)
    BY <2>4 DEF IInv, TypeOK, Retry, Goto, ledgerVars, txVars, Local,
           Validated, Locked, SeenCurrent, Funded, Applied, Fits, Decided, Posting, TxSteps
  <2> QED
    BY <2>1, <2>2, <2>3, <2>4
<1>4. Frame(r)
  BY DEF IInv, TypeOK, Frame, RejectInput, BeginTx, CheckPasses, Retry, Goto, Answer,
         ledgerVars, txVars
<1> QED
  BY <1>1, <1>2, <1>3, <1>4, FrameKeepsLocal DEF IInv

\* A row lock is taken when it is free or already the request's own.
LEMMA LockStep ==
  ASSUME IInv, NEW r \in Requests,
         LockRow(r, 1, "lock1", "lock2") \/ LockRow(r, 2, "lock2", "check")
  PROVE  IInv'
<1> DEFINE q == req[r]
<1>1. PICK i \in {1, 2} : LockRow(r, i, IF i = 1 THEN "lock1" ELSE "lock2",
                                      IF i = 1 THEN "lock2" ELSE "check")
  OBVIOUS
<1> DEFINE x == LockOrder(q)[i]
           here == IF i = 1 THEN "lock1" ELSE "lock2"
           next == IF i = 1 THEN "lock2" ELSE "check"
<1>2. /\ pc[r] = here /\ pc' = [pc EXCEPT ![r] = next]
      /\ x \in Accounts /\ lock[x] \in {None, r} /\ lock' = [lock EXCEPT ![x] = r]
      /\ seen' = IF Checked(q) /\ x = q.account
                   THEN [seen EXCEPT ![r] = balance[x]] ELSE seen
      /\ UNCHANGED <<balance, entries, req, attempt, answer, stale, rows, delta>>
  BY <1>1 DEF LockRow, Goto
<1>3. TypeOK'
  BY <1>2 DEF IInv, TypeOK, Steps, TxSteps
<1>4. NoOverdraft'
  BY <1>2 DEF IInv, NoOverdraft
<1>5. Local(r)'
  <2>1. q.kind \in Kinds
    BY RequestType DEF IInv
  <2>2. Validated(r)' /\ Funded(r)' /\ Applied(r)' /\ Fits(r)'
    BY <1>2 DEF IInv, TypeOK, Local, Validated, Funded, Applied, Fits, Posting, TxSteps
  <2>3. Locked(r)'
    BY <1>2 DEF IInv, TypeOK, Local, Locked, Held, Decided
  <2>4. SeenCurrent(r)'
    BY <1>2, <2>1, LockOrderOf DEF IInv, TypeOK, Local, SeenCurrent, Decided, Peer, Checked, Kinds
  <2> QED
    BY <2>2, <2>3, <2>4 DEF Local
<1>6. Frame(r)
  BY <1>2, LedgerAssumption DEF IInv, TypeOK, Frame
<1> QED
  BY <1>3, <1>4, <1>5, <1>6, FrameKeepsLocal DEF IInv

\* The two entries of a request are rows of the table.
LEMMA EntryType ==
  ASSUME TypeOK, NEW r \in Requests, Locked(r), pc[r] \in Decided,
         NEW i \in {1, 2}, InRange(Legs(req[r])[i].change)
  PROVE  EntryOf(r, i) \in EntryRows
<1>1. Legs(req[r])[i].account \in Accounts
  BY HoldsBoth, RequestType, LegsOf
<1>2. Legs(req[r])[i].change \in Int
  BY RequestType, LegsOf
<1>3. <<r, attempt[r]>> \in TxIds
  BY DEF TypeOK, TxIds
<1> QED
  BY <1>1, <1>2, <1>3, NumericMaxAssumption DEF EntryOf, EntryRows, InRange

LEMMA EntryStep ==
  ASSUME IInv, NEW r \in Requests,
         CreateEntry(r, 1, "entry1", "entry2") \/ CreateEntry(r, 2, "entry2", "update1")
  PROVE  IInv'
<1>1. PICK i \in {1, 2} : CreateEntry(r, i, IF i = 1 THEN "entry1" ELSE "entry2",
                                          IF i = 1 THEN "entry2" ELSE "update1")
  OBVIOUS
<1>2. /\ pc[r] \in Posting /\ pc[r] \notin {"update2", "commit"}
      /\ InRange(Legs(req[r])[i].change)
      /\ rows' = [rows EXCEPT ![r] = @ \cup {EntryOf(r, i)}]
      /\ \E next \in {"entry2", "update1"} : pc' = [pc EXCEPT ![r] = next]
      /\ UNCHANGED <<balance, entries, lock, req, attempt, answer, stale, seen, delta>>
  BY <1>1 DEF CreateEntry, Goto, Posting, ledgerVars
<1>3. EntryOf(r, i) \in EntryRows
  BY <1>2, EntryType DEF IInv, Local, Posting, Decided
<1>4. TypeOK'
  BY <1>2, <1>3 DEF IInv, TypeOK, Steps, TxSteps
<1>5. NoOverdraft'
  BY <1>2 DEF IInv, NoOverdraft
<1>6. Local(r)'
  BY <1>2 DEF IInv, TypeOK, Local, Validated, Locked, Held, SeenCurrent, Funded, Applied,
         Fits, Decided, Posting, TxSteps
<1>7. Frame(r)
  BY <1>2 DEF IInv, TypeOK, Frame
<1> QED
  BY <1>4, <1>5, <1>6, <1>7, FrameKeepsLocal DEF IInv

\* An update adds one leg, a change c of account x, to what the transaction
\* does to the balances.
LEMMA UpdateLeg ==
  ASSUME IInv, NEW r \in Requests, NEW i \in {1, 2}, NEW x \in Accounts, NEW c \in Int,
         x = Legs(req[r])[i].account, c = Legs(req[r])[i].change,
         pc[r] = IF i = 1 THEN "update1" ELSE "update2",
         pc' = [pc EXCEPT ![r] = IF i = 1 THEN "update2" ELSE "commit"],
         InRange(balance[x] + delta[r][x] + c),
         delta' = [delta EXCEPT ![r][x] = @ + c],
         UNCHANGED <<balance, entries, lock, req, attempt, answer, stale, seen, rows>>
  PROVE  IInv'
<1>1. /\ delta[r] \in [Accounts -> Int] /\ delta'[r] \in [Accounts -> Int]
      /\ \A a \in Accounts : delta'[r][a] = delta[r][a] + (IF a = x THEN c ELSE 0)
  BY DEF IInv, TypeOK
<1>2. TypeOK'
  <2>1. delta' \in [Requests -> [Accounts -> Int]]
    BY <1>1 DEF IInv, TypeOK
  <2> QED
    BY <2>1 DEF IInv, TypeOK, Steps, TxSteps
<1>3. NoOverdraft'
  BY DEF IInv, NoOverdraft
<1>4. Applied(r)'
  <2>1. \A a \in Accounts : Part(r, i, a) = IF a = x THEN c ELSE 0
    BY DEF Part
  <2>2. CASE i = 1
    <3>1. \A a \in Accounts : delta[r][a] = 0
      BY <2>2 DEF IInv, Local, Applied, NoDelta
    <3>2. \A a \in Accounts : delta'[r][a] = Part(r, 1, a)
      BY <1>1, <2>1, <2>2, <3>1
    <3>3. delta'[r] = [a \in Accounts |-> Part(r, 1, a)]
      BY <1>1, <3>2
    <3> QED
      BY <2>2, <3>3 DEF IInv, TypeOK, Applied, Part
  <2>3. CASE i = 2
    <3>1. delta[r] = [a \in Accounts |-> Part(r, 1, a)]
      <4>1. Applied(r)
        BY DEF IInv, Local
      <4>2. pc[r] = "update2"
        BY <2>3
      <4> QED
        BY <4>1, <4>2, Zenon DEF Applied
    <3>2. \A a \in Accounts : delta'[r][a] = Part(r, 1, a) + Part(r, 2, a)
      BY <1>1, <2>1, <2>3, <3>1
    <3>3. delta'[r] = [a \in Accounts |-> Part(r, 1, a) + Part(r, 2, a)]
      BY <1>1, <3>2
    <3> QED
      BY <2>3, <3>3 DEF IInv, TypeOK, Applied, Part
  <2> QED
    BY <2>2, <2>3
<1>5. Fits(r)'
  <2> SUFFICES ASSUME NEW a \in Accounts PROVE InRange(balance[a] + delta'[r][a])
    BY DEF Fits
  <2>1. balance[a] \in Int /\ InRange(balance[a]) /\ delta[r][a] \in Int
    BY <1>1 DEF IInv, TypeOK, InRange
  <2>2. CASE a = x
    BY <1>1, <2>1, <2>2 DEF InRange
  <2>3. CASE a # x /\ i = 1
    <3>1. delta[r][a] = 0
      BY <2>3 DEF IInv, Local, Applied, NoDelta
    <3> QED
      BY <1>1, <2>1, <2>3, <3>1
  <2>4. CASE a # x /\ i = 2
    <3>1. InRange(balance[a] + delta[r][a])
      BY <2>4 DEF IInv, Local, Fits
    <3> QED
      BY <1>1, <2>1, <2>4, <3>1
  <2> QED
    BY <2>2, <2>3, <2>4
<1>6. Local(r)'
  BY <1>4, <1>5 DEF IInv, TypeOK, Local, Validated, Locked, Held, SeenCurrent, Funded,
         Decided, Posting, TxSteps
<1>7. Frame(r)
  BY DEF IInv, TypeOK, Frame
<1> QED
  BY <1>2, <1>3, <1>6, <1>7, FrameKeepsLocal DEF IInv

LEMMA UpdateStep ==
  ASSUME IInv, NEW r \in Requests,
         UpdateBalance(r, 1, "update1", "update2") \/ UpdateBalance(r, 2, "update2", "commit")
  PROVE  IInv'
<1>1. PICK i \in {1, 2} : UpdateBalance(r, i, IF i = 1 THEN "update1" ELSE "update2",
                                            IF i = 1 THEN "update2" ELSE "commit")
  OBVIOUS
<1>2. pc[r] \in Decided
  BY <1>1 DEF UpdateBalance, Decided
<1>3. /\ Legs(req[r])[i].account \in Accounts
      /\ Legs(req[r])[i].change \in Int
  BY <1>2, HoldsBoth, RequestType, LegsOf DEF IInv, Local
<1>4. PICK x \in Accounts, c \in Int :
        x = Legs(req[r])[i].account /\ c = Legs(req[r])[i].change
  BY <1>3
<1> QED
  BY <1>1, <1>4, UpdateLeg DEF UpdateBalance, Goto, ledgerVars

\* What a commit adds to the balance of a user's account leaves it covered.
LEMMA CommitCovered ==
  ASSUME IInv, NEW r \in Requests, pc[r] = "commit", NEW a \in Accounts \ {Settlement}
  PROVE  balance[a] + delta[r][a] >= 0
<1> DEFINE q == req[r]
           m == StringFixed4(q.amount)
<1>1. /\ q.kind \in Kinds /\ q.amount \in Int /\ Positive(q.amount) /\ ~SelfTransfer(q)
      /\ m \in Int /\ m >= 0
  BY RequestType, RoundedNat DEF IInv, Local, Validated, InvalidAmount, TxSteps
<1>2. delta[r][a] = Part(r, 1, a) + Part(r, 2, a)
  BY DEF IInv, Local, Applied
<1>3. balance[a] \in Int /\ balance[a] >= 0
  BY DEF IInv, TypeOK, NoOverdraft
<1>4. /\ Part(r, 1, a) = IF a = q.account THEN Legs(q)[1].change ELSE 0
      /\ Part(r, 2, a) = IF a = Peer(q) THEN -Legs(q)[1].change ELSE 0
      /\ Legs(q)[1].change = IF q.kind = "deposit" THEN m ELSE -m
  BY <1>1, LegsOf DEF Part
<1>5. CASE q.kind = "deposit"
  BY <1>1, <1>2, <1>3, <1>4, <1>5 DEF Peer
<1>6. CASE q.kind # "deposit" /\ a = q.account
  <2>1. a # Peer(q)
    BY <1>1, <1>6 DEF Peer, SelfTransfer, Kinds
  <2>2. seen[r] = balance[a] /\ Covers(seen[r], q.amount)
    BY <1>6 DEF IInv, Local, SeenCurrent, Funded, Checked, Decided, Posting
  <2>3. m <= balance[a]
    BY <1>1, <1>3, <2>2, CoversRounded
  <2> QED
    BY <1>1, <1>2, <1>3, <1>4, <1>6, <2>1, <2>3
<1>7. CASE q.kind # "deposit" /\ a # q.account
  BY <1>1, <1>2, <1>3, <1>4, <1>7
<1> QED
  BY <1>5, <1>6, <1>7

\* A commit changes only the rows its transaction holds.
LEMMA CommitFrame ==
  ASSUME IInv, NEW r \in Requests, CommitTx(r), Goto(r, "done")
  PROVE  Frame(r)
<1>1. ASSUME NEW p \in Requests \ {r}, NEW a \in Accounts, lock[a] = p
      PROVE  lock'[a] = p /\ balance'[a] = balance[a]
  <2>1. a # req[r].account /\ a # Peer(req[r])
    BY <1>1, HoldsBoth DEF IInv, Local, CommitTx, Decided
  <2>2. a # Legs(req[r])[1].account /\ a # Legs(req[r])[2].account
    BY <2>1, RequestType, LegsOf DEF IInv
  <2>3. delta[r] = [y \in Accounts |-> Part(r, 1, y) + Part(r, 2, y)]
    BY DEF IInv, Local, Applied, CommitTx
  <2>4. delta[r][a] = 0
    BY <2>2, <2>3 DEF Part
  <2> QED
    BY <1>1, <2>4 DEF IInv, TypeOK, CommitTx, EndTx
<1> QED
  BY <1>1 DEF IInv, TypeOK, CommitTx, EndTx, Goto, Frame

LEMMA CommitStep ==
  ASSUME IInv, NEW r \in Requests, CommitTx(r), NEW ans \in {"ok", "unknown"}, Answer(r, ans)
  PROVE  IInv'
<1>1. TypeOK'
  <2>1. balance' \in [Accounts -> -NumericMax .. NumericMax]
    <3>1. \A a \in Accounts : InRange(balance[a] + delta[r][a])
      BY DEF IInv, Local, Fits, CommitTx
    <3>2. \A a \in Accounts : balance[a] + delta[r][a] \in Int
      BY DEF IInv, TypeOK
    <3> QED
      BY <3>1, <3>2, NumericMaxAssumption DEF CommitTx, InRange
  <2>2. entries' \in SUBSET EntryRows
    BY DEF IInv, TypeOK, CommitTx
  <2>3. lock' \in [Accounts -> Requests \cup {None}]
    BY DEF IInv, TypeOK, CommitTx, EndTx
  <2>4. pc' \in [Requests -> Steps] /\ answer' \in [Requests -> Answers]
    BY DEF IInv, TypeOK, Answer, Goto, Steps, Answers
  <2>5. stale' \in [Requests -> SUBSET Accounts]
    <3>1. Changed(r) \subseteq Accounts
      BY HoldsBoth, RequestType, LegsOf DEF IInv, Local, Changed, CommitTx, Decided
    <3> QED
      BY <3>1 DEF IInv, TypeOK, CommitTx
  <2>6. seen' \in [Requests -> Int] /\ rows' \in [Requests -> SUBSET EntryRows]
    BY DEF IInv, TypeOK, CommitTx, EndTx
  <2>7. delta' \in [Requests -> [Accounts -> Int]]
    BY DEF IInv, TypeOK, CommitTx, EndTx, NoDelta
  <2> QED
    BY <2>1, <2>2, <2>3, <2>4, <2>5, <2>6, <2>7 DEF IInv, TypeOK, CommitTx
<1>2. NoOverdraft'
  BY CommitCovered DEF NoOverdraft, CommitTx
<1>3. Local(r)'
  BY DEF IInv, TypeOK, CommitTx, EndTx, Answer, Goto, Local, Validated, Locked, SeenCurrent,
         Funded, Applied, Fits, Decided, Posting, TxSteps, NoDelta
<1>4. Frame(r)
  BY CommitFrame DEF Answer
<1> QED
  BY <1>1, <1>2, <1>3, <1>4, FrameKeepsLocal DEF IInv

-----------------------------------------------------------------------------
(* The invariant. *)

\* The sum of a column over finitely many rows is a natural number.
LEMMA TotalNat ==
  ASSUME NEW S, IsFiniteSet(S), NEW col
  PROVE  Total(S, col) \in Nat
<1>1. IsFiniteSet(1 .. NumericMax)
  BY FS_Interval, NumericMaxAssumption
<1>2. IsFiniteSet(S \X (1 .. NumericMax))
  BY <1>1, FS_Product
<1>3. IsFiniteSet(Units(S, col))
  BY <1>2, FS_Subset DEF Units
<1> QED
  BY <1>3, FS_CardinalityType DEF Total

LEMMA BalanceInt ==
  ASSUME NEW S, IsFiniteSet(S), NEW a
  PROVE  GetAccountBalance(S, a) \in Int
<1>1. IsFiniteSet(OfAccount(S, a))
  BY FS_Subset DEF OfAccount
<1> QED
  BY <1>1, TotalNat DEF GetAccountBalance

LEMMA InitIInv == Init => IInv
<1> SUFFICES ASSUME Init PROVE IInv
  OBVIOUS
<1>1. TypeOK
  <2>1. balance \in [Accounts -> -NumericMax .. NumericMax]
    BY BalanceInt, OpeningAssumption, NumericMaxAssumption DEF Init, InRange
  <2>2. attempt \in [Requests -> 0 .. MaxAttempts - 1]
    BY LedgerAssumption DEF Init
  <2>3. delta \in [Requests -> [Accounts -> Int]]
    BY DEF Init, NoDelta
  <2> QED
    BY <2>1, <2>2, <2>3, OpeningAssumption DEF Init, TypeOK, Steps, Answers
<1>2. NoOverdraft
  BY OpeningAssumption DEF Init, NoOverdraft
<1>3. ASSUME NEW r \in Requests PROVE Local(r)
  BY DEF Init, Local, Validated, Locked, SeenCurrent, Funded, Applied, Fits,
         Decided, Posting, TxSteps
<1> QED
  BY <1>1, <1>2, <1>3 DEF IInv

\* A statement or COMMIT that fails ends in a rollback.
LEMMA FailStep ==
  ASSUME IInv, NEW r \in Requests,
         \/ RowMissing(r, 1, "lock1") \/ RowMissing(r, 2, "lock2")
         \/ RowChanged(r, 1, "lock1") \/ RowChanged(r, 2, "lock2")
         \/ CheckFails(r) \/ EntryRejected(r)
         \/ UpdateRejected(r, 1, "update1") \/ UpdateRejected(r, 2, "update2")
         \/ DeadlockVictim(r) \/ SerializationFailure(r) \/ ConnectionLost(r)
  PROVE  IInv'
<1>1. ASSUME NEW err \in Errors, Fail(r, err),
             pc[r] \in TxSteps \cup {"begin", "backoff"},
             ~InvalidAmount(req[r]) /\ ~SelfTransfer(req[r])
      PROVE  IInv'
  <2>1. Rollback(r) /\ Goto(r, "done") /\ req' = req /\ attempt' = attempt
    BY <1>1 DEF Fail, Answer
  <2>2. answer' \in [Requests -> Answers] /\ attempt' \in [Requests -> 0 .. MaxAttempts - 1]
    BY <1>1, <2>1 DEF IInv, TypeOK, Fail, Answer, Answers
  <2> QED
    BY <1>1, <2>1, <2>2, RollbackStep
<1>2. ASSUME Conflict(r), pc[r] \in TxSteps
      PROVE  IInv'
  <2>1. Rollback(r) /\ req' = req /\ \E next \in {"done", "backoff"} : Goto(r, next)
    BY <1>2 DEF Conflict, Answer
  <2>2. answer' \in [Requests -> Answers] /\ attempt' \in [Requests -> 0 .. MaxAttempts - 1]
    <3>1. CASE attempt[r] < MaxAttempts - 1 /\ attempt' = [attempt EXCEPT ![r] = @ + 1]
                 /\ UNCHANGED answer
      BY <3>1, LedgerAssumption DEF IInv, TypeOK
    <3>2. CASE Answer(r, "exhausted") /\ UNCHANGED attempt
      BY <3>2 DEF IInv, TypeOK, Answer, Answers, Errors
    <3> QED
      BY <1>2, <3>1, <3>2 DEF Conflict
  <2>3. ~InvalidAmount(req[r]) /\ ~SelfTransfer(req[r])
    BY <1>2 DEF IInv, Local, Validated
  <2> QED
    BY <1>2, <2>1, <2>2, <2>3, RollbackStep
<1>3. pc[r] \in TxSteps => ~InvalidAmount(req[r]) /\ ~SelfTransfer(req[r])
  BY DEF IInv, Local, Validated
<1>4. CASE RowMissing(r, 1, "lock1") \/ RowMissing(r, 2, "lock2")
  BY <1>1, <1>3, <1>4 DEF RowMissing, TxSteps, Errors
<1>5. CASE RowChanged(r, 1, "lock1") \/ RowChanged(r, 2, "lock2")
  BY <1>2, <1>5 DEF RowChanged, TxSteps
<1>6. CASE CheckFails(r)
  BY <1>1, <1>3, <1>6 DEF CheckFails, TxSteps, Errors
<1>7. CASE EntryRejected(r)
  BY <1>1, <1>3, <1>7 DEF EntryRejected, TxSteps, Errors
<1>8. CASE UpdateRejected(r, 1, "update1") \/ UpdateRejected(r, 2, "update2")
  BY <1>1, <1>3, <1>8 DEF UpdateRejected, TxSteps, Errors
<1>9. CASE DeadlockVictim(r)
  <2>1. pc[r] \in TxSteps
    BY <1>9 DEF DeadlockVictim, Deadlocked, Waiting, TxSteps
  <2> QED
    BY <1>1, <1>3, <1>9, <2>1 DEF DeadlockVictim, Errors
<1>10. CASE SerializationFailure(r)
  BY <1>2, <1>10 DEF SerializationFailure
<1>11. CASE ConnectionLost(r)
  BY <1>1, <1>11 DEF ConnectionLost, Errors
<1> QED
  BY <1>4, <1>5, <1>6, <1>7, <1>8, <1>9, <1>10, <1>11

LEMMA NextIInv == IInv /\ [Next]_vars => IInv'
<1> SUFFICES ASSUME IInv, [Next]_vars PROVE IInv'
  OBVIOUS
<1>1. ASSUME NEW r \in Requests, Step(r) PROVE IInv'
  <2>1. CASE RejectInput(r) \/ BeginTx(r) \/ CheckPasses(r) \/ Retry(r)
    BY <2>1, MoveStep
  <2>2. CASE LockRow(r, 1, "lock1", "lock2") \/ LockRow(r, 2, "lock2", "check")
    BY <2>2, LockStep
  <2>3. CASE CreateEntry(r, 1, "entry1", "entry2") \/ CreateEntry(r, 2, "entry2", "update1")
    BY <2>3, EntryStep
  <2>4. CASE UpdateBalance(r, 1, "update1", "update2") \/ UpdateBalance(r, 2, "update2", "commit")
    BY <2>4, UpdateStep
  <2>5. CASE Commit(r)
    BY <2>5, CommitStep DEF Commit
  <2>6. CASE \/ RowMissing(r, 1, "lock1") \/ RowMissing(r, 2, "lock2")
             \/ RowChanged(r, 1, "lock1") \/ RowChanged(r, 2, "lock2")
             \/ CheckFails(r) \/ EntryRejected(r)
             \/ UpdateRejected(r, 1, "update1") \/ UpdateRejected(r, 2, "update2")
             \/ DeadlockVictim(r)
    BY <2>6, FailStep
  <2> QED
    BY <1>1, <2>1, <2>2, <2>3, <2>4, <2>5, <2>6 DEF Step
<1>2. ASSUME NEW r \in Requests, Fault(r) PROVE IInv'
  <2>1. CASE SerializationFailure(r) \/ ConnectionLost(r)
    BY <2>1, FailStep
  <2>2. CASE CommitUnacknowledged(r)
    BY <2>2, CommitStep DEF CommitUnacknowledged
  <2> QED
    BY <1>2, <2>1, <2>2 DEF Fault
<1>3. CASE UNCHANGED vars
  BY <1>3 DEF vars, IInv, TypeOK, NoOverdraft, Local, Validated, Locked, Held, SeenCurrent,
              Funded, Applied, Part, Fits
<1> QED
  BY <1>1, <1>2, <1>3 DEF Next, Idle

THEOREM InvariantHolds == Spec => []IInv
BY InitIInv, NextIInv, PTL DEF Spec

-----------------------------------------------------------------------------
(* Theorems. *)

\* Every variable keeps its type; the balances of ExecTx's transactions stay
\* within NUMERIC(19,4) and attempts below MaxAttempts.
THEOREM TypeCorrect == Spec => []TypeOK
<1>1. IInv => TypeOK
  BY DEF IInv
<1> QED
  BY <1>1, InvariantHolds, PTL

\* No interleaving of Deposit, Withdraw and Transfer, no retry, fault or
\* rounding overdraws a user's account.
THEOREM NeverOverdrawn == Spec => []NoOverdraft
<1>1. IInv => NoOverdraft
  BY DEF IInv
<1> QED
  BY <1>1, InvariantHolds, PTL

\* The balance GetAccountForUpdate returned stays current until the
\* transaction that decided on it ends.
THEOREM DecisionsCurrent == Spec => []DecisionCurrent
<1>1. IInv => DecisionCurrent
  BY DEF IInv, Local, SeenCurrent, DecisionCurrent
<1> QED
  BY <1>1, InvariantHolds, PTL

-----------------------------------------------------------------------------
(* Deadlocks. *)

\* Rows are locked only by requests that have been granted one: a request
\* that waits for its first row holds none.
LInv == \A a \in Accounts : lock[a] \in Requests => pc[lock[a]] \in Decided \cup {"lock2"}

LEMMA InitLInv == Init => LInv
BY LedgerAssumption DEF Init, LInv

\* A rollback or a commit leaves r no row.
LEMMA EndTxLInv ==
  ASSUME IInv, LInv, NEW r \in Requests, EndTx(r), NEW next, Goto(r, next)
  PROVE  LInv'
<1> SUFFICES ASSUME NEW a \in Accounts, lock'[a] \in Requests
             PROVE  pc'[lock'[a]] \in Decided \cup {"lock2"}
  BY DEF LInv
<1>1. lock'[a] = lock[a] /\ lock[a] # r
  BY LedgerAssumption DEF EndTx
<1> QED
  BY <1>1 DEF IInv, TypeOK, LInv, Goto

\* A request that moves on within its transaction keeps its rows.
LEMMA AdvanceLInv ==
  ASSUME IInv, LInv, NEW r \in Requests, lock' = lock, NEW next, Goto(r, next),
         pc[r] \notin Decided \cup {"lock2"} \/ next \in Decided \cup {"lock2"}
  PROVE  LInv'
BY DEF IInv, TypeOK, LInv, Goto

LEMMA NextLInv == IInv /\ LInv /\ [Next]_vars => LInv'
<1> SUFFICES ASSUME IInv, LInv, [Next]_vars PROVE LInv'
  OBVIOUS
<1>1. ASSUME NEW r \in Requests, Step(r) \/ Fault(r) PROVE LInv'
  <2>1. CASE RejectInput(r) \/ BeginTx(r) \/ Retry(r)
    <3>1. /\ pc[r] \in {"begin", "backoff"} /\ lock' = lock
          /\ \E next \in Steps : Goto(r, next)
      BY <2>1 DEF RejectInput, BeginTx, Retry, Answer, ledgerVars, Steps, TxSteps
    <3> QED
      BY <3>1, AdvanceLInv DEF Decided
  <2>2. CASE \/ CheckPasses(r)
             \/ CreateEntry(r, 1, "entry1", "entry2") \/ CreateEntry(r, 2, "entry2", "update1")
             \/ UpdateBalance(r, 1, "update1", "update2")
             \/ UpdateBalance(r, 2, "update2", "commit")
    <3>1. lock' = lock /\ \E next \in Decided : Goto(r, next)
      BY <2>2 DEF CheckPasses, CreateEntry, UpdateBalance, ledgerVars, Decided
    <3> QED
      BY <3>1, AdvanceLInv
  <2>3. CASE LockRow(r, 1, "lock1", "lock2") \/ LockRow(r, 2, "lock2", "check")
    <3>1. PICK x \in Accounts :
            lock' = [lock EXCEPT ![x] = r] /\ \E next \in {"lock2", "check"} : Goto(r, next)
      BY <2>3 DEF LockRow
    <3> QED
      BY <3>1 DEF IInv, TypeOK, LInv, Goto, Decided
  <2>4. CASE Commit(r) \/ CommitUnacknowledged(r)
    BY <2>4, EndTxLInv DEF Commit, CommitUnacknowledged, CommitTx, Answer
  <2>5. CASE \/ RowMissing(r, 1, "lock1") \/ RowMissing(r, 2, "lock2")
             \/ CheckFails(r) \/ EntryRejected(r) \/ ConnectionLost(r)
             \/ UpdateRejected(r, 1, "update1") \/ UpdateRejected(r, 2, "update2")
             \/ DeadlockVictim(r)
    <3>1. EndTx(r) /\ Goto(r, "done")
      BY <2>5 DEF RowMissing, CheckFails, EntryRejected, ConnectionLost, UpdateRejected,
                  DeadlockVictim, Fail, Rollback, Answer
    <3> QED
      BY <3>1, EndTxLInv
  <2>6. CASE \/ RowChanged(r, 1, "lock1") \/ RowChanged(r, 2, "lock2")
             \/ SerializationFailure(r)
    <3>1. EndTx(r) /\ \E next \in {"backoff", "done"} : Goto(r, next)
      BY <2>6 DEF RowChanged, SerializationFailure, Conflict, Rollback, Answer
    <3> QED
      BY <3>1, EndTxLInv
  <2> QED
    BY <1>1, <2>1, <2>2, <2>3, <2>4, <2>5, <2>6 DEF Step, Fault
<1>2. CASE UNCHANGED vars
  BY <1>2 DEF vars, LInv
<1> QED
  BY <1>1, <1>2 DEF Next, Idle

\* A deposit or withdrawal that waits for its second row holds the settlement
\* row; whoever it waits for is in the same place, and one row has one holder.
LEMMA NoCycleWithoutTransfer == IInv /\ LInv => DeadlockNeedsTransfer
<1> SUFFICES ASSUME IInv, LInv, NEW S \in SUBSET InUse, Deadlocked(S),
                    \A r \in S : req[r].kind # "transfer"
             PROVE  FALSE
  BY DEF DeadlockNeedsTransfer
<1>1. S \subseteq Requests /\ S # {} /\ \A r \in S : Waiting(r)
  BY DEF Deadlocked, InUse
<1>2. \A r \in S : WaitsFor(r) \in S /\ WaitsFor(r) # r
  <2>1. \A r \in S : WaitsFor(r) \in S
    BY DEF Deadlocked
  <2> QED
    BY <1>1, <2>1 DEF Waiting, WaitsFor
\* Whoever is waited for stands at its second lock.
<1>3. ASSUME NEW r \in S PROVE pc[WaitsFor(r)] = "lock2"
  <2>1. Wanted(r) \in Accounts
    BY <1>1 DEF Waiting
  <2>2. pc[WaitsFor(r)] \in Decided \cup {"lock2"}
    BY <1>1, <1>2, <2>1 DEF LInv, WaitsFor
  <2>3. pc[WaitsFor(r)] \in {"lock1", "lock2"}
    BY <1>1, <1>2 DEF Waiting
  <2> QED
    BY <2>2, <2>3 DEF Decided
\* There it holds the settlement row.
<1>4. ASSUME NEW r \in S, pc[r] = "lock2" PROVE lock[Settlement] = r
  <2>1. Held(r, 1) /\ req[r].kind # "transfer"
    BY <1>1, <1>4 DEF IInv, Local, Locked
  <2> QED
    BY <2>1 DEF Held, LockOrder
<1>5. PICK r \in S : TRUE
  BY <1>1
<1>6. WaitsFor(r) \in S /\ WaitsFor(WaitsFor(r)) \in S /\ WaitsFor(WaitsFor(r)) # WaitsFor(r)
  BY <1>2
<1>7. /\ lock[Settlement] = WaitsFor(r)
      /\ lock[Settlement] = WaitsFor(WaitsFor(r))
  BY <1>3, <1>4, <1>6
<1> QED
  BY <1>6, <1>7

\* Deposits and withdrawals lock the settlement row first: PostgreSQL never
\* finds a deadlock among them alone.
THEOREM DeadlocksNeedTransfers == Spec => []DeadlockNeedsTransfer
BY InitLInv, NextLInv, InvariantHolds, NoCycleWithoutTransfer, PTL DEF Spec

-----------------------------------------------------------------------------
(* The books.  The entries an open transaction has inserted are known from  *)
(* its place (Inserted); they become visible only at the commit, together   *)
(* with the change of the balances, which is made of the same two legs.     *)

\* The rows a request has inserted at each step, none of them empty.
Inserted(r) ==
  /\ pc[r] \notin {"entry2", "update1", "update2", "commit"} => rows[r] = {}
  /\ pc[r] = "entry2" => rows[r] = {EntryOf(r, 1)}
  /\ pc[r] \in {"update1", "update2", "commit"} => rows[r] = {EntryOf(r, 1), EntryOf(r, 2)}
  /\ pc[r] \in {"entry2", "update1", "update2", "commit"} =>
       Legs(req[r])[1].change # 0 /\ InRange(Legs(req[r])[1].change)

\* A request is answered when, and only when, it is done.
Open(r) == answer[r] = "pending" <=> pc[r] # "done"

\* What a request has posted.
Posted(r) ==
  EntriesOf(r) = IF r \in Committed THEN {EntryOf(r, 1), EntryOf(r, 2)} ELSE {}

\* Together with IInv, the inductive invariant of the books.
BInv ==
  /\ IsFiniteSet(entries) /\ Reconciled /\ BooksBalance
  /\ \A r \in Requests : Inserted(r) /\ Open(r) /\ Posted(r)

-----------------------------------------------------------------------------
(* Sums of entries. *)

\* SUM(col) over one row is what the row holds.
LEMMA TotalOfOne ==
  ASSUME NEW e, NEW col, e[col] \in 0 .. NumericMax
  PROVE  IsFiniteSet(Units({e}, col)) /\ Total({e}, col) = e[col]
<1>1. Units({e}, col) = {e} \X (1 .. e[col])
  BY NumericMaxAssumption DEF Units
<1>2. IsFiniteSet({e}) /\ Cardinality({e}) = 1
  BY FS_Singleton
<1>3. IsFiniteSet(1 .. e[col]) /\ Cardinality(1 .. e[col]) = e[col]
  <2>1. PICK k \in Nat : k = e[col]
    BY NumericMaxAssumption
  <2>2. IsFiniteSet(1 .. k) /\ Cardinality(1 .. k) = IF 1 > k THEN 0 ELSE k - 1 + 1
    BY FS_Interval
  <2> QED
    BY <2>1, <2>2
<1>4. IsFiniteSet({e} \X (1 .. e[col])) /\ Cardinality({e} \X (1 .. e[col])) = 1 * e[col]
  BY <1>2, <1>3, FS_Product
<1> QED
  BY <1>1, <1>4, NumericMaxAssumption DEF Total

\* A new row adds what it holds.
LEMMA TotalAdd ==
  ASSUME NEW S, IsFiniteSet(S), NEW e, e \notin S, NEW col, e[col] \in 0 .. NumericMax
  PROVE  Total(S \cup {e}, col) = Total(S, col) + e[col]
<1>1. IsFiniteSet(Units(S, col))
  <2>1. IsFiniteSet(1 .. NumericMax)
    BY FS_Interval, NumericMaxAssumption
  <2>2. IsFiniteSet(S \X (1 .. NumericMax))
    BY <2>1, FS_Product
  <2> QED
    BY <2>2, FS_Subset DEF Units
<1>2. IsFiniteSet(Units({e}, col)) /\ Cardinality(Units({e}, col)) = e[col]
  BY TotalOfOne DEF Total
<1>3. Units(S \cup {e}, col) = Units(S, col) \cup Units({e}, col)
  BY DEF Units
<1>4. Units(S, col) \cap Units({e}, col) = {}
  BY DEF Units
<1>5. Cardinality(Units(S, col)) \in Nat
  BY <1>1, FS_CardinalityType
<1>6. Cardinality(Units(S, col) \cap Units({e}, col)) = 0
  BY <1>4, FS_EmptySet
<1>7. Cardinality(Units(S, col) \cup Units({e}, col)) =
        Cardinality(Units(S, col)) + e[col] - 0
  BY <1>1, <1>2, <1>6, FS_Union
<1>8. PICK k \in Int : k = e[col]
  BY NumericMaxAssumption
<1>9. Cardinality(Units(S, col)) + k - 0 = Cardinality(Units(S, col)) + k
  BY <1>5, <1>8
<1> QED
  BY <1>3, <1>7, <1>8, <1>9, Zenon DEF Total

\* A new row of account x moves the balance of x, and no other.
LEMMA BalanceAdd ==
  ASSUME NEW S, IsFiniteSet(S), NEW e, e \notin S, NEW a,
         e.debit \in 0 .. NumericMax, e.credit \in 0 .. NumericMax
  PROVE  GetAccountBalance(S \cup {e}, a) =
           GetAccountBalance(S, a) + (IF e.account = a THEN e.credit - e.debit ELSE 0)
<1>1. IsFiniteSet(OfAccount(S, a)) /\ e \notin OfAccount(S, a)
  BY FS_Subset DEF OfAccount
<1>2. /\ Total(OfAccount(S, a), "credit") \in Nat
      /\ Total(OfAccount(S, a), "debit") \in Nat
  BY <1>1, TotalNat
<1>3. CASE e.account = a
  <2>1. OfAccount(S \cup {e}, a) = OfAccount(S, a) \cup {e}
    BY <1>3 DEF OfAccount
  <2>2. /\ Total(OfAccount(S, a) \cup {e}, "credit") = Total(OfAccount(S, a), "credit") + e.credit
        /\ Total(OfAccount(S, a) \cup {e}, "debit") = Total(OfAccount(S, a), "debit") + e.debit
    BY <1>1, TotalAdd
  <2>3. e.credit \in Int /\ e.debit \in Int
    BY NumericMaxAssumption
  <2>4. GetAccountBalance(S \cup {e}, a) =
          (Total(OfAccount(S, a), "credit") + e.credit) - (Total(OfAccount(S, a), "debit") + e.debit)
    BY <2>1, <2>2 DEF GetAccountBalance
  <2> QED
    BY <1>2, <1>3, <2>3, <2>4 DEF GetAccountBalance
<1>4. CASE e.account # a
  <2>1. OfAccount(S \cup {e}, a) = OfAccount(S, a)
    BY <1>4 DEF OfAccount
  <2> QED
    BY <1>2, <1>4, <2>1 DEF GetAccountBalance
<1> QED
  BY <1>3, <1>4

-----------------------------------------------------------------------------
(* The invariant. *)

\* The two entries of a request: one transaction, opposite sides, distinct.
LEMMA EntryPair ==
  ASSUME TypeOK, NEW r \in Requests
  PROVE  /\ \A i \in {1, 2} :
              /\ EntryOf(r, i).tx = <<r, attempt[r]>>
              /\ EntryOf(r, i).account = Legs(req[r])[i].account
              /\ EntryOf(r, i).credit - EntryOf(r, i).debit = Legs(req[r])[i].change
              /\ InRange(Legs(req[r])[1].change) =>
                   /\ EntryOf(r, i).debit \in 0 .. NumericMax
                   /\ EntryOf(r, i).credit \in 0 .. NumericMax
         /\ EntryOf(r, 1).debit = EntryOf(r, 2).credit
         /\ EntryOf(r, 1).credit = EntryOf(r, 2).debit
         /\ Legs(req[r])[1].change # 0 => EntryOf(r, 1) # EntryOf(r, 2)
<1>1. PICK c \in Int : c = Legs(req[r])[1].change /\ -c = Legs(req[r])[2].change
  BY RequestType, LegsOf
<1>2. /\ EntryOf(r, 1) = [tx |-> <<r, attempt[r]>>, account |-> Legs(req[r])[1].account,
                          debit |-> IF c < 0 THEN -c ELSE 0, credit |-> IF c > 0 THEN c ELSE 0]
      /\ EntryOf(r, 2) = [tx |-> <<r, attempt[r]>>, account |-> Legs(req[r])[2].account,
                          debit |-> IF -c < 0 THEN c ELSE 0, credit |-> IF -c > 0 THEN -c ELSE 0]
  BY <1>1 DEF EntryOf
<1>3. /\ EntryOf(r, 1).debit = (IF c < 0 THEN -c ELSE 0)
      /\ EntryOf(r, 1).credit = (IF c > 0 THEN c ELSE 0)
      /\ EntryOf(r, 2).debit = (IF c > 0 THEN c ELSE 0)
      /\ EntryOf(r, 2).credit = (IF c < 0 THEN -c ELSE 0)
  BY <1>2
<1>4. Legs(req[r])[1].change # 0 => EntryOf(r, 1) # EntryOf(r, 2)
  BY <1>1, <1>3
<1>5. \A i \in {1, 2} :
        EntryOf(r, i).tx = <<r, attempt[r]>> /\ EntryOf(r, i).account = Legs(req[r])[i].account
  BY <1>2
<1>6. \A i \in {1, 2} : EntryOf(r, i).credit - EntryOf(r, i).debit = Legs(req[r])[i].change
  BY <1>1, <1>3
<1>7. ASSUME InRange(Legs(req[r])[1].change)
      PROVE  \A i \in {1, 2} : /\ EntryOf(r, i).debit \in 0 .. NumericMax
                               /\ EntryOf(r, i).credit \in 0 .. NumericMax
  BY <1>1, <1>3, <1>7, NumericMaxAssumption DEF InRange
<1> QED
  BY <1>3, <1>4, <1>5, <1>6, <1>7

LEMMA InitBInv == Init => BInv
<1> SUFFICES ASSUME Init PROVE BInv
  OBVIOUS
<1>1. IsFiniteSet(entries) /\ Reconciled /\ BooksBalance
  BY OpeningAssumption DEF Init, Reconciled, BooksBalance
<1>2. ASSUME NEW r \in Requests PROVE Inserted(r) /\ Open(r) /\ Posted(r)
  <2>1. Inserted(r) /\ Open(r) /\ r \notin Committed
    BY <1>2 DEF Init, Inserted, Open, Committed
  <2>2. EntriesOf(r) = {}
    BY OpeningAssumption, LedgerAssumption DEF Init, EntriesOf, EarlierTxIds
  <2> QED
    BY <2>1, <2>2 DEF Posted
<1> QED
  BY <1>1, <1>2 DEF BInv

\* What a step of r leaves of the others.
Aside(r) ==
  \A p \in Requests \ {r} :
    /\ pc'[p] = pc[p] /\ answer'[p] = answer[p]
    /\ attempt'[p] = attempt[p] /\ rows'[p] = rows[p]

\* The others keep their part of the invariant when r posts at most its own.
LEMMA OthersKept ==
  ASSUME TypeOK, BInv, NEW r \in Requests, req' = req, Aside(r),
         NEW p \in Requests \ {r}, EntriesOf(p)' = EntriesOf(p)
  PROVE  Inserted(p)' /\ Open(p)' /\ Posted(p)'
<1>1. /\ pc'[p] = pc[p] /\ answer'[p] = answer[p] /\ attempt'[p] = attempt[p]
      /\ rows'[p] = rows[p] /\ req'[p] = req[p]
  BY DEF Aside
<1>2. Inserted(p) /\ Open(p) /\ Posted(p)
  BY DEF BInv
<1>3. EntryOf(p, 1)' = EntryOf(p, 1) /\ EntryOf(p, 2)' = EntryOf(p, 2)
  BY <1>1 DEF EntryOf
<1>4. Inserted(p)'
  BY <1>1, <1>2, <1>3 DEF Inserted
<1>5. Open(p)'
  BY <1>1, <1>2 DEF Open
<1>6. p \in Committed' <=> p \in Committed
  BY <1>1 DEF Committed
<1> QED
  BY <1>2, <1>3, <1>4, <1>5, <1>6 DEF Posted

\* A step that commits nothing leaves the books as they are.
LEMMA QuietStep ==
  ASSUME IInv, BInv, NEW r \in Requests, pc[r] # "done", Aside(r),
         UNCHANGED <<balance, entries, req>>,
         answer'[r] \notin {"ok", "unknown"}, Open(r)', Inserted(r)'
  PROVE  BInv'
<1>1. IsFiniteSet(entries)' /\ Reconciled' /\ BooksBalance'
  BY DEF BInv, Reconciled, BooksBalance
<1>2. \A p \in Requests : EntriesOf(p)' = EntriesOf(p)
  BY DEF EntriesOf
<1>3. \A p \in Requests \ {r} : Inserted(p)' /\ Open(p)' /\ Posted(p)'
  BY <1>2, OthersKept DEF IInv
<1>4. Posted(r)'
  <2>1. r \notin Committed /\ r \notin Committed'
    BY DEF BInv, Open, Committed
  <2>2. Posted(r)
    BY DEF BInv
  <2> QED
    BY <1>2, <2>1, <2>2 DEF Posted
<1> QED
  BY <1>1, <1>3, <1>4 DEF BInv

\* The rollback of an open transaction.
LEMMA QuietRollback ==
  ASSUME IInv, BInv, NEW r \in Requests, pc[r] # "done", Rollback(r), req' = req,
         Aside(r), answer'[r] \notin {"ok", "unknown"},
         \/ pc'[r] = "done" /\ answer'[r] # "pending"
         \/ pc'[r] = "backoff" /\ answer'[r] = "pending"
  PROVE  BInv'
<1>1. rows'[r] = {}
  BY DEF IInv, TypeOK, Rollback, EndTx
<1>2. Open(r)' /\ Inserted(r)'
  BY <1>1 DEF Open, Inserted
<1> QED
  BY <1>2, QuietStep DEF Rollback

\* Every error that is returned, and every conflict that is retried.
LEMMA FailKeepsBooks ==
  ASSUME IInv, BInv, NEW r \in Requests, pc[r] # "done",
         Conflict(r) \/ \E err \in Errors : Fail(r, err)
  PROVE  BInv'
<1>1. answer[r] = "pending"
  BY DEF BInv, Open
<1>2. ASSUME NEW err \in Errors, Fail(r, err) PROVE BInv'
  <2>1. /\ Rollback(r) /\ req' = req /\ pc'[r] = "done" /\ answer'[r] = err
        /\ err \notin {"ok", "unknown", "pending"}
    BY <1>2 DEF IInv, TypeOK, Fail, Answer, Goto, Errors
  <2>2. Aside(r)
    BY <1>2 DEF IInv, TypeOK, Fail, Answer, Goto, Rollback, EndTx, Aside
  <2> QED
    BY <2>1, <2>2, QuietRollback
<1>3. ASSUME Conflict(r) PROVE BInv'
  <2>1. Rollback(r) /\ req' = req
    BY <1>3 DEF Conflict
  <2>2. Aside(r)
    BY <1>3 DEF IInv, TypeOK, Conflict, Answer, Goto, Rollback, EndTx, Aside
  <2>3. \/ pc'[r] = "done" /\ answer'[r] = "exhausted"
        \/ pc'[r] = "backoff" /\ answer'[r] = "pending"
    BY <1>1, <1>3 DEF IInv, TypeOK, Conflict, Answer, Goto
  <2> QED
    BY <2>1, <2>2, <2>3, QuietRollback
<1> QED
  BY <1>2, <1>3

\* Steps that only move a request on, take a lock or update a balance.
LEMMA MoveKeepsBooks ==
  ASSUME IInv, BInv, NEW r \in Requests,
         \/ RejectInput(r) \/ BeginTx(r) \/ CheckPasses(r) \/ Retry(r)
         \/ LockRow(r, 1, "lock1", "lock2") \/ LockRow(r, 2, "lock2", "check")
         \/ UpdateBalance(r, 1, "update1", "update2")
         \/ UpdateBalance(r, 2, "update2", "commit")
  PROVE  BInv'
<1>1. pc[r] # "done" /\ UNCHANGED <<balance, entries, req, rows>> /\ Aside(r)
  BY DEF IInv, TypeOK, RejectInput, BeginTx, CheckPasses, Retry, LockRow, UpdateBalance,
         Goto, Answer, ledgerVars, txVars, Aside
<1>2. Open(r) /\ Inserted(r)
  BY DEF BInv
<1>3. answer[r] = "pending" /\ rows'[r] = rows[r] /\ req'[r] = req[r]
  BY <1>1, <1>2 DEF Open
<1>4. CASE RejectInput(r)
  <2>1. pc'[r] = "done" /\ answer'[r] \in {"invalidAmount", "sameAccount"} /\ pc[r] = "begin"
    BY <1>4 DEF IInv, TypeOK, RejectInput, Answer, Goto
  <2>2. Open(r)' /\ Inserted(r)'
    BY <1>2, <1>3, <2>1 DEF Open, Inserted
  <2> QED
    BY <1>1, <2>1, <2>2, QuietStep
<1>5. CASE \/ BeginTx(r) \/ CheckPasses(r) \/ Retry(r)
           \/ LockRow(r, 1, "lock1", "lock2") \/ LockRow(r, 2, "lock2", "check")
  <2>1. /\ answer' = answer /\ attempt' = attempt
        /\ pc[r] \in {"begin", "backoff", "lock1", "lock2", "check"}
        /\ pc'[r] \in {"begin", "lock1", "lock2", "check", "entry1"}
    BY <1>5 DEF IInv, TypeOK, BeginTx, CheckPasses, Retry, LockRow, Goto
  <2>2. Open(r)' /\ Inserted(r)'
    BY <1>2, <1>3, <2>1 DEF Open, Inserted
  <2> QED
    BY <1>1, <1>3, <2>1, <2>2, QuietStep
<1>6. CASE \/ UpdateBalance(r, 1, "update1", "update2")
           \/ UpdateBalance(r, 2, "update2", "commit")
  <2>1. /\ answer' = answer /\ attempt' = attempt
        /\ pc[r] \in {"update1", "update2"} /\ pc'[r] \in {"update2", "commit"}
    BY <1>6 DEF IInv, TypeOK, UpdateBalance, Goto
  <2>2. EntryOf(r, 1)' = EntryOf(r, 1) /\ EntryOf(r, 2)' = EntryOf(r, 2)
    BY <1>3, <2>1 DEF EntryOf
  <2>3. Open(r)' /\ Inserted(r)'
    BY <1>2, <1>3, <2>1, <2>2 DEF Open, Inserted
  <2> QED
    BY <1>1, <1>3, <2>1, <2>3, QuietStep
<1> QED
  BY <1>4, <1>5, <1>6

\* CreateEntry inserts into the open transaction only.
LEMMA EntryKeepsBooks ==
  ASSUME IInv, BInv, NEW r \in Requests,
         CreateEntry(r, 1, "entry1", "entry2") \/ CreateEntry(r, 2, "entry2", "update1")
  PROVE  BInv'
<1>1. /\ pc[r] # "done" /\ UNCHANGED <<balance, entries, req, attempt, answer>> /\ Aside(r)
  BY DEF IInv, TypeOK, CreateEntry, Goto, ledgerVars, Aside
<1>2. Open(r) /\ Inserted(r)
  BY DEF BInv
<1>3. EntryOf(r, 1)' = EntryOf(r, 1) /\ EntryOf(r, 2)' = EntryOf(r, 2)
  BY <1>1 DEF EntryOf
<1>4. Open(r)'
  BY <1>1, <1>2 DEF Open, IInv, TypeOK, CreateEntry, Goto
<1>5. Inserted(r)'
  <2>1. CASE CreateEntry(r, 1, "entry1", "entry2")
    <3>1. /\ pc[r] = "entry1" /\ pc'[r] = "entry2"
          /\ rows'[r] = rows[r] \cup {EntryOf(r, 1)}
          /\ Legs(req[r])[1].change # 0 /\ InRange(Legs(req[r])[1].change)
      BY <2>1 DEF IInv, TypeOK, CreateEntry, Goto
    <3> QED
      BY <1>1, <1>2, <1>3, <3>1 DEF Inserted
  <2>2. CASE CreateEntry(r, 2, "entry2", "update1")
    <3>1. /\ pc[r] = "entry2" /\ pc'[r] = "update1"
          /\ rows'[r] = rows[r] \cup {EntryOf(r, 2)}
      BY <2>2 DEF IInv, TypeOK, CreateEntry, Goto
    <3> QED
      BY <1>1, <1>2, <1>3, <3>1 DEF Inserted
  <2> QED
    BY <2>1, <2>2
<1>6. answer'[r] \notin {"ok", "unknown"}
  BY <1>1, <1>2 DEF Open
<1> QED
  BY <1>1, <1>4, <1>5, <1>6, QuietStep

\* What a commit adds to the table: two distinct rows that were not there.
LEMMA CommitPair ==
  ASSUME IInv, BInv, NEW r \in Requests, CommitTx(r)
  PROVE  /\ entries' = (entries \cup {EntryOf(r, 1)}) \cup {EntryOf(r, 2)}
         /\ EntryOf(r, 1) \notin entries
         /\ EntryOf(r, 2) \notin entries \cup {EntryOf(r, 1)}
         /\ EntriesOf(r) = {}
         /\ Legs(req[r])[1].change # 0 /\ InRange(Legs(req[r])[1].change)
<1>1. pc[r] = "commit"
  BY DEF CommitTx
<1>2. /\ rows[r] = {EntryOf(r, 1), EntryOf(r, 2)}
      /\ Legs(req[r])[1].change # 0 /\ InRange(Legs(req[r])[1].change)
  <2>1. Inserted(r)
    BY DEF BInv
  <2> QED
    BY <1>1, <2>1 DEF Inserted
<1>3. EntriesOf(r) = {}
  <2>1. Open(r) /\ Posted(r)
    BY DEF BInv
  <2>2. r \notin Committed
    BY <1>1, <2>1 DEF Open, Committed
  <2> QED
    BY <2>1, <2>2 DEF Posted
<1>4. /\ EntryOf(r, 1).tx[1] = r /\ EntryOf(r, 2).tx[1] = r
      /\ EntryOf(r, 1) # EntryOf(r, 2)
  BY <1>2, EntryPair DEF IInv
<1>5. EntryOf(r, 1) \notin entries /\ EntryOf(r, 2) \notin entries
  BY <1>3, <1>4 DEF EntriesOf
<1>6. entries' = entries \cup rows[r]
  BY DEF CommitTx
<1> QED
  BY <1>2, <1>3, <1>4, <1>5, <1>6

\* COMMIT posts both entries and moves both balances.
LEMMA CommitKeepsBooks ==
  ASSUME IInv, BInv, NEW r \in Requests, CommitTx(r),
         NEW ans \in {"ok", "unknown"}, Answer(r, ans)
  PROVE  BInv'
<1> DEFINE e1 == EntryOf(r, 1)
           e2 == EntryOf(r, 2)
<1>1. /\ entries' = (entries \cup {e1}) \cup {e2}
      /\ e1 \notin entries /\ e2 \notin entries \cup {e1} /\ EntriesOf(r) = {}
      /\ InRange(Legs(req[r])[1].change)
  BY CommitPair
<1>2. IsFiniteSet(entries)
  BY DEF BInv
<1>3. IsFiniteSet(entries \cup {e1})
  BY <1>2, FS_AddElement
<1>4. IsFiniteSet(entries')
  BY <1>1, <1>3, FS_AddElement
<1>5. /\ e1.debit \in 0 .. NumericMax /\ e1.credit \in 0 .. NumericMax
      /\ e2.debit \in 0 .. NumericMax /\ e2.credit \in 0 .. NumericMax
      /\ e1.debit = e2.credit /\ e1.credit = e2.debit
      /\ e1.account = Legs(req[r])[1].account /\ e1.credit - e1.debit = Legs(req[r])[1].change
      /\ e2.account = Legs(req[r])[2].account /\ e2.credit - e2.debit = Legs(req[r])[2].change
      /\ e1.tx[1] = r /\ e2.tx[1] = r
  BY <1>1, EntryPair DEF IInv
<1> HIDE DEF e1, e2
<1>6. BooksBalance'
  <2>1. /\ Total(entries \cup {e1}, "debit") = Total(entries, "debit") + e1.debit
        /\ Total(entries \cup {e1}, "credit") = Total(entries, "credit") + e1.credit
    <3>1. e1 \notin entries /\ e1.debit \in 0 .. NumericMax /\ e1.credit \in 0 .. NumericMax
      BY <1>1, <1>5
    <3> QED
      BY <1>2, <3>1, TotalAdd
  <2>2. /\ Total((entries \cup {e1}) \cup {e2}, "debit") = Total(entries \cup {e1}, "debit") + e2.debit
        /\ Total((entries \cup {e1}) \cup {e2}, "credit") = Total(entries \cup {e1}, "credit") + e2.credit
    BY <1>1, <1>3, <1>5, TotalAdd
  <2>3. Total(entries, "debit") \in Nat /\ Total(entries, "debit") = Total(entries, "credit")
    BY <1>2, TotalNat DEF BInv, BooksBalance
  <2>4. PICK d \in Nat, c \in Nat : d = e1.debit /\ c = e1.credit
    BY <1>5, NumericMaxAssumption
  <2> QED
    BY <1>1, <1>5, <2>1, <2>2, <2>3, <2>4 DEF BooksBalance
<1>7. Reconciled'
  <2> SUFFICES ASSUME NEW a \in Accounts
               PROVE  balance'[a] = GetAccountBalance(entries', a)
    BY DEF Reconciled
  <2>1. GetAccountBalance(entries \cup {e1}, a) =
          GetAccountBalance(entries, a) + (IF e1.account = a THEN e1.credit - e1.debit ELSE 0)
    BY <1>1, <1>2, <1>5, BalanceAdd
  <2>2. GetAccountBalance((entries \cup {e1}) \cup {e2}, a) =
          GetAccountBalance(entries \cup {e1}, a)
            + (IF e2.account = a THEN e2.credit - e2.debit ELSE 0)
    BY <1>1, <1>3, <1>5, BalanceAdd
  <2>3. /\ Part(r, 1, a) = (IF e1.account = a THEN e1.credit - e1.debit ELSE 0)
        /\ Part(r, 2, a) = (IF e2.account = a THEN e2.credit - e2.debit ELSE 0)
    BY <1>5 DEF Part
  <2>4. Part(r, 1, a) \in Int /\ Part(r, 2, a) \in Int
    BY RequestType, LegsOf DEF IInv, Part
  <2>5. delta[r][a] = Part(r, 1, a) + Part(r, 2, a)
    BY DEF IInv, Local, Applied, CommitTx
  <2>6. balance[a] \in Int /\ balance[a] = GetAccountBalance(entries, a)
    BY DEF IInv, TypeOK, BInv, Reconciled
  <2>7. balance'[a] = balance[a] + delta[r][a]
    BY DEF CommitTx
  <2> QED
    BY <1>1, <2>1, <2>2, <2>3, <2>4, <2>5, <2>6, <2>7
<1>8. req' = req /\ attempt' = attempt /\ Aside(r)
  BY DEF IInv, TypeOK, CommitTx, EndTx, Answer, Goto, Aside
<1>9. ASSUME NEW p \in Requests \ {r} PROVE Inserted(p)' /\ Open(p)' /\ Posted(p)'
  <2>1. EntriesOf(p)' = EntriesOf(p)
    BY <1>1, <1>5 DEF EntriesOf
  <2> QED
    BY <1>8, <2>1, OthersKept DEF IInv
<1>10. Inserted(r)' /\ Open(r)' /\ Posted(r)'
  <2>1. pc'[r] = "done" /\ answer'[r] = ans /\ rows'[r] = {}
    BY DEF IInv, TypeOK, CommitTx, EndTx, Answer, Goto
  <2>2. EntryOf(r, 1)' = e1 /\ EntryOf(r, 2)' = e2
    BY <1>8 DEF EntryOf, e1, e2
  <2>3. EntriesOf(r)' = {e1, e2}
    BY <1>1, <1>5 DEF EntriesOf
  <2>4. r \in Committed'
    BY <2>1 DEF Committed
  <2> QED
    BY <2>1, <2>2, <2>3, <2>4 DEF Inserted, Open, Posted
<1> QED
  BY <1>4, <1>6, <1>7, <1>9, <1>10 DEF BInv

LEMMA NextBInv == IInv /\ BInv /\ [Next]_vars => BInv'
<1> SUFFICES ASSUME IInv, BInv, [Next]_vars PROVE BInv'
  OBVIOUS
<1>1. ASSUME NEW r \in Requests, Step(r) \/ Fault(r) PROVE BInv'
  <2>1. CASE \/ RejectInput(r) \/ BeginTx(r) \/ CheckPasses(r) \/ Retry(r)
             \/ LockRow(r, 1, "lock1", "lock2") \/ LockRow(r, 2, "lock2", "check")
             \/ UpdateBalance(r, 1, "update1", "update2")
             \/ UpdateBalance(r, 2, "update2", "commit")
    BY <2>1, MoveKeepsBooks
  <2>2. CASE CreateEntry(r, 1, "entry1", "entry2") \/ CreateEntry(r, 2, "entry2", "update1")
    BY <2>2, EntryKeepsBooks
  <2>3. CASE Commit(r) \/ CommitUnacknowledged(r)
    BY <2>3, CommitKeepsBooks DEF Commit, CommitUnacknowledged
  <2>4. CASE \/ RowMissing(r, 1, "lock1") \/ RowMissing(r, 2, "lock2")
             \/ CheckFails(r) \/ EntryRejected(r) \/ ConnectionLost(r)
             \/ UpdateRejected(r, 1, "update1") \/ UpdateRejected(r, 2, "update2")
             \/ DeadlockVictim(r)
    <3>1. pc[r] # "done"
      BY <2>4 DEF RowMissing, CheckFails, EntryRejected, ConnectionLost, UpdateRejected,
                  DeadlockVictim, Deadlocked, Waiting, TxSteps
    <3>2. \E err \in Errors : Fail(r, err)
      BY <2>4 DEF RowMissing, CheckFails, EntryRejected, ConnectionLost, UpdateRejected,
                  DeadlockVictim, Errors
    <3> QED
      BY <3>1, <3>2, FailKeepsBooks
  <2>5. CASE \/ RowChanged(r, 1, "lock1") \/ RowChanged(r, 2, "lock2")
             \/ SerializationFailure(r)
    BY <2>5, FailKeepsBooks DEF RowChanged, SerializationFailure, TxSteps
  <2> QED
    BY <1>1, <2>1, <2>2, <2>3, <2>4, <2>5 DEF Step, Fault
<1>2. CASE UNCHANGED vars
  <2>1. UNCHANGED <<balance, entries, pc, req, attempt, answer, rows>>
    BY <1>2 DEF vars
  <2>2. \A r \in Requests :
          /\ Inserted(r)' = Inserted(r) /\ Open(r)' = Open(r) /\ Posted(r)' = Posted(r)
    BY <2>1 DEF Inserted, Open, Posted, EntriesOf, EntryOf, Committed
  <2> QED
    BY <2>1, <2>2 DEF BInv, Reconciled, BooksBalance
<1> QED
  BY <1>1, <1>2 DEF Next, Idle

LEMMA BooksInvariant == Spec => []BInv
BY InitBInv, NextBInv, InvariantHolds, PTL DEF Spec

-----------------------------------------------------------------------------
(* Theorems. *)

\* A request whose commit went through, acknowledged or not, has posted one
\* transaction of two entries; every other has posted nothing, however many
\* attempts ExecTx made.
THEOREM PostsExactlyOnce == Spec => []ExactlyOnce
<1>1. BInv => ExactlyOnce
  BY DEF BInv, Posted, ExactlyOnce
<1> QED
  BY <1>1, BooksInvariant, PTL

\* accounts.balance equals SUM(credit) - SUM(debit) of the account's entries
\* in every committed state.
THEOREM AlwaysReconciled == Spec => []Reconciled
<1>1. BInv => Reconciled
  BY DEF BInv
<1> QED
  BY <1>1, BooksInvariant, PTL

\* Debits equal credits over the whole table of entries.
THEOREM BooksAlwaysBalance == Spec => []BooksBalance
<1>1. BInv => BooksBalance
  BY DEF BInv
<1> QED
  BY <1>1, BooksInvariant, PTL

-----------------------------------------------------------------------------
(* The service implements AtomicLedger. *)

\* Where the money comes from and goes to, in the terms of both modules.
LEMMA AtomicTerms ==
  ASSUME NEW q, q.kind \in Kinds, q.amount \in Int
  PROVE  /\ Atomic!Source(q) = IF q.kind = "deposit" THEN Peer(q) ELSE q.account
         /\ Atomic!Sink(q) = IF q.kind = "deposit" THEN q.account ELSE Peer(q)
         /\ Atomic!StringFixed4(q.amount) = StringFixed4(q.amount)
         /\ Atomic!SelfTransfer(q) <=> SelfTransfer(q)
         /\ Atomic!Sensible(q) <=> ~InvalidAmount(q) /\ ~SelfTransfer(q)
         /\ Atomic!Known(q) <=> q.account \in Accounts /\ Peer(q) \in Accounts
         /\ Atomic!Affordable(q) <=> (Checked(q) => Covers(balance[q.account], q.amount))
<1>1. /\ Atomic!Source(q) = IF q.kind = "deposit" THEN Peer(q) ELSE q.account
      /\ Atomic!Sink(q) = IF q.kind = "deposit" THEN q.account ELSE Peer(q)
  BY DEF Atomic!Source, Atomic!Sink, Peer, Kinds
<1>2. /\ Atomic!StringFixed4(q.amount) = StringFixed4(q.amount)
      /\ Atomic!SelfTransfer(q) <=> SelfTransfer(q)
      /\ Atomic!Sensible(q) <=> ~InvalidAmount(q) /\ ~SelfTransfer(q)
  BY DEF Atomic!StringFixed4, StringFixed4, Atomic!SelfTransfer, SelfTransfer,
         Atomic!Sensible, Atomic!Positive, InvalidAmount, Positive
<1>3. Atomic!Known(q) <=> q.account \in Accounts /\ Peer(q) \in Accounts
  BY <1>1 DEF Atomic!Known
<1>4. Atomic!Affordable(q) <=> (Checked(q) => Covers(balance[q.account], q.amount))
  BY <1>1 DEF Atomic!Affordable, Atomic!Covers, Checked, Covers
<1> QED
  BY <1>1, <1>2, <1>3, <1>4

\* An error answer is a refusal, when its reason holds of the ledger.
LEMMA RefusalStep ==
  ASSUME IInv, BInv, NEW r \in Requests, pc[r] # "done", NEW err \in Errors,
         Answer(r, err), UNCHANGED <<req, balance, entries>>, Atomic!Justified(r, err)
  PROVE  Atomic!Next
<1>1. answer[r] = "pending"
  BY DEF BInv, Open
<1>2. Atomic!Refuse(r, err)
  BY <1>1 DEF Atomic!Refuse, Answer
<1>3. err \in Atomic!Refusals
  BY DEF Atomic!Refusals, Errors
<1> QED
  BY <1>2, <1>3 DEF Atomic!Next

\* A request in a transaction makes sense.
LEMMA TxSensible ==
  ASSUME IInv, NEW r \in Requests, pc[r] \in TxSteps \cup {"backoff"}
  PROVE  Atomic!Sensible(req[r])
BY RequestType, AtomicTerms DEF IInv, Local, Validated

\* Both rows of a request that decides or posts exist.
LEMMA DecidedKnown ==
  ASSUME IInv, NEW r \in Requests, pc[r] \in Decided
  PROVE  Atomic!Sensible(req[r]) /\ Atomic!Known(req[r])
<1>1. Atomic!Sensible(req[r])
  BY TxSensible DEF Decided, TxSteps
<1>2. req[r].account \in Accounts /\ Peer(req[r]) \in Accounts
  BY HoldsBoth DEF IInv, Local
<1> QED
  BY <1>1, <1>2, RequestType, AtomicTerms DEF IInv

\* Input validation.
LEMMA RejectRefuses ==
  ASSUME IInv, BInv, NEW r \in Requests, RejectInput(r)
  PROVE  Atomic!Next
<1>1. /\ pc[r] # "done" /\ UNCHANGED <<req, balance, entries>>
  BY DEF RejectInput, ledgerVars
<1>2. req[r].kind \in Kinds /\ req[r].amount \in Int
  BY RequestType DEF IInv
<1>3. CASE InvalidAmount(req[r]) /\ Answer(r, "invalidAmount")
  <2>1. Atomic!Justified(r, "invalidAmount")
    BY <1>3 DEF Atomic!Justified, InvalidAmount, Positive, Atomic!Positive
  <2> QED
    BY <1>1, <1>3, <2>1, RefusalStep DEF Errors
<1>4. CASE ~InvalidAmount(req[r]) /\ SelfTransfer(req[r]) /\ Answer(r, "sameAccount")
  <2>1. Atomic!Justified(r, "sameAccount")
    BY <1>2, <1>4, AtomicTerms DEF Atomic!Justified, InvalidAmount, Positive, Atomic!Positive
  <2> QED
    BY <1>1, <1>4, <2>1, RefusalStep DEF Errors
<1> QED
  BY <1>3, <1>4 DEF RejectInput

\* sql.ErrNoRows: one of the two rows does not exist.
LEMMA MissingRefuses ==
  ASSUME IInv, BInv, NEW r \in Requests,
         RowMissing(r, 1, "lock1") \/ RowMissing(r, 2, "lock2")
  PROVE  Atomic!Next
<1>1. PICK i \in {1, 2} : /\ pc[r] \in {"lock1", "lock2"}
                          /\ LockOrder(req[r])[i] \notin Accounts
                          /\ Fail(r, "notFound")
  BY DEF RowMissing
<1>2. req[r].kind \in Kinds /\ req[r].amount \in Int
  BY RequestType DEF IInv
<1>3. ~(req[r].account \in Accounts /\ Peer(req[r]) \in Accounts)
  BY <1>1, <1>2, LockOrderOf
<1>4. Atomic!Sensible(req[r]) /\ ~Atomic!Known(req[r])
  BY <1>1, <1>2, <1>3, TxSensible, AtomicTerms DEF TxSteps
<1>5. Atomic!Justified(r, "notFound")
  BY <1>4 DEF Atomic!Justified
<1> QED
  BY <1>1, <1>5, RefusalStep DEF Fail, Rollback, Errors

\* Currency and funds, tested on rows that cannot change meanwhile.
LEMMA CheckRefuses ==
  ASSUME IInv, BInv, NEW r \in Requests, CheckFails(r)
  PROVE  Atomic!Next
<1> DEFINE q == req[r]
<1>1. pc[r] = "check" /\ pc[r] \in Decided /\ pc[r] # "done"
  BY DEF CheckFails, Decided
<1>2. q.kind \in Kinds /\ q.amount \in Int
  BY RequestType DEF IInv
<1>3. Atomic!Sensible(q) /\ Atomic!Known(q)
  BY <1>1, DecidedKnown
<1>4. CASE Currency[q.account] # Currency[Peer(q)] /\ Fail(r, "currencyMismatch")
  <2>1. Currency[Atomic!Source(q)] # Currency[Atomic!Sink(q)]
    BY <1>2, <1>4, AtomicTerms
  <2>2. Atomic!Justified(r, "currencyMismatch")
    BY <1>3, <2>1 DEF Atomic!Justified
  <2> QED
    BY <1>1, <1>4, <2>2, RefusalStep DEF Fail, Rollback, Errors
<1>5. CASE Checked(q) /\ ~Covers(seen[r], q.amount) /\ Fail(r, "insufficientFunds")
  <2>1. seen[r] = balance[q.account]
    BY <1>1, <1>5 DEF IInv, Local, SeenCurrent
  <2>2. ~Atomic!Affordable(q)
    BY <1>2, <1>5, <2>1, AtomicTerms
  <2>3. Atomic!Justified(r, "insufficientFunds")
    BY <1>3, <2>2 DEF Atomic!Justified
  <2> QED
    BY <1>1, <1>5, <2>3, RefusalStep DEF Fail, Rollback, Errors
<1> QED
  BY <1>4, <1>5 DEF CheckFails

\* check_single_side and the range of the columns of table entries.
LEMMA EntryRefuses ==
  ASSUME IInv, BInv, NEW r \in Requests, EntryRejected(r)
  PROVE  Atomic!Next
<1> DEFINE q == req[r]
           m == StringFixed4(q.amount)
<1>1. pc[r] \in Decided /\ pc[r] # "done"
  BY DEF EntryRejected, Decided
<1>2. q.kind \in Kinds /\ q.amount \in Int /\ m \in Int
  BY RequestType, RoundedNat DEF IInv
<1>3. Atomic!Sensible(q) /\ Atomic!Known(q)
  BY <1>1, DecidedKnown
<1>4. /\ Legs(q)[1].change = IF q.kind = "deposit" THEN m ELSE -m
      /\ Atomic!StringFixed4(q.amount) = m
  BY <1>2, LegsOf, AtomicTerms
<1>5. CASE Legs(q)[1].change = 0 /\ Fail(r, "checkViolation")
  <2>1. m = 0
    BY <1>2, <1>4, <1>5
  <2>2. Atomic!Justified(r, "checkViolation")
    BY <1>3, <1>4, <2>1 DEF Atomic!Justified
  <2> QED
    BY <1>1, <1>5, <2>2, RefusalStep DEF Fail, Rollback, Errors
<1>6. CASE ~InRange(Legs(q)[1].change) /\ Fail(r, "outOfRange")
  <2>1. ~Atomic!InRange(m)
    BY <1>2, <1>4, <1>6, NumericMaxAssumption DEF InRange, Atomic!InRange
  <2>2. Atomic!Justified(r, "outOfRange")
    BY <1>3, <1>4, <2>1 DEF Atomic!Justified
  <2> QED
    BY <1>1, <1>6, <2>2, RefusalStep DEF Fail, Rollback, Errors
<1> QED
  BY <1>5, <1>6 DEF EntryRejected

\* The range of accounts.balance.  When the peer is the account itself, the
\* second update undoes the first and cannot be rejected.
LEMMA UpdateRefuses ==
  ASSUME IInv, BInv, NEW r \in Requests,
         UpdateRejected(r, 1, "update1") \/ UpdateRejected(r, 2, "update2")
  PROVE  Atomic!Next
<1> DEFINE q == req[r]
           m == StringFixed4(q.amount)
           c == IF q.kind = "deposit" THEN m ELSE -m
<1>1. pc[r] \in {"update1", "update2"} /\ pc[r] \in Decided /\ Fail(r, "outOfRange")
  BY DEF UpdateRejected, Decided
<1>2. q.kind \in Kinds /\ q.amount \in Int /\ m \in Int /\ c \in Int
  BY RequestType, RoundedNat DEF IInv
<1>3. /\ Atomic!Sensible(q) /\ Atomic!Known(q)
      /\ q.account \in Accounts /\ Peer(q) \in Accounts
  BY <1>1, DecidedKnown, HoldsBoth DEF IInv, Local
<1>4. /\ Legs(q)[1].account = q.account /\ Legs(q)[1].change = c
      /\ Legs(q)[2].account = Peer(q) /\ Legs(q)[2].change = -c
  BY <1>2, LegsOf
<1>5. /\ balance[q.account] \in Int /\ balance[Peer(q)] \in Int
      /\ InRange(balance[q.account]) /\ InRange(balance[Peer(q)])
  BY <1>3, NumericMaxAssumption DEF IInv, TypeOK, InRange
<1>6. ~InRange(balance[q.account] + c) \/ ~InRange(balance[Peer(q)] - c)
  <2>1. CASE UpdateRejected(r, 1, "update1")
    <3>1. delta[r][q.account] = 0
      BY <1>3, <2>1 DEF IInv, Local, Applied, NoDelta, UpdateRejected
    <3>2. ~InRange(balance[q.account] + delta[r][q.account] + c)
      BY <1>4, <2>1 DEF UpdateRejected
    <3> QED
      BY <1>2, <1>5, <3>1, <3>2
  <2>2. CASE UpdateRejected(r, 2, "update2")
    <3>1. delta[r][Peer(q)] = IF Peer(q) = q.account THEN c ELSE 0
      <4>1. delta[r] = [a \in Accounts |-> Part(r, 1, a)]
        BY <2>2 DEF IInv, Local, Applied, UpdateRejected
      <4>2. Part(r, 1, Peer(q)) = IF Peer(q) = q.account THEN c ELSE 0
        BY <1>4, Zenon DEF Part
      <4> QED
        BY <1>3, <4>1, <4>2
    <3>2. ~InRange(balance[Peer(q)] + delta[r][Peer(q)] + -c)
      BY <1>4, <2>2 DEF UpdateRejected
    <3>3. Peer(q) # q.account
      <4> SUFFICES ASSUME Peer(q) = q.account PROVE FALSE
        OBVIOUS
      <4>1. balance[Peer(q)] + delta[r][Peer(q)] + -c = balance[Peer(q)]
        BY <1>2, <1>5, <3>1
      <4> QED
        BY <1>5, <3>2, <4>1
    <3>4. balance[Peer(q)] + delta[r][Peer(q)] + -c = balance[Peer(q)] - c
      BY <1>2, <1>5, <3>1, <3>3
    <3> QED
      BY <3>2, <3>4
  <2> QED
    BY <2>1, <2>2
<1>7. /\ Atomic!Source(q) = IF q.kind = "deposit" THEN Peer(q) ELSE q.account
      /\ Atomic!Sink(q) = IF q.kind = "deposit" THEN q.account ELSE Peer(q)
      /\ Atomic!StringFixed4(q.amount) = m
  BY <1>2, AtomicTerms
<1>8. \/ ~Atomic!InRange(balance[Atomic!Source(q)] - m)
      \/ ~Atomic!InRange(balance[Atomic!Sink(q)] + m)
  <2>1. CASE q.kind = "deposit"
    BY <1>6, <1>7, <2>1 DEF InRange, Atomic!InRange
  <2>2. CASE q.kind # "deposit"
    <3>1. ~InRange(balance[q.account] - m) \/ ~InRange(balance[Peer(q)] + m)
      BY <1>2, <1>5, <1>6, <2>2
    <3> QED
      BY <1>7, <2>2, <3>1 DEF InRange, Atomic!InRange
  <2> QED
    BY <2>1, <2>2
<1>9. Atomic!Justified(r, "outOfRange")
  BY <1>3, <1>7, <1>8 DEF Atomic!Justified
<1> QED
  BY <1>1, <1>9, RefusalStep DEF Fail, Rollback, Errors

\* A commit is the instant at which the request takes effect.
LEMMA CommitPosts ==
  ASSUME IInv, IInv', BInv, NEW r \in Requests, CommitTx(r),
         NEW ans \in {"ok", "unknown"}, Answer(r, ans)
  PROVE  Atomic!Next
<1> DEFINE q == req[r]
           m == StringFixed4(q.amount)
           c == IF q.kind = "deposit" THEN m ELSE -m
           src == Atomic!Source(q)
           dst == Atomic!Sink(q)
           tx == <<r, attempt[r]>>
<1>1. pc[r] = "commit" /\ pc[r] \in Decided /\ pc[r] \in Posting
  BY DEF CommitTx, Decided, Posting
<1>2. q.kind \in Kinds /\ q.amount \in Int /\ m \in Int /\ c \in Int
  BY RequestType, RoundedNat DEF IInv
<1>3. /\ Atomic!Sensible(q) /\ Atomic!Known(q)
      /\ q.account \in Accounts /\ Peer(q) \in Accounts
  BY <1>1, DecidedKnown, HoldsBoth DEF IInv, Local
<1>4. /\ Legs(q)[1].account = q.account /\ Legs(q)[1].change = c
      /\ Legs(q)[2].account = Peer(q) /\ Legs(q)[2].change = -c
  BY <1>2, LegsOf
<1>5. /\ src = (IF q.kind = "deposit" THEN Peer(q) ELSE q.account)
      /\ dst = (IF q.kind = "deposit" THEN q.account ELSE Peer(q))
      /\ Atomic!StringFixed4(q.amount) = m
  BY <1>2, AtomicTerms
<1>6. answer[r] = "pending"
  BY <1>1 DEF BInv, Open
<1>7. ~Atomic!SelfTransfer(q) /\ m > 0
  <2>1. Positive(q.amount) /\ ~SelfTransfer(q)
    BY <1>1 DEF IInv, Local, Validated, InvalidAmount, TxSteps
  <2>2. m >= 0
    BY <1>2, <2>1, RoundedNat
  <2>3. c # 0
    BY <1>4, CommitPair
  <2> QED
    BY <1>2, <2>1, <2>2, <2>3, AtomicTerms
<1>8. Currency[src] = Currency[dst]
  <2>1. Currency[q.account] = Currency[Peer(q)]
    BY <1>1 DEF IInv, Local, Funded
  <2> QED
    BY <1>5, <2>1
<1>9. Atomic!Affordable(q)
  <2>1. Checked(q) => seen[r] = balance[q.account] /\ Covers(seen[r], q.amount)
    BY <1>1 DEF IInv, Local, Funded, SeenCurrent
  <2> QED
    BY <1>2, <2>1, AtomicTerms
<1>10. balance' = IF src = dst THEN balance
                  ELSE [balance EXCEPT ![src] = @ - m, ![dst] = @ + m]
  <2>1. \A a \in Accounts :
          balance'[a] = balance[a] + ((IF a = q.account THEN c ELSE 0)
                                        + (IF a = Peer(q) THEN -c ELSE 0))
    <3>1. delta[r] = [a \in Accounts |-> Part(r, 1, a) + Part(r, 2, a)]
      BY <1>1 DEF IInv, Local, Applied
    <3>2. \A a \in Accounts : /\ Part(r, 1, a) = (IF a = q.account THEN c ELSE 0)
                              /\ Part(r, 2, a) = (IF a = Peer(q) THEN -c ELSE 0)
      BY <1>4, Zenon DEF Part
    <3>3. \A a \in Accounts : balance'[a] = balance[a] + delta[r][a]
      BY DEF CommitTx
    <3> QED
      BY <3>1, <3>2, <3>3
  <2>2. balance \in [Accounts -> Int] /\ balance' = [a \in Accounts |-> balance'[a]]
    BY NumericMaxAssumption DEF IInv, TypeOK, CommitTx
  <2>3. CASE src = dst
    <3>1. \A a \in Accounts : balance'[a] = balance[a]
      BY <1>2, <1>5, <2>1, <2>2, <2>3
    <3> QED
      BY <2>2, <2>3, <3>1
  <2>4. CASE src # dst
    <3>1. \A a \in Accounts :
            balance'[a] = IF a = src THEN balance[a] - m
                          ELSE IF a = dst THEN balance[a] + m ELSE balance[a]
      BY <1>2, <1>5, <2>1, <2>2, <2>4
    <3>2. src \in Accounts /\ dst \in Accounts
      BY <1>3, <1>5
    <3> HIDE DEF src, dst, m
    <3>3. \A a \in Accounts :
            balance'[a] = [balance EXCEPT ![src] = @ - m, ![dst] = @ + m][a]
      BY <2>2, <2>4, <3>1, <3>2
    <3> QED
      BY <2>2, <2>4, <3>3
  <2> QED
    BY <2>3, <2>4
<1>11. \A a \in Accounts : Atomic!InRange(balance'[a])
  BY NumericMaxAssumption DEF IInv, TypeOK, Atomic!InRange
<1>12. /\ tx \in TxIds /\ tx[1] = r /\ \A e \in entries : e.tx # tx
  BY CommitPair DEF IInv, TypeOK, TxIds, EntriesOf
<1>13. entries' = entries \cup
         {[tx |-> tx, account |-> src, debit |-> m, credit |-> 0],
          [tx |-> tx, account |-> dst, debit |-> 0, credit |-> m]}
  <2>1. entries' = (entries \cup {EntryOf(r, 1)}) \cup {EntryOf(r, 2)}
    BY CommitPair
  <2>2. /\ EntryOf(r, 1) = [tx |-> tx, account |-> q.account,
                            debit |-> IF c < 0 THEN -c ELSE 0,
                            credit |-> IF c > 0 THEN c ELSE 0]
        /\ EntryOf(r, 2) = [tx |-> tx, account |-> Peer(q),
                            debit |-> IF -c < 0 THEN -(-c) ELSE 0,
                            credit |-> IF -c > 0 THEN -c ELSE 0]
    BY <1>4, Zenon DEF EntryOf
  <2>3. CASE q.kind = "deposit"
    <3>1. /\ EntryOf(r, 1) = [tx |-> tx, account |-> dst, debit |-> 0, credit |-> m]
          /\ EntryOf(r, 2) = [tx |-> tx, account |-> src, debit |-> m, credit |-> 0]
      BY <1>2, <1>5, <1>7, <2>2, <2>3
    <3> QED
      BY <2>1, <3>1
  <2>4. CASE q.kind # "deposit"
    <3>1. /\ EntryOf(r, 1) = [tx |-> tx, account |-> src, debit |-> m, credit |-> 0]
          /\ EntryOf(r, 2) = [tx |-> tx, account |-> dst, debit |-> 0, credit |-> m]
      BY <1>2, <1>5, <1>7, <2>2, <2>4
    <3> QED
      BY <2>1, <3>1
  <2> QED
    BY <2>3, <2>4
<1>14. Atomic!Post(r, ans)
  <2>1. answer' = [answer EXCEPT ![r] = ans] /\ req' = req
    BY DEF Answer, CommitTx
  <2> QED
    BY <1>3, <1>5, <1>6, <1>7, <1>8, <1>9, <1>10, <1>11, <1>12, <1>13, <2>1 DEF Atomic!Post
<1> QED
  BY <1>14 DEF Atomic!Next

\* Every step is a step of the atomic ledger, or invisible to it.
LEMMA AtomicStep ==
  IInv /\ IInv' /\ BInv /\ [Next]_vars => [Atomic!Next]_(Atomic!vars)
<1> SUFFICES ASSUME IInv, IInv', BInv, [Next]_vars
             PROVE  Atomic!Next \/ UNCHANGED <<req, balance, entries, answer>>
  BY DEF Atomic!vars
<1>1. ASSUME NEW r \in Requests, Step(r) \/ Fault(r)
      PROVE  Atomic!Next \/ UNCHANGED <<req, balance, entries, answer>>
  <2>1. CASE RejectInput(r)
    BY <2>1, RejectRefuses
  <2>2. CASE \/ BeginTx(r) \/ CheckPasses(r) \/ Retry(r)
             \/ LockRow(r, 1, "lock1", "lock2") \/ LockRow(r, 2, "lock2", "check")
             \/ CreateEntry(r, 1, "entry1", "entry2") \/ CreateEntry(r, 2, "entry2", "update1")
             \/ UpdateBalance(r, 1, "update1", "update2")
             \/ UpdateBalance(r, 2, "update2", "commit")
    BY <2>2 DEF BeginTx, CheckPasses, Retry, LockRow, CreateEntry, UpdateBalance, ledgerVars
  <2>3. CASE RowMissing(r, 1, "lock1") \/ RowMissing(r, 2, "lock2")
    BY <2>3, MissingRefuses
  <2>4. CASE CheckFails(r)
    BY <2>4, CheckRefuses
  <2>5. CASE EntryRejected(r)
    BY <2>5, EntryRefuses
  <2>6. CASE UpdateRejected(r, 1, "update1") \/ UpdateRejected(r, 2, "update2")
    BY <2>6, UpdateRefuses
  <2>7. CASE Commit(r) \/ CommitUnacknowledged(r)
    BY <2>7, CommitPosts DEF Commit, CommitUnacknowledged
  <2>8. CASE \/ RowChanged(r, 1, "lock1") \/ RowChanged(r, 2, "lock2")
             \/ SerializationFailure(r)
    <3>1. Conflict(r) /\ pc[r] \in TxSteps /\ pc[r] # "done"
      BY <2>8 DEF RowChanged, SerializationFailure, TxSteps
    <3>2. CASE Answer(r, "exhausted")
      <4>1. Atomic!Justified(r, "exhausted")
        BY <3>1, TxSensible DEF Atomic!Justified
      <4> QED
        BY <3>1, <3>2, <4>1, RefusalStep DEF Conflict, Rollback, Errors
    <3>3. CASE UNCHANGED answer
      BY <3>1, <3>3 DEF Conflict, Rollback
    <3> QED
      BY <3>1, <3>2, <3>3 DEF Conflict
  <2>9. CASE DeadlockVictim(r)
    <3>1. Fail(r, "deadlock") /\ pc[r] \in TxSteps /\ pc[r] # "done"
      BY <2>9 DEF DeadlockVictim, Deadlocked, Waiting, TxSteps
    <3>2. Atomic!Justified(r, "deadlock")
      BY <3>1, TxSensible DEF Atomic!Justified
    <3> QED
      BY <3>1, <3>2, RefusalStep DEF Fail, Rollback, Errors
  <2>10. CASE ConnectionLost(r)
    <3>1. Fail(r, "canceled") /\ pc[r] # "done" /\ ~InvalidAmount(req[r]) /\ ~SelfTransfer(req[r])
      BY <2>10 DEF ConnectionLost, TxSteps
    <3>2. Atomic!Justified(r, "canceled")
      BY <3>1, RequestType, AtomicTerms DEF IInv, Atomic!Justified
    <3> QED
      BY <3>1, <3>2, RefusalStep DEF Fail, Rollback, Errors
  <2> QED
    BY <1>1, <2>1, <2>2, <2>3, <2>4, <2>5, <2>6, <2>7, <2>8, <2>9, <2>10 DEF Step, Fault
<1>2. CASE UNCHANGED vars
  BY <1>2 DEF vars
<1> QED
  BY <1>1, <1>2 DEF Next, Idle

\* Deposit, Withdraw and Transfer behave as if each took effect at one
\* instant, its commit, or were refused at one instant for a reason that is
\* true of the ledger then.
THEOREM ImplementsAtomicLedger == Spec => AtomicSpec
<1>1. Init => Atomic!Init
  <2>1. \A S, col : Atomic!Total(S, col) = Total(S, col)
    <3>1. \A S, col : Atomic!Units(S, col) = Units(S, col)
      BY DEF Units, Atomic!Units
    <3> QED
      BY <3>1, Zenon DEF Total, Atomic!Total, Cardinality, Atomic!Cardinality
  <2>2. \A S, a : Atomic!OfAccount(S, a) = OfAccount(S, a)
    BY DEF OfAccount, Atomic!OfAccount
  <2>3. \A S, a : Atomic!GetAccountBalance(S, a) = GetAccountBalance(S, a)
    BY <2>1, <2>2 DEF GetAccountBalance, Atomic!GetAccountBalance
  <2> QED
    BY <2>3 DEF Init, Atomic!Init
<1> QED
  BY <1>1, AtomicStep, InvariantHolds, BooksInvariant, PTL DEF Spec, AtomicSpec, Atomic!Spec

-----------------------------------------------------------------------------
(* Contention. *)

\* The attempts a request has lost, and the one it is bound to lose because a
\* row of its snapshot has changed: each is another request's commit.
Spent(r) == Lost(r) + (IF stale[r] = {} THEN 0 ELSE 1)
Owed(r) == "serialization" \notin Faults[r] => Spent(r) <= Cardinality(Committed \ {r})
CInv == \A r \in Requests : Owed(r)

LEMMA SpentNat ==
  ASSUME TypeOK, NEW r \in Requests
  PROVE  Lost(r) \in Nat /\ Spent(r) \in Nat
BY LedgerAssumption DEF TypeOK, Lost, Spent

LEMMA CommittedFinite ==
  ASSUME NEW r \in Requests
  PROVE  IsFiniteSet(Committed \ {r}) /\ Cardinality(Committed \ {r}) \in Nat
<1>1. Committed \ {r} \subseteq Requests
  BY DEF Committed
<1> QED
  BY <1>1, LedgerAssumption, FS_Subset, FS_CardinalityType

LEMMA InitCInv == Init => CInv
<1> SUFFICES ASSUME Init, NEW r \in Requests PROVE Spent(r) <= Cardinality(Committed \ {r})
  BY DEF CInv, Owed
<1>1. Spent(r) = 0
  BY DEF Init, Spent, Lost
<1> QED
  BY <1>1, CommittedFinite

\* A step that commits nothing and costs r no more than it had spent.
LEMMA QuietContention ==
  ASSUME TypeOK, TypeOK', CInv, NEW r \in Requests,
         \A p \in Requests \ {r} :
           answer'[p] = answer[p] /\ attempt'[p] = attempt[p] /\ stale'[p] = stale[p],
         answer[r] = "pending", answer'[r] \notin {"ok", "unknown"}, Spent(r)' <= Spent(r)
  PROVE  CInv'
<1>1. Committed' = Committed
  BY DEF Committed
<1>2. \A p \in Requests \ {r} : Spent(p)' = Spent(p)
  BY DEF Spent, Lost
<1> SUFFICES ASSUME NEW p \in Requests, "serialization" \notin Faults[p]
             PROVE  Spent(p)' <= Cardinality(Committed \ {p})
  BY <1>1 DEF CInv, Owed
<1>3. Spent(p)' \in Nat /\ Spent(p) \in Nat /\ Spent(p)' <= Spent(p)
  <2>1. Spent(p)' \in Nat
    BY LedgerAssumption DEF TypeOK, Lost, Spent
  <2>2. Spent(p) \in Nat
    BY SpentNat
  <2> QED
    BY <1>2, <2>1, <2>2
<1>4. Spent(p) <= Cardinality(Committed \ {p}) /\ Cardinality(Committed \ {p}) \in Nat
  BY CommittedFinite DEF CInv, Owed
<1> QED
  BY <1>3, <1>4

\* A commit costs every other open request at most one attempt, and is one
\* more commit by another request.
LEMMA CommitContention ==
  ASSUME IInv, IInv', BInv, CInv, NEW r \in Requests, CommitTx(r),
         NEW ans \in {"ok", "unknown"}, Answer(r, ans)
  PROVE  CInv'
<1>1. answer[r] = "pending"
  BY DEF BInv, Open, CommitTx
<1>2. r \notin Committed /\ Committed' = Committed \cup {r}
  BY <1>1 DEF IInv, TypeOK, Answer, Committed
<1> SUFFICES ASSUME NEW p \in Requests, "serialization" \notin Faults[p]
             PROVE  Spent(p)' <= Cardinality(Committed' \ {p})
  BY DEF CInv, Owed
<1>3. /\ Spent(p) <= Cardinality(Committed \ {p}) /\ Cardinality(Committed \ {p}) \in Nat
      /\ Lost(p) \in Nat
  BY CommittedFinite, SpentNat DEF CInv, Owed, IInv
<1>4. CASE p = r
  <2>1. Lost(p)' = Lost(p) /\ stale'[p] = {}
    BY <1>1, <1>4 DEF IInv, TypeOK, CommitTx, Answer, Lost
  <2>2. Committed' \ {p} = Committed \ {p}
    BY <1>2, <1>4
  <2>3. Spent(p)' = Lost(p) /\ Lost(p) <= Spent(p) /\ Spent(p) \in Nat
    BY <1>3, <2>1 DEF Spent
  <2>4. Lost(p) <= Cardinality(Committed \ {p})
    BY <1>3, <2>3
  <2> QED
    BY <2>2, <2>3, <2>4
<1>5. CASE p # r
  <2>1. Lost(p)' = Lost(p)
    BY <1>5 DEF IInv, TypeOK, CommitTx, Answer, Lost
  <2>2. Committed' \ {p} = (Committed \ {p}) \cup {r} /\ r \notin Committed \ {p}
    BY <1>2, <1>5
  <2>3. Cardinality(Committed' \ {p}) = Cardinality(Committed \ {p}) + 1
    BY <2>2, CommittedFinite, FS_AddElement
  <2>4. Lost(p) <= Spent(p) /\ Spent(p)' <= Lost(p) + 1
    BY <1>3, <2>1 DEF Spent
  <2>5. Spent(p) \in Nat /\ Spent(p)' \in Nat
    BY <1>3, <2>1 DEF Spent
  <2> QED
    BY <1>3, <2>3, <2>4, <2>5
<1> QED
  BY <1>4, <1>5

\* An attempt is lost to a changed row only.
LEMMA ConflictContention ==
  ASSUME IInv, IInv', BInv, CInv, NEW r \in Requests, pc[r] # "done", Conflict(r),
         stale[r] # {}
  PROVE  CInv'
<1>1. answer[r] = "pending"
  BY DEF BInv, Open
<1>2. stale'[r] = {} /\ \A p \in Requests \ {r} :
           answer'[p] = answer[p] /\ attempt'[p] = attempt[p] /\ stale'[p] = stale[p]
  BY DEF IInv, TypeOK, Conflict, Rollback, Answer
<1>3. \/ attempt'[r] = attempt[r] + 1 /\ answer'[r] = answer[r]
      \/ attempt'[r] = attempt[r] /\ answer'[r] = "exhausted"
  BY DEF IInv, TypeOK, Conflict, Answer
<1>4. Spent(r)' <= Spent(r) /\ answer'[r] \notin {"ok", "unknown"}
  <2>1. attempt[r] \in Nat
    BY LedgerAssumption DEF IInv, TypeOK
  <2> QED
    BY <1>1, <1>2, <1>3, <2>1 DEF Spent, Lost
<1> QED
  BY <1>1, <1>2, <1>4, QuietContention DEF IInv

\* An attempt PostgreSQL aborts without need is not counted against others.
LEMMA SpuriousContention ==
  ASSUME IInv, IInv', BInv, CInv, NEW r \in Requests, pc[r] # "done", Conflict(r),
         "serialization" \in Faults[r]
  PROVE  CInv'
<1>1. answer[r] = "pending"
  BY DEF BInv, Open
<1>2. /\ answer'[r] \notin {"ok", "unknown"}
      /\ \A p \in Requests \ {r} :
           answer'[p] = answer[p] /\ attempt'[p] = attempt[p] /\ stale'[p] = stale[p]
  BY <1>1 DEF IInv, TypeOK, Conflict, Rollback, Answer
<1>3. Committed' = Committed
  BY <1>1, <1>2 DEF Committed
<1>4. ASSUME NEW p \in Requests, "serialization" \notin Faults[p] PROVE Spent(p)' = Spent(p)
  BY <1>2, <1>4 DEF Spent, Lost
<1> QED
  BY <1>3, <1>4 DEF CInv, Owed

\* Every other error is returned without another attempt.
LEMMA FailContention ==
  ASSUME IInv, IInv', BInv, CInv, NEW r \in Requests, pc[r] # "done",
         NEW err \in Errors \ {"exhausted"}, Fail(r, err)
  PROVE  CInv'
<1>1. answer[r] = "pending"
  BY DEF BInv, Open
<1>2. /\ stale'[r] = {} /\ attempt'[r] = attempt[r] /\ answer'[r] = err
      /\ \A p \in Requests \ {r} :
           answer'[p] = answer[p] /\ attempt'[p] = attempt[p] /\ stale'[p] = stale[p]
  BY DEF IInv, TypeOK, Fail, Rollback, Answer
<1>3. Spent(r)' <= Spent(r) /\ answer'[r] \notin {"ok", "unknown"}
  <2>1. attempt[r] \in Nat
    BY LedgerAssumption DEF IInv, TypeOK
  <2> QED
    BY <1>1, <1>2, <2>1 DEF Spent, Lost, Errors
<1> QED
  BY <1>1, <1>2, <1>3, QuietContention DEF IInv

LEMMA NextCInv == IInv /\ IInv' /\ BInv /\ CInv /\ [Next]_vars => CInv'
<1> SUFFICES ASSUME IInv, IInv', BInv, CInv, [Next]_vars PROVE CInv'
  OBVIOUS
<1>1. ASSUME NEW r \in Requests, Step(r) \/ Fault(r) PROVE CInv'
  <2>1. CASE \/ BeginTx(r) \/ CheckPasses(r) \/ Retry(r)
             \/ LockRow(r, 1, "lock1", "lock2") \/ LockRow(r, 2, "lock2", "check")
             \/ CreateEntry(r, 1, "entry1", "entry2") \/ CreateEntry(r, 2, "entry2", "update1")
             \/ UpdateBalance(r, 1, "update1", "update2")
             \/ UpdateBalance(r, 2, "update2", "commit")
    <3>1. UNCHANGED <<attempt, answer, stale>>
      BY <2>1 DEF BeginTx, CheckPasses, Retry, LockRow, CreateEntry, UpdateBalance, txVars
    <3> QED
      BY <3>1 DEF CInv, Owed, Spent, Lost, Committed
  <2>2. CASE RejectInput(r)
    <3>1. /\ UNCHANGED <<attempt, stale>> /\ pc[r] # "done"
          /\ \E ans \in {"invalidAmount", "sameAccount"} : answer' = [answer EXCEPT ![r] = ans]
      BY <2>2 DEF RejectInput, Answer, txVars
    <3>2. answer[r] = "pending"
      BY <3>1 DEF BInv, Open
    <3>3. Spent(r)' = Spent(r) /\ Spent(r) \in Nat
      BY <3>1, <3>2, SpentNat DEF IInv, TypeOK, Spent, Lost
    <3>4. /\ answer'[r] \notin {"ok", "unknown"} /\ Spent(r)' <= Spent(r)
          /\ \A p \in Requests \ {r} :
               answer'[p] = answer[p] /\ attempt'[p] = attempt[p] /\ stale'[p] = stale[p]
      BY <3>1, <3>3 DEF IInv, TypeOK
    <3> QED
      BY <3>2, <3>4, QuietContention DEF IInv
  <2>3. CASE Commit(r) \/ CommitUnacknowledged(r)
    BY <2>3, CommitContention DEF Commit, CommitUnacknowledged
  <2>4. CASE \/ RowMissing(r, 1, "lock1") \/ RowMissing(r, 2, "lock2")
             \/ CheckFails(r) \/ EntryRejected(r) \/ ConnectionLost(r)
             \/ UpdateRejected(r, 1, "update1") \/ UpdateRejected(r, 2, "update2")
             \/ DeadlockVictim(r)
    <3>1. pc[r] # "done"
      BY <2>4 DEF RowMissing, CheckFails, EntryRejected, ConnectionLost, UpdateRejected,
                  DeadlockVictim, Deadlocked, Waiting, TxSteps
    <3>2. \E err \in Errors \ {"exhausted"} : Fail(r, err)
      BY <2>4 DEF RowMissing, CheckFails, EntryRejected, ConnectionLost, UpdateRejected,
                  DeadlockVictim, Errors
    <3> QED
      BY <3>1, <3>2, FailContention
  <2>5. CASE RowChanged(r, 1, "lock1") \/ RowChanged(r, 2, "lock2")
    BY <2>5, ConflictContention DEF RowChanged
  <2>6. CASE SerializationFailure(r)
    <3>1. "serialization" \in Faults[r] /\ pc[r] # "done" /\ Conflict(r)
      BY <2>6 DEF SerializationFailure, TxSteps
    <3> QED
      BY <3>1, SpuriousContention
  <2> QED
    BY <1>1, <2>1, <2>2, <2>3, <2>4, <2>5, <2>6 DEF Step, Fault
<1>2. CASE UNCHANGED vars
  BY <1>2 DEF vars, CInv, Owed, Spent, Lost, Committed
<1> QED
  BY <1>1, <1>2 DEF Next, Idle

\* When PostgreSQL aborts only for a changed row, a request that ExecTx gives
\* up after MaxAttempts has lost to that many commits of others.
THEOREM ContentionBounded == Spec => []ContentionBound
<1>1. IInv /\ CInv => ContentionBound
  <2> SUFFICES ASSUME IInv, CInv, NEW r \in Requests, "serialization" \notin Faults[r]
               PROVE  Lost(r) <= Cardinality(Committed \ {r})
    BY DEF ContentionBound
  <2>1. Spent(r) <= Cardinality(Committed \ {r}) /\ Lost(r) <= Spent(r)
    BY SpentNat DEF CInv, Owed, IInv, Spent
  <2> QED
    BY <2>1, SpentNat, CommittedFinite DEF IInv
<1> QED
  BY <1>1, InitCInv, NextCInv, InvariantHolds, BooksInvariant, PTL DEF Spec
=============================================================================
