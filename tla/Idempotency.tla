----------------------------- MODULE Idempotency -----------------------------
(***************************************************************************)
(* IdempotencyMiddleware around the Deposit, Withdraw and Transfer         *)
(* handlers.  A request is one HTTP call of one user, with or without an   *)
(* idempotency key.  A call runs                                           *)
(*                                                                         *)
(*   unsent -> lookup -> handler -> execute -> save -> done                *)
(*                                                                         *)
(* (a call without a key neither looks up nor saves), and every arrow is a *)
(* statement or a transaction of its own.  What "execute" does to the      *)
(* ledger is AtomicLedger, which Ledger implements.                        *)
(***************************************************************************)
EXTENDS Money

CONSTANTS
  Requests, Accounts, Settlement, Currency, Inputs, OpeningEntries, TxIds,
  NoKey,
  Foreign,      \* accounts of other users
  Habits        \* ways in which the client and its environment may behave:
                \*   header: the idempotency key of each call, or NoKey
                \*   reuse: one key may be used for different calls
                \*   patient: a call is repeated only after it was answered
                \*   faults: faults of the environment that may occur

Kinds == {"deposit", "withdraw", "transfer"}
FaultKinds == {"contention", "commitAck", "database", "disconnect", "crash"}

ASSUME IdempotencyAssumption ==
  /\ IsFiniteSet(Requests)
  /\ Foreign \subseteq Accounts
  /\ \A q \in Inputs : q.kind \in Kinds
  /\ \A h \in Habits :
       /\ DOMAIN h.header = Requests
       /\ {h.reuse, h.patient} \subseteq BOOLEAN
       /\ h.faults \subseteq FaultKinds

VARIABLES
  req, balance, entries, answer,   \* as in AtomicLedger
  habit,   \* one of Habits
  pc,      \* where the call is in the middleware
  gone,    \* its client disconnected: r.Context() is cancelled
  reply,   \* the response written, or NoReply
  hit,     \* was the response the stored one (X-Cache-Idempotency: HIT)?
  store    \* table idempotency_keys: the response stored under each hash

ledgerVars == <<req, balance, entries, answer, habit>>
vars == <<req, balance, entries, answer, habit, pc, gone, reply, hit, store>>

L == INSTANCE AtomicLedger

NoReply == [code |-> 0, body |-> "none"]

HeaderOf(c) == habit.header[c]

\* The path names the kind of a call, and the account of a deposit or
\* withdrawal; the body holds the rest.
Body(q) ==
  IF q.kind = "transfer" THEN <<q.account, q.to, q.amount>> ELSE <<q.amount>>

\* Variant: the payload is not hashed.
Hash_KeyOnly(c) == <<HeaderOf(c), <<>>>>

\* The compound hash of key, user and body: the path is not part of it.
Hash(c) == <<HeaderOf(c), Body(req[c])>>

Keyed == {c \in Requests : HeaderOf(c) # NoKey}
Keys == {Hash(c) : c \in Keyed}
Repeats(c) == {d \in Keyed \ {c} : HeaderOf(d) = HeaderOf(c)}
InFlight == {c \in Requests : pc[c] \in {"lookup", "handler", "execute", "save"}}

Goto(c, next) == pc' = [pc EXCEPT ![c] = next]
Respond(c, code, body) == reply' = [reply EXCEPT ![c] = [code |-> code, body |-> body]]

Init ==
  /\ L!Init
  /\ habit \in Habits
  /\ habit.reuse \/ \A c, d \in Keyed : HeaderOf(c) = HeaderOf(d) => req[c] = req[d]
  /\ pc = [c \in Requests |-> "unsent"]
  /\ gone = [c \in Requests |-> FALSE]
  /\ reply = [c \in Requests |-> NoReply]
  /\ hit = [c \in Requests |-> FALSE]
  /\ store = [k \in Keys |-> NoReply]

-----------------------------------------------------------------------------
(* The middleware and the handlers. *)

Send(c) ==
  /\ pc[c] = "unsent"
  /\ ~habit.patient \/ c \notin Keyed \/ Repeats(c) \cap InFlight = {}
  /\ Goto(c, IF c \in Keyed THEN "lookup" ELSE "handler")
  /\ UNCHANGED <<ledgerVars, gone, reply, hit, store>>

\* GetIdempotencyKey finds a row: its response is replayed.
Hit(c) ==
  /\ pc[c] = "lookup"
  /\ ~gone[c] /\ store[Hash(c)] # NoReply
  /\ reply' = [reply EXCEPT ![c] = store[Hash(c)]]
  /\ hit' = [hit EXCEPT ![c] = TRUE]
  /\ Goto(c, "done")
  /\ UNCHANGED <<ledgerVars, gone, store>>

\* Variant: the lookup never matches.
Miss_Always(c) ==
  /\ pc[c] = "lookup"
  /\ Goto(c, "handler")
  /\ UNCHANGED <<ledgerVars, gone, reply, hit, store>>

\* It finds none: sql.ErrNoRows.
Miss(c) ==
  /\ pc[c] = "lookup"
  /\ ~gone[c] /\ store[Hash(c)] = NoReply
  /\ Goto(c, "handler")
  /\ UNCHANGED <<ledgerVars, gone, reply, hit, store>>

\* It fails with any other error, which is logged, and the call is executed
\* whatever is stored.
LookupFails(c) ==
  /\ pc[c] = "lookup"
  /\ gone[c] \/ "database" \in habit.faults
  /\ Goto(c, "handler")
  /\ UNCHANGED <<ledgerVars, gone, reply, hit, store>>

AfterReply(c) == IF c \in Keyed THEN "save" ELSE "done"

\* The handler reads the account it is about; any error, of the database too,
\* is a 404, an account of another user a 403.
Handle(c) ==
  /\ pc[c] = "handler"
  /\ \/ /\ gone[c] \/ "database" \in habit.faults \/ req[c].account \notin Accounts
        /\ Respond(c, 404, "notFound") /\ Goto(c, AfterReply(c))
     \/ /\ ~gone[c] /\ req[c].account \in Foreign
        /\ Respond(c, 403, "denied") /\ Goto(c, AfterReply(c))
     \/ /\ ~gone[c] /\ req[c].account \in Accounts \ Foreign
        /\ Goto(c, "execute") /\ UNCHANGED reply
  /\ UNCHANGED <<ledgerVars, gone, hit, store>>

\* Variant: a lack of funds is 422.
StatusOf_Unprocessable(q, ans) ==
  CASE ans = "ok" -> 200
    [] ans = "insufficientFunds" -> 422
    [] ans \notin {"ok", "insufficientFunds"} -> 400

\* The status of a ledger error.
BadRequest(q) ==
  CASE q.kind = "deposit"  -> {"invalidAmount", "currencyMismatch"}
    [] q.kind = "withdraw" -> {"insufficientFunds", "invalidAmount", "currencyMismatch"}
    [] q.kind = "transfer" -> L!Refusals \cup {"unknown"}
StatusOf(q, ans) ==
  CASE ans = "ok" -> 200
    [] ans # "ok" /\ ans \in BadRequest(q) -> 400
    [] ans # "ok" /\ ans \notin BadRequest(q) -> 500

\* The answers of a service call that its request does not explain have a
\* cause.  A cancelled context or a broken connection ends a transaction, but
\* not a COMMIT already sent: with it the call may post, acknowledged or not.
Possible(c, ans) ==
  /\ ans = "canceled" => gone[c] \/ "database" \in habit.faults
  /\ ans \in {"deadlock", "exhausted"} => "contention" \in habit.faults
  /\ ans = "unknown" => gone[c] \/ "commitAck" \in habit.faults

\* The service call takes effect or is refused; its response goes out at once.
Execute(c) ==
  /\ pc[c] = "execute"
  /\ \/ \E ans \in {"ok", "unknown"} : Possible(c, ans) /\ L!Post(c, ans)
     \/ \E why \in L!Refusals : Possible(c, why) /\ L!Refuse(c, why)
  /\ Respond(c, StatusOf(req[c], answer'[c]), answer'[c])
  /\ Goto(c, AfterReply(c))
  /\ UNCHANGED <<habit, gone, hit, store>>

\* Variant: INSERT ... ON CONFLICT DO UPDATE.
Save_Overwrites(c) ==
  /\ pc[c] = "save"
  /\ store' = IF reply[c].code < 500 /\ ~gone[c]
                THEN [store EXCEPT ![Hash(c)] = reply[c]] ELSE store
  /\ Goto(c, "done")
  /\ UNCHANGED <<ledgerVars, gone, reply, hit>>

\* CreateIdempotencyKey runs for a status below 500.  It fails, which is only
\* logged, when the row exists already, the context is cancelled or the
\* database does not answer.
Save(c) ==
  /\ pc[c] = "save"
  /\ \/ /\ reply[c].code < 500 /\ ~gone[c] /\ store[Hash(c)] = NoReply
        /\ store' = [store EXCEPT ![Hash(c)] = reply[c]]
     \/ /\ \/ reply[c].code >= 500 \/ gone[c] \/ store[Hash(c)] # NoReply
           \/ "database" \in habit.faults
        /\ UNCHANGED store
  /\ Goto(c, "done")
  /\ UNCHANGED <<ledgerVars, gone, reply, hit>>

-----------------------------------------------------------------------------
(* Faults. *)

\* The client goes away; net/http cancels the context of its request.
Disconnect(c) ==
  /\ "disconnect" \in habit.faults
  /\ c \in InFlight /\ ~gone[c]
  /\ gone' = [gone EXCEPT ![c] = TRUE]
  /\ UNCHANGED <<ledgerVars, pc, reply, hit, store>>

\* The process dies and is started again: the calls it was serving are lost.
Crash ==
  /\ "crash" \in habit.faults
  /\ InFlight # {}
  /\ pc' = [c \in Requests |-> IF c \in InFlight THEN "done" ELSE pc[c]]
  /\ UNCHANGED <<ledgerVars, gone, reply, hit, store>>

Idle ==
  /\ \A c \in Requests : pc[c] = "done"
  /\ UNCHANGED vars

Next ==
  \/ \E c \in Requests :
       \/ Send(c) \/ Hit(c) \/ Miss(c) \/ LookupFails(c)
       \/ Handle(c) \/ Execute(c) \/ Save(c) \/ Disconnect(c)
  \/ Crash
  \/ Idle

Spec == Init /\ [][Next]_vars

-----------------------------------------------------------------------------
(* Properties. *)

\* Types.
Codes == {200, 400, 403, 404, 500}
Replies == [code : Codes, body : L!Refusals \cup {"ok", "unknown", "denied"}]
TypeOK ==
  /\ pc \in [Requests -> {"unsent", "lookup", "handler", "execute", "save", "done"}]
  /\ gone \in [Requests -> BOOLEAN]
  /\ reply \in [Requests -> Replies \cup {NoReply}]
  /\ hit \in [Requests -> BOOLEAN]
  /\ store \in [Keys -> Replies \cup {NoReply}]

\* The calls of a key whose operation was applied to the ledger.
Effects(k) == {c \in Keyed : Hash(c) = k /\ answer[c] \in {"ok", "unknown"}}

\* A key prevents duplicate transactions: whatever its calls, its operation
\* is applied at most once.
ExecutedAtMostOnce == \A k \in Keys : Cardinality(Effects(k)) <= 1

\* A key is settled when a response is stored under it and no call of it is on
\* its way to the ledger: from then on no step changes what is stored or
\* applies the operation again, whatever crashes or disconnects, and it stays
\* settled, until the lookup of a call whose client is waiting fails.  That
\* call is executed although its response is stored.
Settled(k) ==
  /\ store[k] # NoReply
  /\ \A c \in InFlight \cap Keyed : Hash(c) = k =>
       pc[c] \in {"lookup", "save"} \/ (pc[c] = "handler" /\ gone[c])
StoredKeyIsFinal ==
  [][\A k \in Keys : Settled(k) =>
       /\ store'[k] = store[k]
       /\ Effects(k)' = Effects(k)
       /\ Settled(k)' \/ \E c \in Keyed : Hash(c) = k /\ ~gone[c] /\ LookupFails(c)]_vars

\* What is replayed is the response of one call that executed, below 500, and
\* it stays the one stored: all replays of a key are the same, even when
\* several calls executed and were answered differently.  An answer that only
\* says that the moment was bad is kept and replayed for transfers alone,
\* which report every failure as 400.
Transient == {"deadlock", "exhausted", "canceled", "unknown"}
ReplayIsFaithful ==
  \A c \in Requests : hit[c] =>
    /\ reply[c].code < 500
    /\ reply[c] = store[Hash(c)]
    /\ \E d \in Repeats(c) :
         /\ ~hit[d] /\ reply[d] = reply[c]
         /\ reply[d].body \in Transient => req[d].kind = "transfer"

\* To a client that waits for each answer before it repeats a call, while its
\* connection holds and the database answers, the answers tell the truth about
\* the calls with its key and its body, whatever other bodies the key is used
\* with: after 200 one of them was applied, exactly once; after 4xx none was.
\* It need not be the call answered: a deposit and a withdrawal may share key
\* and body.
Alike(c, d) == HeaderOf(c) = HeaderOf(d) /\ Body(req[c]) = Body(req[d])
SameCall(c) == {c} \cup {d \in Keyed : c \in Keyed /\ Alike(c, d)}
Applied(R) == {c \in R : answer[c] \in {"ok", "unknown"}}
Dependable == habit.patient /\ habit.faults \subseteq {"contention"}
AnswersTellTheTruth ==
  Dependable => \A c \in Requests :
    /\ reply[c].code = 200 => Cardinality(Applied(SameCall(c))) = 1
    /\ reply[c].code \in {400, 403, 404} => Applied(SameCall(c)) = {}
=============================================================================
