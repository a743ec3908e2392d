------------------------------- MODULE Handlers -------------------------------
(***************************************************************************)
(* The HTTP handlers (internal/api/handler.go) over the tables users,      *)
(* accounts and entries.  A handler runs one autocommitted statement after *)
(* another, and other calls run between them; what it read before it uses  *)
(* after.  The ledger's transaction is one step (Ledger.tla implements it  *)
(* as AtomicLedger.tla), with one unit of money in every operation.        *)
(*                                                                         *)
(* A user, an account and a transaction are named by the call that made    *)
(* them, a token by the call it was the answer to.                         *)
(***************************************************************************)
EXTENDS Integers, FiniteSets

CONSTANTS
  Calls,       \* calls that may be made
  Settlement,  \* the account without an owner that the migration creates
  MaxLimit,    \* most rows of one answer of GetEntries (100 in the code)
  Scenarios,   \* what may happen, a set of records:
               \*   script: what each call may be, a set of requests
               \*   after: the calls whose end its client waits for first
               \*   faults: faults of the environment that may occur
  None         \* no user, no token

Public == {"register", "login"}
OnAccount == {"get", "deposit", "withdraw", "transfer", "entries", "reconcile"}
Kinds == Public \cup OnAccount \cup {"create", "list", "transaction"}

ASSUME HandlersAssumption ==
  /\ IsFiniteSet(Calls)
  /\ {Settlement, None, "unopened", "nobody"} \cap Calls = {}
  /\ MaxLimit \in Nat \ {0}
  /\ \A s \in Scenarios :
       /\ DOMAIN s.script \subseteq Calls
       /\ \A c \in DOMAIN s.script : \A q \in s.script[c] :
            /\ q.kind \in Kinds
            /\ q.kind \in OnAccount => q.account \in Calls \cup {Settlement}
            /\ q.kind = "transfer" => q.to \in Calls \cup {Settlement}
            /\ q.kind = "entries" => q.limit \in Nat \ {0}
       /\ s.after \in [DOMAIN s.script -> SUBSET Calls]
       /\ s.faults \subseteq {"malformed", "hashing", "signing", "read", "write", "commitAck", "crash"}

VARIABLES
  users,    \* table users: the id and password stored for each email
  owner,    \* table accounts: the owner of each account, Unopened, or Nobody
  balance,  \* and its cached balance
  entries,  \* table entries
  scenario, \* one of Scenarios
  request,  \* what each call is
  pc,       \* the statement each call is at
  found,    \* the entries GetTransactions has read, and has still to check;
            \* the balance ReconcileAccount has read, and the entries then
  reply,    \* the answer of each call
  before    \* the calls answered when each call was sent

tables == <<users, owner, balance, entries>>
asked == <<scenario, request, before>>
vars == <<users, owner, balance, entries, scenario, request, pc, found, reply, before>>

Accounts == Calls \cup {Settlement}
Unopened == "unopened"
Nobody == "nobody"
Unsent == [kind |-> "none", as |-> None]
NoReply == [code |-> 0, user |-> None, rows |-> {}]
NoRows == [all |-> {}, unchecked |-> {}, balance |-> 0]

Sent == DOMAIN scenario.script
Emails == {q.email : q \in {p \in UNION {scenario.script[c] : c \in Sent} : p.kind \in Public}}
Answered == {c \in Calls : reply[c] # NoReply}

\* The claim user_id of a token, and of the token a call carries.
Claim(token) == IF token \in Calls THEN reply[token].user ELSE None
UserOf(c) == Claim(request[c].as)

Init ==
  /\ scenario \in Scenarios
  /\ users = [m \in Emails |-> [id |-> None, password |-> None]]
  /\ owner = [a \in Accounts |-> IF a = Settlement THEN Nobody ELSE Unopened]
  /\ balance = [a \in Accounts |-> 0]
  /\ entries = {}
  /\ request = [c \in Calls |-> Unsent]
  /\ pc = [c \in Calls |-> "unsent"]
  /\ found = [c \in Calls |-> NoRows]
  /\ reply = [c \in Calls |-> NoReply]
  /\ before = [c \in Calls |-> {}]

-----------------------------------------------------------------------------
(* Steps all handlers share. *)

At(c, place) == pc[c] = place

Goto(c, place) ==
  /\ pc' = [pc EXCEPT ![c] = place]
  /\ UNCHANGED reply

Answer(c, code, user, rows) ==
  /\ pc' = [pc EXCEPT ![c] = "done"]
  /\ reply' = [reply EXCEPT ![c] = [code |-> code, user |-> user, rows |-> rows]]

Error(c, code) == Answer(c, code, None, {})

\* A statement that only reads fails.
ReadError(c, place, code) ==
  /\ "read" \in scenario.faults
  /\ At(c, place)
  /\ Error(c, code)
  /\ UNCHANGED <<tables, found, asked>>

\* A statement that writes: it takes effect and the handler goes on; it takes
\* effect but the connection breaks first; or it fails.
Write(c, effect, nothing, success, code) ==
  \/ effect /\ success
  \/ "commitAck" \in scenario.faults /\ effect /\ Error(c, code)
  \/ "write" \in scenario.faults /\ nothing /\ Error(c, code)

FirstStatement(kind) ==
  CASE kind = "register" -> "createUser"
    [] kind = "login" -> "getUserByEmail"
    [] kind = "create" -> "createAccount"
    [] kind = "list" -> "listAccountsByOwner"
    [] kind = "transaction" -> "listEntriesByTransaction"
    [] kind \in OnAccount -> "getAccount"

\* A protected route answers 401 when the call carries no token.
Send(c) ==
  /\ At(c, "unsent")
  /\ \A d \in scenario.after[c] : At(d, "done")
  /\ \E q \in scenario.script[c] :
       /\ request' = [request EXCEPT ![c] = q]
       /\ IF q.kind \in Public \/ Claim(q.as) # None
          THEN Goto(c, FirstStatement(q.kind))
          ELSE Error(c, 401)
  /\ before' = [before EXCEPT ![c] = Answered]
  /\ UNCHANGED <<tables, scenario, found>>

\* A body that does not decode, a field that is empty, an id that is not a
\* UUID, the amount of a transfer: refused before the first statement.
Malformed(c) ==
  /\ "malformed" \in scenario.faults
  /\ pc[c] \in {"createUser", "getUserByEmail", "createAccount", "getAccount",
                "listEntriesByTransaction"}
  /\ Error(c, 400)
  /\ UNCHANGED <<tables, found, asked>>

\* The amount of a deposit or withdrawal is read after its account was loaded:
\* it must be a number or a string with something in it.
MalformedAmount(c) ==
  /\ "malformed" \in scenario.faults
  /\ At(c, "ledger") /\ request[c].kind # "transfer"
  /\ Error(c, 400)
  /\ UNCHANGED <<tables, found, asked>>

-----------------------------------------------------------------------------
(* Register and Login. *)

Taken(email) == users[email].id # None

\* bcrypt refuses the password, for one when it is over 72 bytes long.
HashingFails(c) ==
  /\ "hashing" \in scenario.faults
  /\ At(c, "createUser")
  /\ Error(c, 500)
  /\ UNCHANGED <<tables, found, asked>>

\* Variant: INSERT ... ON CONFLICT (email) DO UPDATE.
CreateUser_Upsert(c) ==
  LET email == request[c].email
      insert == users' = [users EXCEPT ![email] = [id |-> c, password |-> request[c].password]]
  IN /\ At(c, "createUser")
     /\ Write(c, insert, UNCHANGED users, Goto(c, "generateToken"), 409)
     /\ UNCHANGED <<owner, balance, entries, found, asked>>

\* Every error of the insert is a 409, the unique index on email among them.
CreateUser(c) ==
  LET email == request[c].email
      insert == users' = [users EXCEPT ![email] = [id |-> c, password |-> request[c].password]]
  IN /\ At(c, "createUser")
     /\ \/ Taken(email) /\ UNCHANGED users /\ Error(c, 409)
        \/ ~Taken(email) /\ Write(c, insert, UNCHANGED users, Goto(c, "generateToken"), 409)
     /\ UNCHANGED <<owner, balance, entries, found, asked>>

\* An unknown email, a failing read and a wrong password are all a 401.
GetUserByEmail(c) ==
  /\ At(c, "getUserByEmail")
  /\ IF Taken(request[c].email) /\ users[request[c].email].password = request[c].password
     THEN Goto(c, "generateToken")
     ELSE Error(c, 401)
  /\ UNCHANGED <<tables, found, asked>>

\* A token for the user this call inserted, or read: ids never change.
GenerateToken(c) ==
  /\ At(c, "generateToken")
  /\ \/ request[c].kind = "register" /\ Answer(c, 201, c, {})
     \/ request[c].kind = "login" /\ Answer(c, 200, users[request[c].email].id, {})
     \/ "signing" \in scenario.faults /\ Error(c, 500)
  /\ UNCHANGED <<tables, found, asked>>

-----------------------------------------------------------------------------
(* Accounts. *)

\* Variant: OwnerID is built without Valid: true, and stored as NULL.
CreateAccount_OwnerInvalid(c) ==
  LET insert == owner' = [owner EXCEPT ![c] = Nobody]
  IN /\ At(c, "createAccount")
     /\ Write(c, insert, UNCHANGED owner, Answer(c, 201, None, {c}), 500)
     /\ UNCHANGED <<users, balance, entries, found, asked>>

CreateAccount(c) ==
  LET insert == owner' = [owner EXCEPT ![c] = UserOf(c)]
  IN /\ At(c, "createAccount")
     /\ Write(c, insert, UNCHANGED owner, Answer(c, 201, None, {c}), 500)
     /\ UNCHANGED <<users, balance, entries, found, asked>>

ListAccountsByOwner(c) ==
  /\ At(c, "listAccountsByOwner")
  /\ Answer(c, 200, None, {a \in Accounts : owner[a] = UserOf(c)})
  /\ UNCHANGED <<tables, found, asked>>

\* Variant: a transfer's source is loaded and its owner not compared.
Denied_NotForTransfers(c, a) ==
  request[c].kind # "transfer" /\ owner[a] # Nobody /\ owner[a] # UserOf(c)

\* acc.OwnerID.Valid && acc.OwnerID.UUID != userID
Denied(c, a) == owner[a] # Nobody /\ owner[a] # UserOf(c)

\* Every route with an account in it loads it first; a transfer loads the
\* account it takes from.  Any error of the load is a 404.
GetAccount(c) ==
  LET a == request[c].account
      next == CASE request[c].kind \in {"deposit", "withdraw", "transfer"} -> "ledger"
                [] request[c].kind = "entries" -> "listEntriesByAccount"
                [] request[c].kind = "reconcile" -> "readBalance"
                [] request[c].kind = "get" -> "respond"
  IN /\ At(c, "getAccount")
     /\ \/ owner[a] = Unopened /\ Error(c, 404)
        \/ owner[a] # Unopened /\ Denied(c, a) /\ Error(c, 403)
        \/ owner[a] # Unopened /\ ~Denied(c, a) /\ next = "respond" /\ Answer(c, 200, None, {a})
        \/ owner[a] # Unopened /\ ~Denied(c, a) /\ next # "respond" /\ Goto(c, next)
     /\ UNCHANGED <<tables, found, asked>>

-----------------------------------------------------------------------------
(* The ledger, as far as the handlers tell its answers apart. *)

Entry(c, a, side) == [tx |-> c, account |-> a, side |-> side]
Pair(c, from, to) == {Entry(c, from, "debit"), Entry(c, to, "credit")}
Legs(c) ==
  LET q == request[c]
  IN CASE q.kind = "deposit"  -> Pair(c, Settlement, q.account)
       [] q.kind = "withdraw" -> Pair(c, q.account, Settlement)
       [] q.kind = "transfer" -> Pair(c, q.account, q.to)

Rows(a) == {e \in entries : e.account = a}
Side(R, side) == {e \in R : e.side = side}
Net(R) == Cardinality(Side(R, "credit")) - Cardinality(Side(R, "debit"))

\* Both entries and both updates, in one transaction.
Post(c) ==
  /\ entries' = entries \cup Legs(c)
  /\ balance' = [a \in Accounts |-> balance[a] + Net({e \in Legs(c) : e.account = a})]
Nothing == UNCHANGED <<balance, entries>>

Asked(c, kind) == At(c, "ledger") /\ request[c].kind = kind

\* Refused for what the call asks of the ledger.
Refuse(c) ==
  /\ Error(c, 400)
  /\ UNCHANGED <<tables, found, asked>>

\* The ledger writes its pair of entries, or the answer is the code failure.
Operation(c, failure) ==
  /\ Write(c, Post(c), Nothing, Answer(c, 200, None, {}), failure)
  /\ UNCHANGED <<users, owner, found, asked>>

Deposit(c) ==
  /\ Asked(c, "deposit")
  /\ Operation(c, 500)

Withdraw(c) ==
  /\ Asked(c, "withdraw")
  /\ IF balance[request[c].account] < 1 THEN Refuse(c) ELSE Operation(c, 500)

\* Every error of a transfer is a 400.
Transfer(c) ==
  LET q == request[c]
  IN /\ Asked(c, "transfer")
     /\ IF q.to = q.account \/ owner[q.to] = Unopened \/ balance[q.account] < 1
        THEN Refuse(c)
        ELSE Operation(c, 400)

-----------------------------------------------------------------------------
(* Reading entries. *)

\* The rows GetEntries asks for: the limit of the query, at most MaxLimit.
PageSize(c) == IF request[c].limit < MaxLimit THEN request[c].limit ELSE MaxLimit

\* The first page.  Which entries are on it is the order of the rows, which
\* Listing.tla is about, and so is the offset; here any page is possible.
Pages(c, a) ==
  {P \in SUBSET Rows(a) : /\ Cardinality(P) <= PageSize(c)
                          /\ Cardinality(P) = PageSize(c) \/ P = Rows(a)}

ListEntriesByAccount(c) ==
  /\ At(c, "listEntriesByAccount")
  /\ \E P \in Pages(c, request[c].account) : Answer(c, 200, None, P)
  /\ UNCHANGED <<tables, found, asked>>

\* The first read of ReconcileAccount, of the cached balance.  Its two reads
\* are not one transaction.
ReadBalance(c) ==
  LET a == request[c].account
  IN /\ At(c, "readBalance")
     /\ found' = [found EXCEPT ![c] = [all |-> Rows(a), unchecked |-> {}, balance |-> balance[a]]]
     /\ Goto(c, "getAccountBalance")
     /\ UNCHANGED <<tables, asked>>

\* Variant: the query leaves out the debits.
GetAccountBalance_CreditsOnly(a) == Cardinality(Side(Rows(a), "credit"))

GetAccountBalance(a) == Net(Rows(a))

\* The second read, of the entries; a mismatch is a 500 that names the account.
ReconcileAccount(c) ==
  LET a == request[c].account
  IN /\ At(c, "getAccountBalance")
     /\ IF found[c].balance = GetAccountBalance(a)
        THEN Answer(c, 200, None, {})
        ELSE Answer(c, 500, None, {a})
     /\ UNCHANGED <<tables, found, asked>>

ListEntriesByTransaction(c) ==
  LET rows == {e \in entries : e.tx = request[c].tx}
  IN /\ At(c, "listEntriesByTransaction")
     /\ IF rows = {} THEN Error(c, 404) ELSE Goto(c, "authorize")
     /\ found' = [found EXCEPT ![c] = [all |-> rows, unchecked |-> rows, balance |-> 0]]
     /\ UNCHANGED <<tables, asked>>

\* Variant: the test of the other handlers, which lets an account without an
\* owner through.
Party_NotDenied(c, a) == ~Denied(c, a)

\* acc.OwnerID.Valid && acc.OwnerID.UUID == userID
Party(c, a) == owner[a] = UserOf(c)

\* One turn of GetTransactions' loop: the accounts of the entries, created at
\* the same instant and so in any order, until one belongs to the caller.
Authorize(c) ==
  /\ At(c, "authorize")
  /\ \/ /\ found[c].unchecked = {}
        /\ Error(c, 403)
        /\ UNCHANGED found
     \/ \E e \in found[c].unchecked :
          IF Party(c, e.account)
          THEN Answer(c, 200, None, found[c].all) /\ UNCHANGED found
          ELSE /\ Goto(c, "authorize")
               /\ found' = [found EXCEPT ![c].unchecked = @ \ {e}]
  /\ UNCHANGED <<tables, asked>>

-----------------------------------------------------------------------------
(* Faults, and the next-state relation. *)

ReadFails(c) ==
  \/ ReadError(c, "getUserByEmail", 401)
  \/ ReadError(c, "getAccount", 404)
  \/ \E place \in {"listAccountsByOwner", "listEntriesByAccount", "readBalance",
                   "getAccountBalance", "listEntriesByTransaction", "authorize"} : ReadError(c, place, 500)

\* The process ends and is started again: the calls in flight get no answer.
Crash ==
  LET inFlight == {c \in Calls : pc[c] \notin {"unsent", "done"}}
  IN /\ "crash" \in scenario.faults
     /\ inFlight # {}
     /\ pc' = [c \in Calls |-> IF c \in inFlight THEN "done" ELSE pc[c]]
     /\ UNCHANGED <<tables, found, reply, asked>>

Statement(c) ==
  \/ HashingFails(c) \/ CreateUser(c) \/ GetUserByEmail(c) \/ GenerateToken(c)
  \/ CreateAccount(c) \/ ListAccountsByOwner(c) \/ GetAccount(c)
  \/ Deposit(c) \/ Withdraw(c) \/ Transfer(c)
  \/ ListEntriesByAccount(c) \/ ReadBalance(c) \/ ReconcileAccount(c)
  \/ ListEntriesByTransaction(c) \/ Authorize(c)
  \/ Malformed(c) \/ MalformedAmount(c) \/ ReadFails(c)

Idle ==
  /\ \A c \in Sent : At(c, "done")
  /\ UNCHANGED vars

Next ==
  \/ \E c \in Sent : Send(c)
  \/ \E c \in Calls : Statement(c)
  \/ Crash
  \/ Idle

Spec == Init /\ [][Next]_vars

-----------------------------------------------------------------------------
(* Properties. *)

Places == {FirstStatement(kind) : kind \in Kinds} \cup
  {"generateToken", "ledger", "listEntriesByAccount", "readBalance", "getAccountBalance", "authorize"}

\* Types: an account's owner is a registered user.
Registered == {users[m].id : m \in Emails} \ {None}
TypeOK ==
  /\ \A m \in Emails : users[m].id \in Calls \cup {None}
  /\ owner \in [Accounts -> Registered \cup {Nobody, Unopened}]
  /\ balance \in [Accounts -> Int]
  /\ entries \subseteq [tx : Calls, account : Accounts, side : {"debit", "credit"}]
  /\ pc \in [Calls -> Places \cup {"unsent", "done"}]
  /\ \A c \in Calls : found[c].unchecked \subseteq found[c].all
  /\ \A c \in Calls : reply[c].code \in {0, 200, 201, 400, 401, 403, 404, 409, 500}
  /\ before \in [Calls -> SUBSET Calls]

SameCredentials(c, d) ==
  request[c].email = request[d].email /\ request[c].password = request[d].password

\* The user a call registered is in the table, whatever its answer was: a
\* failing token or a lost acknowledgement comes after the insert.
Inserted(c) == request[c].kind = "register" /\ users[request[c].email].id = c

\* An email and a password that were registered work from then on: no login
\* sent after Register answered is refused, and no other registration takes
\* the email over.  It is so after a 201, and also when Register itself failed
\* after its insert.  (With no failing reads: Login answers 401 to those too.)
RegistrationsHold ==
  \A c, d \in Calls :
    /\ "read" \notin scenario.faults
    /\ c \in before[d] /\ d \in Answered
    /\ request[c].kind = "register" /\ (reply[c].code = 201 \/ Inserted(c))
    => /\ request[d].kind = "login" /\ SameCredentials(c, d) => reply[d].code # 401
       /\ request[d].kind = "register" /\ request[d].email = request[c].email =>
            reply[d].code # 201 /\ ~Inserted(d)

\* Whatever runs between the check of an account's owner and the transaction
\* that debits it: the token the debiting call carries was the answer to a
\* call with the email and password the owner registered with.
OwnerDebits ==
  \A e \in entries :
    e.side = "debit" /\ e.account # Settlement =>
      LET token == request[e.tx].as
      IN token \in Calls /\ SameCredentials(token, owner[e.account])

\* What a call is shown belongs to its user or to nobody; of a transaction it
\* is shown both entries, and only if one of them is on an account of its own.
OwnDataOnly ==
  \A c \in Calls : reply[c].code = 200 =>
    /\ request[c].kind \in {"get", "list"} =>
         \A a \in reply[c].rows : owner[a] \in {UserOf(c), Nobody}
    /\ request[c].kind = "entries" =>
         \A e \in reply[c].rows : owner[e.account] \in {UserOf(c), Nobody}
    /\ request[c].kind = "transaction" =>
         /\ \E e \in reply[c].rows : owner[e.account] = UserOf(c)
         /\ reply[c].rows = Legs(request[c].tx)

\* What was acknowledged is seen by every call sent afterwards: accounts in
\* the list of their owner, entries in the listing of their account when its
\* page is not full, and a transaction under its id.
Acknowledged(c, kinds) == {d \in before[c] : request[d].kind \in kinds /\ reply[d].code \in {200, 201}}
ReadYourWrites ==
  \A c \in Answered :
    /\ request[c].kind = "list" /\ reply[c].code = 200 =>
         {d \in Acknowledged(c, {"create"}) : UserOf(d) = UserOf(c)} \subseteq reply[c].rows
    /\ request[c].kind = "entries" /\ reply[c].code = 200 /\ Cardinality(reply[c].rows) < PageSize(c) =>
         \A d \in Acknowledged(c, {"deposit", "withdraw", "transfer"}) :
           {e \in Legs(d) : e.account = request[c].account} \subseteq reply[c].rows
    /\ request[c].kind = "transaction" /\ reply[c].code = 404 =>
         request[c].tx \notin Acknowledged(c, {"deposit", "withdraw", "transfer"})

\* The verdict of ReconcileAccount is about what was committed between its two
\* reads: a mismatch exactly when the entries of the account posted in between
\* change its balance.  A sound account is reported as corrupted by one
\* deposit at the wrong moment; "matched" may hide commits that cancel out.
VerdictMeansNetChange ==
  [][\A c \in Calls :
       At(c, "getAccountBalance") /\ reply'[c] # NoReply =>
         LET between == Rows(request[c].account) \ found[c].all
         IN /\ reply'[c].code = 200 => Net(between) = 0
            /\ reply'[c].rows # {} => Net(between) # 0]_vars

\* What the comment in ReconcileAccount says of a mismatch: the cached balance
\* has drifted from the entries.  It does not hold: both may be right at every
\* moment and a commit run between the two reads.
MismatchMeansDrift ==
  \A c \in Calls :
    request[c].kind = "reconcile" /\ reply[c].rows # {} =>
      balance[request[c].account] # GetAccountBalance(request[c].account)
=============================================================================
