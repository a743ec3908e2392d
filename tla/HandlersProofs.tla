---------------------------- MODULE HandlersProofs ----------------------------
(***************************************************************************)
(* What the handlers guarantee for any calls, in any interleaving of their *)
(* statements and with any of the faults.                                  *)
(*                                                                         *)
(* No handler holds anything between its statements, so the argument rests *)
(* on what never changes back (Grows): a row once inserted stays as it is, *)
(* and a call once answered keeps its answer.  What a call has found out   *)
(* (Going) and what it was told is therefore still true later.             *)
(***************************************************************************)
EXTENDS Handlers, FiniteSetTheorems, TLAPS

Money == {"deposit", "withdraw", "transfer"}
Codes == {0, 200, 201, 400, 401, 403, 404, 409, 500}
Row == [tx : Calls, account : Accounts, side : {"debit", "credit"}]
InFlight(c) == pc[c] \notin {"unsent", "done"}

\* Shapes of the variables.
Shapes ==
  /\ scenario \in Scenarios
  /\ users = [m \in Emails |-> users[m]]
  /\ owner \in [Accounts -> Calls \cup {Nobody, Unopened}]
  /\ balance \in [Accounts -> Int]
  /\ entries \in SUBSET Row
  /\ request = [c \in Calls |-> request[c]]
  /\ pc \in [Calls -> Places \cup {"unsent", "done"}]
  /\ found \in [Calls -> [all : SUBSET Row, unchecked : SUBSET Row, balance : Int]]
  /\ reply \in [Calls -> [code : Codes, user : Calls \cup {None}, rows : SUBSET (Accounts \cup Row)]]
  /\ before \in [Calls -> SUBSET Calls]

\* A row of users is what a registration asked for.
UserRow(m) ==
  LET u == users[m].id
  IN u # None => /\ u \in Calls /\ pc[u] # "unsent" /\ request[u].kind = "register"
                 /\ request[u].email = m /\ request[u].password = users[m].password

\* An account with an owner is one its owner created.
AccountRow(a) ==
  owner[a] # Unopened =>
    /\ pc[a] = "done" /\ request[a].kind = "create"
    /\ UserOf(a) # None /\ owner[a] = UserOf(a)

\* The caller may use account a.
May(c, a) == owner[a] \in {UserOf(c), Nobody}

\* An entry is one of a pair, both written by a call allowed to.
EntryRow(e) ==
  LET c == e.tx
  IN /\ pc[c] = "done" /\ request[c].kind \in Money
     /\ e \in Legs(c) /\ Legs(c) \subseteq entries
     /\ UserOf(c) # None /\ May(c, request[c].account)

\* The cached balances agree with the entries.
Cached(a) == balance[a] = Net(Rows(a))

Rowwise ==
  /\ \A m \in Emails : UserRow(m)
  /\ owner[Settlement] = Nobody
  /\ \A a \in Calls : AccountRow(a)
  /\ IsFiniteSet(entries)
  /\ \A e \in entries : EntryRow(e)
  /\ \A a \in Accounts : Cached(a)

\* The credentials of call c are those of user u.
Credentials(c, u) ==
  users[request[c].email].id = u /\ users[request[c].email].password = request[c].password

\* What has been sent, and when.
Sending(c) ==
  /\ pc[c] = "unsent" => before[c] = {}
  /\ pc[c] # "unsent" => c \in Sent /\ request[c] \in scenario.script[c]
  /\ reply[c] # NoReply => pc[c] = "done"
  /\ \A b \in before[c] : reply[b] # NoReply /\ b # c
  /\ found[c].unchecked \subseteq found[c].all

\* What a call in flight is, and has found out.
KindFits(c) ==
  LET p == pc[c]
      kind == request[c].kind
  IN /\ p = "createUser" => kind = "register"
     /\ p = "getUserByEmail" => kind = "login"
     /\ p = "generateToken" => kind \in Public
     /\ p = "createAccount" => kind = "create"
     /\ p = "listAccountsByOwner" => kind = "list"
     /\ p = "getAccount" => kind \in OnAccount
     /\ p = "ledger" => kind \in Money
     /\ p = "listEntriesByAccount" => kind = "entries"
     /\ p \in {"readBalance", "getAccountBalance"} => kind = "reconcile"
     /\ p \in {"listEntriesByTransaction", "authorize"} => kind = "transaction"

\* Call c has been made.
Known(c) == c \in Calls /\ pc[c] # "unsent"

Going(c) ==
  LET p == pc[c]
      q == request[c]
  IN InFlight(c) =>
       /\ KindFits(c)
       /\ q.kind \notin Public => UserOf(c) # None
       /\ p = "generateToken" => Credentials(c, users[q.email].id) /\ users[q.email].id # None
       /\ p = "generateToken" /\ q.kind = "register" => users[q.email].id = c
       /\ p \in {"ledger", "listEntriesByAccount", "readBalance", "getAccountBalance"} => May(c, q.account)
       /\ p = "getAccountBalance" =>
            found[c].all \subseteq Rows(q.account) /\ found[c].balance = Net(found[c].all)
       /\ p = "authorize" =>
            found[c].all \subseteq entries /\ Known(q.tx) /\ found[c].all = Legs(q.tx)

\* What the answer of a call says.
Registering(c) ==
  LET q == request[c]
      r == reply[c]
  IN /\ r.user # None => q.kind \in Public /\ Credentials(c, r.user)
     /\ q.kind = "register" /\ r.code = 201 => Credentials(c, c)
     /\ q.kind = "login" /\ r.code = 401 /\ "read" \notin scenario.faults =>
          \A b \in before[c] :
            request[b].kind = "register" /\ Credentials(b, b) => ~SameCredentials(b, c)

Writing(c) ==
  LET q == request[c]
      ok == reply[c].code \in {200, 201}
  IN /\ ok /\ q.kind \notin Public => UserOf(c) # None
     /\ ok /\ q.kind = "create" => owner[c] = UserOf(c)
     /\ ok /\ q.kind \in Money => Legs(c) \subseteq entries

Showing(c) ==
  LET q == request[c]
      rows == reply[c].rows
  IN reply[c].code = 200 =>
       /\ q.kind \in {"get", "list"} => rows \subseteq Accounts /\ \A a \in rows : May(c, a)
       /\ q.kind = "entries" => rows \subseteq Row /\ \A e \in rows : May(c, e.account)
       /\ q.kind = "transaction" =>
            /\ Known(q.tx) /\ rows = Legs(q.tx) /\ rows \subseteq entries
            /\ \E e \in rows : owner[e.account] = UserOf(c)

Reading(c) ==
  LET q == request[c]
      r == reply[c]
  IN /\ q.kind = "list" /\ r.code = 200 =>
          {d \in Acknowledged(c, {"create"}) : UserOf(d) = UserOf(c)} \subseteq r.rows
     /\ q.kind = "entries" /\ r.code = 200 /\ Cardinality(r.rows) < PageSize(c) =>
          \A d \in Acknowledged(c, Money) : {e \in Legs(d) : e.account = q.account} \subseteq r.rows
     /\ q.kind = "transaction" /\ r.code = 404 => q.tx \notin Acknowledged(c, Money)

CallOK(c) ==
  Sending(c) /\ Going(c) /\ Registering(c) /\ Writing(c) /\ Showing(c) /\ Reading(c)

HInv == Shapes /\ Rowwise /\ \A c \in Calls : CallOK(c)

-----------------------------------------------------------------------------
(* What never changes back. *)

TablesGrow ==
  /\ \A m \in Emails : Taken(m) => users'[m] = users[m]
  /\ \A a \in Accounts : owner[a] # Unopened => owner'[a] = owner[a]
  /\ entries \subseteq entries'
  /\ \A m \in Emails : users'[m] # users[m] => pc[users'[m].id] = "createUser"

Grows ==
  /\ scenario' = scenario /\ TablesGrow
  /\ \A c \in Calls : reply[c] # NoReply => reply'[c] = reply[c]
  /\ \A c \in Calls : pc[c] # "unsent" =>
       pc'[c] # "unsent" /\ request'[c] = request[c] /\ before'[c] = before[c]
  /\ \A c \in Calls : pc[c] = "done" => pc'[c] = "done"

\* A call's user, once known, stays.
LEMMA UserKept ==
  ASSUME Grows, NEW c \in Calls, pc[c] # "unsent", UserOf(c) # None
  PROVE  UserOf(c)' = UserOf(c)
<1> DEFINE token == request[c].as
<1>1. token \in Calls /\ reply[token].user # None
  BY DEF UserOf, Claim
<1>2. reply[token] # NoReply
  BY <1>1 DEF NoReply
<1>3. reply'[token] = reply[token] /\ request'[c] = request[c]
  BY <1>1, <1>2 DEF Grows
<1> QED
  BY <1>1, <1>3 DEF UserOf, Claim

\* A user is a call that registered.
LEMMA UserIsCall ==
  ASSUME Shapes, NEW c \in Calls, UserOf(c) # None
  PROVE  UserOf(c) \in Calls /\ request[c].as \in Calls
BY DEF Shapes, UserOf, Claim

\* What a call may use, it may use from then on.
LEMMA MayKept ==
  ASSUME Shapes, Grows, NEW c \in Calls, pc[c] # "unsent", UserOf(c) # None,
         NEW a \in Accounts, May(c, a)
  PROVE  May(c, a)' /\ owner'[a] = owner[a]
<1>1. UserOf(c) \in Calls /\ UserOf(c)' = UserOf(c)
  BY UserIsCall, UserKept
<1>2. owner[a] # Unopened
  BY <1>1, HandlersAssumption DEF May, Unopened, Nobody
<1>3. owner'[a] = owner[a]
  BY <1>2 DEF Grows, TablesGrow
<1> QED
  BY <1>1, <1>3 DEF May

\* The fields of a request are what its kind calls for.
LEMMA RequestTypes ==
  ASSUME Shapes, NEW c \in Calls, Sending(c), pc[c] # "unsent"
  PROVE  /\ request[c].kind \in Kinds
         /\ request[c].kind \in OnAccount => request[c].account \in Accounts
         /\ request[c].kind = "transfer" => request[c].to \in Accounts
         /\ request[c].kind \in Public => request[c].email \in Emails
         /\ request[c].kind = "entries" => PageSize(c) \in Nat
<1>1. c \in DOMAIN scenario.script /\ request[c] \in scenario.script[c] /\ scenario \in Scenarios
  BY DEF Sending, Shapes, Sent
<1>2. /\ request[c].kind \in Kinds
      /\ request[c].kind \in OnAccount => request[c].account \in Accounts
      /\ request[c].kind = "transfer" => request[c].to \in Accounts
      /\ request[c].kind = "entries" => PageSize(c) \in Nat
  BY <1>1, HandlersAssumption DEF Accounts, PageSize
<1>3. request[c].kind \in Public => request[c].email \in Emails
  BY <1>1 DEF Emails, Sent
<1> QED
  BY <1>2, <1>3

\* An email and password that are in the table stay in it.
LEMMA CredentialsKept ==
  ASSUME Shapes, Grows, NEW c \in Calls, Sending(c), pc[c] # "unsent",
         request[c].kind \in Public, NEW u, u # None, Credentials(c, u)
  PROVE  users'[request[c].email] = users[request[c].email] /\ Credentials(c, u)'
<1>1. request[c].email \in Emails /\ request'[c] = request[c]
  BY RequestTypes DEF Grows
<1>2. users'[request[c].email] = users[request[c].email]
  BY <1>1 DEF Grows, TablesGrow, Taken, Credentials
<1> QED
  BY <1>1, <1>2 DEF Credentials

\* A call that was answered registers nothing any more.
LEMMA CredentialsBack ==
  ASSUME HInv, Grows, NEW c \in Calls, pc[c] = "done", request[c].kind = "register", Credentials(c, c)'
  PROVE  Credentials(c, c)
<1>1. request[c].email \in Emails /\ request'[c] = request[c]
  BY RequestTypes DEF HInv, CallOK, Grows, Public
<1>2. users'[request[c].email].id = c /\ pc[c] # "createUser"
  BY <1>1 DEF Credentials
<1>3. users'[request[c].email] = users[request[c].email]
  BY <1>1, <1>2 DEF Grows, TablesGrow
<1> QED
  BY <1>1, <1>3 DEF Credentials

\* The entries a call writes depend on its request alone.
LEMMA LegsKept ==
  ASSUME Grows, NEW c \in Calls, pc[c] # "unsent"
  PROVE  Legs(c)' = Legs(c)
<1>1. request'[c] = request[c]
  BY DEF Grows
<1> QED
  BY <1>1 DEF Legs, Pair, Entry

\* Legs have the shape of rows and name their call.
LEMMA LegsShape ==
  ASSUME Shapes, NEW c \in Calls, Sending(c), pc[c] # "unsent", request[c].kind \in Money
  PROVE  /\ Legs(c) \subseteq Row /\ Legs(c) # {} /\ IsFiniteSet(Legs(c))
         /\ \A e \in Legs(c) : e.tx = c
         /\ \A e \in Legs(c) : e.side = "debit" => e.account \in {Settlement, request[c].account}
<1>1. PICK x \in Accounts, y \in Accounts :
        Legs(c) = Pair(c, x, y) /\ x \in {Settlement, request[c].account}
  <2>1. request[c].account \in Accounts /\ Settlement \in Accounts
    BY RequestTypes DEF Money, OnAccount, Accounts
  <2>2. CASE request[c].kind = "deposit"
    BY <2>1, <2>2 DEF Legs
  <2>3. CASE request[c].kind = "withdraw"
    BY <2>1, <2>3 DEF Legs
  <2>4. CASE request[c].kind = "transfer"
    BY <2>1, <2>4, RequestTypes DEF Legs
  <2> QED
    BY <2>2, <2>3, <2>4 DEF Money
<1>2. Legs(c) = {Entry(c, x, "debit"), Entry(c, y, "credit")}
  BY <1>1 DEF Pair
<1>3. IsFiniteSet(Legs(c))
  <2>1. IsFiniteSet({Entry(c, x, "debit")} \cup {Entry(c, y, "credit")})
    BY FS_Singleton, FS_Union
  <2> QED
    BY <1>2, <2>1
<1> QED
  BY <1>1, <1>2, <1>3 DEF Entry, Row

\* A call of which nothing changes keeps what it knows and was told.
LEMMA CallKept ==
  ASSUME HInv, Grows, NEW c \in Calls, pc'[c] = pc[c], request'[c] = request[c],
         before'[c] = before[c], reply'[c] = reply[c], found'[c] = found[c]
  PROVE  CallOK(c)'
<1> DEFINE q == request[c]
<1>1. Shapes /\ CallOK(c)
  BY DEF HInv
<1>2. Sending(c)'
  <2>1. Sending(c) /\ scenario' = scenario /\ before[c] \subseteq Calls
    BY <1>1 DEF CallOK, Grows, Shapes
  <2>2. \A b \in before[c] : reply'[b] # NoReply /\ b # c
    BY <2>1 DEF Sending, Grows
  <2> QED
    BY <2>1, <2>2 DEF Sending, Sent
<1>3. CASE pc[c] = "unsent"
  <2>1. reply[c] = NoReply
    BY <1>1, <1>3 DEF CallOK, Sending
  <2>2. Going(c)'
    BY <1>3 DEF Going, InFlight
  <2>3. Registering(c)'
    BY <2>1 DEF Registering, NoReply
  <2>4. Writing(c)' /\ Showing(c)' /\ Reading(c)'
    BY <2>1 DEF Writing, Showing, Reading, NoReply
  <2> QED
    BY <1>2, <2>2, <2>3, <2>4 DEF CallOK
<1>4. CASE pc[c] # "unsent"
  <2>1. Sending(c)
    BY <1>1 DEF CallOK
  <2>2. Going(c)'
    <3> SUFFICES ASSUME InFlight(c) PROVE Going(c)'
      BY DEF Going, InFlight
    <3>1. Going(c) /\ KindFits(c) /\ KindFits(c)'
      BY <1>1 DEF CallOK, Going, KindFits
    <3>2. q.kind \notin Public => UserOf(c) # None /\ UserOf(c)' = UserOf(c)
      BY <1>4, <3>1, UserKept DEF Going
    <3>3. pc[c] = "generateToken" =>
            /\ users[q.email].id # None /\ users'[q.email] = users[q.email]
            /\ Credentials(c, users[q.email].id)'
      BY <1>1, <1>4, <2>1, <3>1, CredentialsKept DEF Going, KindFits
    <3>4. pc[c] \in {"ledger", "listEntriesByAccount", "readBalance", "getAccountBalance"} =>
            May(c, q.account)'
      <4> SUFFICES ASSUME pc[c] \in {"ledger", "listEntriesByAccount", "readBalance", "getAccountBalance"}
                   PROVE  May(c, q.account)'
        OBVIOUS
      <4>1. q.kind \in OnAccount /\ q.kind \notin Public
        BY <3>1 DEF KindFits, Money, OnAccount, Public
      <4>2. q.account \in Accounts /\ UserOf(c) # None /\ May(c, q.account)
        BY <1>1, <1>4, <2>1, <3>1, <3>2, <4>1, RequestTypes DEF Going
      <4>3. \A a \in Accounts : May(c, a) => May(c, a)'
        BY <1>1, <1>4, <4>2, MayKept
      <4> QED
        BY <4>2, <4>3
    <3>5. pc[c] = "getAccountBalance" => found'[c].all \subseteq Rows(q.account)'
      BY <3>1 DEF Going, Rows, Grows, TablesGrow
    <3>6. pc[c] = "authorize" =>
            found[c].all \subseteq entries' /\ Known(q.tx)' /\ found[c].all = Legs(q.tx)'
      <4> SUFFICES ASSUME pc[c] = "authorize"
                   PROVE  found[c].all \subseteq entries' /\ Known(q.tx)' /\ found[c].all = Legs(q.tx)'
        OBVIOUS
      <4>1. found[c].all \subseteq entries /\ Known(q.tx) /\ found[c].all = Legs(q.tx)
        BY <3>1 DEF Going
      <4>2. \A d \in Calls : Known(d) => Legs(d)' = Legs(d) /\ Known(d)'
        BY LegsKept DEF Known, Grows
      <4>3. q.tx \in Calls
        BY <4>1 DEF Known
      <4> QED
        BY <4>1, <4>2, <4>3 DEF Grows, TablesGrow
    <3> QED
      BY <3>1, <3>2, <3>3, <3>4, <3>5, <3>6 DEF Going, Credentials, Net, Side
  <2>3. Registering(c)'
    <3>1. Registering(c) /\ request'[c] = request[c] /\ scenario' = scenario
      BY <1>1 DEF CallOK, Grows
    <3>2. reply[c].user # None => q.kind \in Public /\ Credentials(c, reply[c].user)'
      BY <1>1, <1>4, <2>1, <3>1, CredentialsKept DEF Registering
    <3>3. q.kind = "register" /\ reply[c].code = 201 => Credentials(c, c)'
      BY <1>1, <1>4, <2>1, <3>1, CredentialsKept, HandlersAssumption DEF Registering, Public
    <3>4. \A b \in before[c] :
            /\ request'[b] = request[b]
            /\ request[b].kind = "register" /\ Credentials(b, b)' => Credentials(b, b)
      <4>1. \A b \in before[c] : b \in Calls /\ pc[b] = "done" /\ request'[b] = request[b]
        BY <1>1, <2>1 DEF HInv, Sending, Grows, CallOK, Shapes
      <4> QED
        BY <4>1, CredentialsBack
    <3> QED
      BY <3>1, <3>2, <3>3, <3>4 DEF Registering, SameCredentials
  <2>4. UserOf(c) # None => UserOf(c)' = UserOf(c)
    BY <1>4, UserKept
  <2>5. Writing(c)'
    <3>1. Writing(c)
      BY <1>1 DEF CallOK
    <3>2. CASE reply[c].code \in {200, 201} /\ q.kind = "create"
      <4>1. UserOf(c) # None /\ UserOf(c) \in Calls /\ owner[c] = UserOf(c) /\ c \in Accounts
        BY <1>1, <3>1, <3>2, UserIsCall DEF Writing, Public, Accounts
      <4>2. owner'[c] = owner[c]
        BY <4>1, HandlersAssumption DEF Grows, TablesGrow, Unopened
      <4> QED
        BY <2>4, <3>2, <4>1, <4>2 DEF Writing, Money
    <3>3. CASE reply[c].code \in {200, 201} /\ q.kind # "create"
      BY <1>4, <2>4, <3>1, <3>3, LegsKept DEF Writing, Grows, TablesGrow
    <3>4. CASE reply[c].code \notin {200, 201}
      BY <3>4 DEF Writing
    <3> QED
      BY <3>2, <3>3, <3>4
  <2>6. Showing(c)'
    <3> SUFFICES ASSUME reply[c].code = 200, q.kind \in {"get", "list", "entries", "transaction"}
                 PROVE  Showing(c)'
      BY DEF Showing
    <3>1. Showing(c) /\ UserOf(c) # None /\ UserOf(c)' = UserOf(c)
      BY <1>1, <2>4 DEF CallOK, Writing, Public
    <3>2. \A a \in Accounts : May(c, a) => May(c, a)' /\ owner'[a] = owner[a]
      BY <1>1, <1>4, <3>1, MayKept
    <3>3. CASE q.kind \in {"get", "list"}
      BY <3>1, <3>2, <3>3 DEF Showing
    <3>4. CASE q.kind = "entries"
      <4>1. \A e \in reply[c].rows : e.account \in Accounts /\ May(c, e.account)
        BY <3>1, <3>4 DEF Showing, Row
      <4> QED
        BY <3>1, <3>2, <3>4, <4>1 DEF Showing
    <3>5. CASE q.kind = "transaction"
      <4>1. /\ Known(q.tx) /\ reply[c].rows = Legs(q.tx) /\ reply[c].rows \subseteq entries
            /\ \E e \in reply[c].rows : owner[e.account] = UserOf(c)
        BY <3>1, <3>5 DEF Showing
      <4>2. Known(q.tx)' /\ Legs(q.tx)' = Legs(q.tx)
        <5>1. \A d \in Calls : Known(d) => Legs(d)' = Legs(d) /\ Known(d)'
          BY LegsKept DEF Known, Grows
        <5>2. q.tx \in Calls
          BY <4>1 DEF Known
        <5> QED
          BY <4>1, <5>1, <5>2
      <4>3. reply[c].rows \subseteq entries'
        BY <4>1 DEF Grows, TablesGrow
      <4>4. \E e \in reply[c].rows : owner'[e.account] = UserOf(c)
        <5>1. PICK e \in reply[c].rows : owner[e.account] = UserOf(c)
          BY <4>1
        <5>2. e.account \in Accounts
          BY <1>1, <4>1 DEF Shapes, Row
        <5> QED
          BY <3>2, <5>1, <5>2 DEF May
      <4> QED
        BY <3>1, <3>5, <4>1, <4>2, <4>3, <4>4 DEF Showing
    <3> QED
      BY <3>3, <3>4, <3>5
  <2>7. Reading(c)'
    <3>1. Reading(c)
      BY <1>1 DEF CallOK
    <3>2. \A b \in before[c] : b \in Calls /\ reply'[b] = reply[b] /\ pc[b] = "done" /\ request'[b] = request[b]
      BY <1>1, <2>1 DEF HInv, Sending, Grows, CallOK, Shapes
    <3>3. \A K : Acknowledged(c, K)' = Acknowledged(c, K)
      BY <3>2 DEF Acknowledged
    <3>4. \A d \in Acknowledged(c, {"create"}) : UserOf(d)' = UserOf(d)
      <4>1. \A d \in Acknowledged(c, {"create"}) : d \in Calls /\ pc[d] = "done" /\ UserOf(d) # None
        BY <3>2 DEF Acknowledged, HInv, CallOK, Writing, Public
      <4> QED
        BY <4>1, UserKept
    <3>5. \A d \in Acknowledged(c, Money) : Legs(d)' = Legs(d)
      BY <3>2, LegsKept DEF Acknowledged
    <3>6. CASE q.kind = "list" /\ reply[c].code = 200
      <4>1. UserOf(c)' = UserOf(c)
        BY <1>1, <2>4, <3>6 DEF CallOK, Writing, Public
      <4> QED
        BY <3>1, <3>3, <3>4, <3>6, <4>1 DEF Reading
    <3>7. CASE q.kind = "entries" /\ reply[c].code = 200
      BY <3>1, <3>3, <3>5, <3>7 DEF Reading, PageSize
    <3>8. CASE q.kind = "transaction" /\ reply[c].code = 404
      BY <3>1, <3>3, <3>8 DEF Reading
    <3> QED
      BY <3>6, <3>7, <3>8 DEF Reading
  <2> QED
    BY <1>2, <2>2, <2>3, <2>5, <2>6, <2>7 DEF CallOK
<1> QED
  BY <1>3, <1>4

\* Rows keep what is true of them; only the new ones of a step need a look.
LEMMA RowsKept ==
  ASSUME HInv, Grows
  PROVE  /\ \A m \in Emails : users'[m] = users[m] => UserRow(m)'
         /\ \A a \in Calls : owner'[a] = owner[a] => AccountRow(a)'
         /\ \A e \in entries : EntryRow(e)'
<1>1. Shapes
  BY DEF HInv
<1>2. ASSUME NEW m \in Emails, users'[m] = users[m] PROVE UserRow(m)'
  <2>1. UserRow(m)
    BY DEF HInv, Rowwise
  <2> QED
    BY <1>2, <2>1 DEF UserRow, Grows
<1>3. ASSUME NEW a \in Calls, owner'[a] = owner[a] PROVE AccountRow(a)'
  <2>1. AccountRow(a)
    BY DEF HInv, Rowwise
  <2>2. CASE owner[a] = Unopened
    BY <1>3, <2>2 DEF AccountRow, Unopened
  <2>3. CASE owner[a] # Unopened
    <3>1. pc[a] = "done" /\ UserOf(a) # None
      BY <2>1, <2>3 DEF AccountRow
    <3>2. UserOf(a)' = UserOf(a)
      BY <3>1, UserKept
    <3> QED
      BY <1>3, <2>1, <2>3, <3>1, <3>2 DEF AccountRow, Grows
  <2> QED
    BY <2>2, <2>3
<1>4. ASSUME NEW e \in entries PROVE EntryRow(e)'
  <2> DEFINE c == e.tx
  <2>1. EntryRow(e) /\ c \in Calls
    BY <1>1 DEF HInv, Rowwise, Shapes, Row
  <2>2. /\ pc[c] = "done" /\ request[c].kind \in Money /\ e \in Legs(c) /\ Legs(c) \subseteq entries
        /\ UserOf(c) # None /\ May(c, request[c].account)
    BY <2>1 DEF EntryRow
  <2>3. pc'[c] = "done" /\ request'[c] = request[c] /\ Legs(c)' = Legs(c) /\ UserOf(c)' = UserOf(c)
    BY <2>1, <2>2, LegsKept, UserKept DEF Grows
  <2>4. request[c].account \in Accounts
    BY <1>1, <2>1, <2>2, RequestTypes DEF HInv, CallOK, Money, OnAccount
  <2>5. \A a \in Accounts : May(c, a) => May(c, a)'
    BY <1>1, <2>1, <2>2, MayKept
  <2> QED
    BY <2>2, <2>3, <2>4, <2>5 DEF EntryRow, Grows, TablesGrow
<1> QED
  BY <1>2, <1>3, <1>4

-----------------------------------------------------------------------------
(* A step of one call. *)

Replies == [code : Codes, user : Calls \cup {None}, rows : SUBSET (Accounts \cup Row)]
Founds == [all : SUBSET Row, unchecked : SUBSET Row, balance : Int]

\* What a call notes for its next statement.
Notes(c) == \E f \in Founds : found' = [found EXCEPT ![c] = f]

Moves(c) ==
  /\ InFlight(c)
  /\ UNCHANGED <<scenario, request, before>>
  /\ \E p \in Places \cup {"done"} : pc' = [pc EXCEPT ![c] = p]
  /\ \E r \in Replies : reply' = [reply EXCEPT ![c] = r]
  /\ Notes(c)

\* No place is called unsent or done.
LEMMA PlaceNames == "unsent" \notin Places /\ "done" \notin Places
<1>1. \A kind \in Kinds : FirstStatement(kind) \notin {"unsent", "done"}
  BY DEF FirstStatement, Kinds, Public, OnAccount
<1> QED
  BY <1>1 DEF Places

\* What a step of one call leaves of the others.
LEMMA MovesFrame ==
  ASSUME HInv, NEW c \in Calls, Moves(c), TablesGrow
  PROVE  /\ Grows
         /\ \A d \in Calls \ {c} : /\ pc'[d] = pc[d] /\ request'[d] = request[d]
                                   /\ before'[d] = before[d] /\ reply'[d] = reply[d]
                                   /\ found'[d] = found[d]
         /\ pc' \in [Calls -> Places \cup {"unsent", "done"}]
         /\ found' \in [Calls -> Founds] /\ reply' \in [Calls -> Replies]
<1>1. Shapes /\ InFlight(c) /\ UNCHANGED <<scenario, request, before>> /\ Sending(c)
  BY DEF HInv, Moves, CallOK
<1>2. PICK p \in Places \cup {"done"} : pc' = [pc EXCEPT ![c] = p]
  BY DEF Moves
<1>3. PICK r \in Replies : reply' = [reply EXCEPT ![c] = r]
  BY DEF Moves
<1>4. PICK f \in Founds : found' = [found EXCEPT ![c] = f]
  BY DEF Moves, Notes
<1>5. pc \in [Calls -> Places \cup {"unsent", "done"}] /\ found \in [Calls -> Founds] /\ reply \in [Calls -> Replies]
  BY <1>1 DEF Shapes, Founds, Replies
<1>6. /\ pc' \in [Calls -> Places \cup {"unsent", "done"}]
      /\ found' \in [Calls -> Founds] /\ reply' \in [Calls -> Replies]
  BY <1>2, <1>3, <1>4, <1>5
<1>7. \A d \in Calls \ {c} : pc'[d] = pc[d] /\ reply'[d] = reply[d] /\ found'[d] = found[d]
  BY <1>2, <1>3, <1>4, <1>5
<1>8. pc'[c] # "unsent" /\ pc[c] # "done" /\ reply[c] = NoReply
  BY <1>1, <1>2, <1>5, PlaceNames DEF InFlight, Sending
<1> QED
  BY <1>1, <1>6, <1>7, <1>8 DEF Grows

\* A step of one call preserves the invariant when its new rows and the call
\* itself do.
LEMMA CallStep ==
  ASSUME HInv, NEW c \in Calls, Moves(c), TablesGrow,
         users' = [m \in Emails |-> users'[m]], owner' \in [Accounts -> Calls \cup {Nobody, Unopened}],
         balance' \in [Accounts -> Int], entries' \in SUBSET Row,
         Rowwise', CallOK(c)'
  PROVE  HInv'
<1>1. Shapes /\ UNCHANGED <<scenario, request, before>>
  BY DEF HInv, Moves
<1>2. Emails' = Emails /\ Sent' = Sent
  BY <1>1 DEF Emails, Sent
<1>3. Shapes'
  BY <1>1, <1>2, MovesFrame DEF Shapes, Founds, Replies
<1>4. \A d \in Calls : CallOK(d)'
  BY MovesFrame, CallKept
<1> QED
  BY <1>3, <1>4 DEF HInv

\* A step that changes no table.
LEMMA ReadStep ==
  ASSUME HInv, NEW c \in Calls, Moves(c), UNCHANGED tables, CallOK(c)'
  PROVE  HInv'
<1>1. Shapes /\ Rowwise /\ UNCHANGED <<users, owner, balance, entries>>
  BY DEF HInv, tables
<1>2. TablesGrow
  BY <1>1 DEF TablesGrow
<1>3. Grows /\ Emails' = Emails
  BY <1>2, MovesFrame DEF Emails, Sent, Grows
<1>4. \A a \in Accounts : Cached(a)'
  BY <1>1 DEF Rowwise, Cached, Rows, Net, Side
<1>5. Rowwise'
  BY <1>1, <1>3, <1>4, RowsKept DEF Rowwise
<1> QED
  BY <1>1, <1>2, <1>5, CallStep DEF Shapes

-----------------------------------------------------------------------------
(* Answers. *)

LEMMA FoundSame ==
  ASSUME Shapes, NEW c \in Calls, found' = found
  PROVE  Notes(c)
<1>1. found[c] \in Founds /\ found' = [found EXCEPT ![c] = found[c]]
  BY DEF Shapes, Founds
<1> QED
  BY <1>1 DEF Notes

LEMMA AnswerMoves ==
  ASSUME HInv, NEW c \in Calls, InFlight(c), UNCHANGED asked,
         NEW code \in Codes, NEW user \in Calls \cup {None}, NEW rows \in SUBSET (Accounts \cup Row),
         Answer(c, code, user, rows), Notes(c)
  PROVE  /\ Moves(c)
         /\ pc'[c] = "done" /\ reply'[c] = [code |-> code, user |-> user, rows |-> rows]
<1>1. [code |-> code, user |-> user, rows |-> rows] \in Replies
  BY DEF Replies
<1> QED
  BY <1>1 DEF Moves, Answer, asked, HInv, Shapes

LEMMA ErrorMoves ==
  ASSUME HInv, NEW c \in Calls, InFlight(c), UNCHANGED asked, NEW code \in Codes, Error(c, code), Notes(c)
  PROVE  /\ Moves(c)
         /\ pc'[c] = "done" /\ reply'[c] = [code |-> code, user |-> None, rows |-> {}]
BY AnswerMoves DEF Error

\* A call is answered with rows it has read.
LEMMA ShownMoves ==
  ASSUME HInv, NEW c \in Calls, InFlight(c), UNCHANGED <<found, asked>>,
         NEW rows \in SUBSET (Accounts \cup Row), Answer(c, 200, None, rows)
  PROVE  /\ Moves(c) /\ UNCHANGED <<request, before>>
         /\ pc'[c] = "done" /\ reply'[c] = [code |-> 200, user |-> None, rows |-> rows]
<1>1. Notes(c) /\ UNCHANGED asked /\ 200 \in Codes
  BY FoundSame DEF HInv, Codes
<1>2. UNCHANGED <<request, before>>
  BY DEF asked
<1> QED
  BY <1>1, <1>2, AnswerMoves

LEMMA GotoMoves ==
  ASSUME HInv, NEW c \in Calls, InFlight(c), UNCHANGED asked, NEW p \in Places, Goto(c, p),
         Notes(c)
  PROVE  Moves(c) /\ pc'[c] = p /\ reply'[c] = NoReply
<1>1. Shapes /\ Sending(c)
  BY DEF HInv, CallOK
<1>2. reply[c] = NoReply /\ NoReply \in Replies
  BY <1>1 DEF Sending, InFlight, NoReply, Replies, Codes
<1>3. reply' = [reply EXCEPT ![c] = NoReply]
  BY <1>1, <1>2 DEF Goto, Shapes
<1> QED
  BY <1>1, <1>2, <1>3 DEF Moves, Goto, asked, Shapes

\* The call keeps what it was sent with.
LEMMA SendingKept ==
  ASSUME HInv, NEW c \in Calls, Moves(c), TablesGrow, reply'[c] = NoReply \/ pc'[c] = "done",
         found'[c].unchecked \subseteq found'[c].all
  PROVE  Sending(c)'
<1>1. Sending(c) /\ InFlight(c) /\ Shapes /\ Grows /\ UNCHANGED <<scenario, request, before>>
  BY MovesFrame DEF HInv, CallOK, Moves
<1>2. \A b \in before[c] : reply'[b] # NoReply /\ b # c
  BY <1>1 DEF Sending, Grows, Shapes
<1> QED
  BY <1>1, <1>2 DEF Sending, Sent, InFlight, Grows

\* A call that is not answered yet has been told nothing.
LEMMA NothingTold ==
  ASSUME NEW c \in Calls, reply'[c] = NoReply
  PROVE  Registering(c)' /\ Writing(c)' /\ Showing(c)' /\ Reading(c)'
<1>1. Registering(c)'
  BY DEF Registering, NoReply
<1>2. Writing(c)' /\ Showing(c)' /\ Reading(c)'
  BY DEF Writing, Showing, Reading, NoReply
<1> QED
  BY <1>1, <1>2

\* What the calls answered before c was sent asked for and were told stays.
LEMMA EarlierKept ==
  ASSUME HInv, Grows, NEW c \in Calls, pc[c] # "unsent"
  PROVE  /\ \A b \in before[c] : b \in Calls /\ reply'[b] = reply[b] /\ request'[b] = request[b] /\ pc[b] = "done"
         /\ \A K : Acknowledged(c, K)' = Acknowledged(c, K)
         /\ \A b \in before[c] : SameCredentials(b, c)' = SameCredentials(b, c)
<1>1. \A b \in before[c] : b \in Calls /\ reply'[b] = reply[b] /\ request'[b] = request[b] /\ pc[b] = "done"
  BY DEF HInv, CallOK, Sending, Shapes, Grows
<1>2. before'[c] = before[c] /\ request'[c] = request[c]
  BY DEF Grows
<1> QED
  BY <1>1, <1>2 DEF Acknowledged, SameCredentials

\* An error says little: which codes mean what.
LEMMA ErrorOK ==
  ASSUME HInv, NEW c \in Calls, Moves(c), TablesGrow,
         NEW code \in Codes \ {0, 200, 201},
         pc'[c] = "done", reply'[c] = [code |-> code, user |-> None, rows |-> {}],
         found'[c].unchecked \subseteq found'[c].all,
         request[c].kind = "login" /\ code = 401 =>
           \/ "read" \in scenario.faults
           \/ \A b \in before[c] :
                request[b].kind = "register" /\ Credentials(b, b)' => ~SameCredentials(b, c),
         request[c].kind = "transaction" /\ code = 404 => request[c].tx \notin Acknowledged(c, Money)
  PROVE  CallOK(c)'
<1>1. Grows /\ InFlight(c) /\ pc[c] # "unsent" /\ UNCHANGED <<scenario, request, before>>
  <2>1. Grows
    BY MovesFrame
  <2> QED
    BY <2>1 DEF Moves, InFlight
<1>2. Sending(c)'
  BY SendingKept
<1>3. Going(c)'
  BY DEF Going, InFlight
<1>4. reply'[c].code = code /\ reply'[c].user = None /\ reply'[c].rows = {}
  OBVIOUS
<1>5. Registering(c)'
  <2>1. \A b \in before[c] : /\ request'[b] = request[b]
                             /\ SameCredentials(b, c)' = SameCredentials(b, c)
    BY <1>1, EarlierKept
  <2>2. code # 201
    BY DEF Codes
  <2>3. request'[c].kind = "login" /\ code = 401 /\ "read" \notin scenario'.faults =>
          \A b \in before'[c] :
            request'[b].kind = "register" /\ Credentials(b, b)' => ~SameCredentials(b, c)'
    BY <1>1, <2>1
  <2> QED
    BY <1>4, <2>2, <2>3 DEF Registering
<1>6. Writing(c)' /\ Showing(c)'
  BY <1>4 DEF Writing, Showing, Codes
<1>7. Reading(c)'
  BY <1>1, <1>4, EarlierKept DEF Reading, Codes
<1> QED
  BY <1>2, <1>3, <1>5, <1>6, <1>7 DEF CallOK

\* A statement that fails, or a refusal, and leaves the tables alone.
LEMMA RefusedStep ==
  ASSUME HInv, NEW c \in Calls, InFlight(c), UNCHANGED <<tables, found, asked>>,
         NEW code \in Codes \ {0, 200, 201}, Error(c, code),
         request[c].kind = "login" /\ code = 401 =>
           \/ "read" \in scenario.faults
           \/ \A b \in before[c] :
                request[b].kind = "register" /\ Credentials(b, b) => ~SameCredentials(b, c),
         request[c].kind = "transaction" => code # 404
  PROVE  HInv'
<1>1. Shapes /\ Sending(c) /\ UNCHANGED <<users, request, found>> /\ TablesGrow
  BY DEF HInv, CallOK, tables, asked, TablesGrow
<1>2. /\ Moves(c)
      /\ pc'[c] = "done" /\ reply'[c] = [code |-> code, user |-> None, rows |-> {}]
  BY <1>1, AnswerMoves, FoundSame DEF Error
<1>3. /\ \A b \in before[c] : Credentials(b, b)' = Credentials(b, b)
      /\ found'[c].unchecked \subseteq found'[c].all
  BY <1>1 DEF Credentials, Sending
<1>4. CallOK(c)'
  BY <1>1, <1>2, <1>3, ErrorOK
<1> QED
  BY <1>2, <1>4, ReadStep DEF tables

\* A step to another statement that leaves the tables alone.
LEMMA GoneStep ==
  ASSUME HInv, NEW c \in Calls, InFlight(c), UNCHANGED <<tables, asked>>,
         NEW p \in Places, Goto(c, p), Notes(c),
         found'[c].unchecked \subseteq found'[c].all, Going(c)'
  PROVE  HInv'
<1>1. Moves(c) /\ pc'[c] = p /\ reply'[c] = NoReply
  BY GotoMoves
<1>2. TablesGrow
  BY DEF TablesGrow, tables
<1>3. Sending(c)'
  BY <1>1, <1>2, SendingKept
<1>4. CallOK(c)'
  BY <1>1, <1>3, NothingTold DEF CallOK
<1> QED
  BY <1>1, <1>4, ReadStep DEF tables

\* What a call finds when it reads, and what was acknowledged before it.
LEMMA ReadFrame ==
  ASSUME HInv, NEW c \in Calls, Moves(c), UNCHANGED tables, request[c].kind \notin Public
  PROVE  /\ Grows /\ Going(c) /\ KindFits(c) /\ pc[c] # "unsent" /\ request'[c] = request[c]
         /\ UserOf(c) \in Calls /\ UserOf(c) # None /\ UserOf(c)' = UserOf(c)
         /\ \A a \in Accounts : May(c, a)' = May(c, a)
         /\ \A K : Acknowledged(c, K)' = Acknowledged(c, K)
         /\ \A d \in Acknowledged(c, {"create"}) :
              d \in Calls /\ UserOf(d)' = UserOf(d) /\ owner[d] = UserOf(d)
         /\ \A d \in Acknowledged(c, Money) : d \in Calls /\ Legs(d)' = Legs(d) /\ Legs(d) \subseteq entries
<1>1. Shapes /\ InFlight(c) /\ pc[c] # "unsent" /\ UNCHANGED <<request, owner, entries>>
  BY DEF HInv, Moves, InFlight, tables
<1>2. Grows
  <2>1. TablesGrow
    BY DEF TablesGrow, tables
  <2> QED
    BY <2>1, MovesFrame
<1>3. Going(c) /\ KindFits(c) /\ UserOf(c) # None
  BY <1>1 DEF HInv, CallOK, Going
<1>4. UserOf(c) \in Calls /\ UserOf(c)' = UserOf(c)
  BY <1>1, <1>2, <1>3, UserIsCall, UserKept
<1>5. \A a \in Accounts : May(c, a)' = May(c, a)
  BY <1>1, <1>4 DEF May
<1>6. /\ \A b \in before[c] : b \in Calls /\ pc[b] = "done"
      /\ \A K : Acknowledged(c, K)' = Acknowledged(c, K)
  BY <1>1, <1>2, EarlierKept
<1>7. ASSUME NEW d \in Acknowledged(c, {"create"})
      PROVE  d \in Calls /\ UserOf(d)' = UserOf(d) /\ owner[d] = UserOf(d)
  <2>1. d \in Calls /\ pc[d] = "done" /\ request[d].kind = "create" /\ reply[d].code \in {200, 201}
    BY <1>6 DEF Acknowledged
  <2>2. UserOf(d) # None /\ owner[d] = UserOf(d)
    BY <2>1 DEF HInv, CallOK, Writing, Public
  <2> QED
    BY <1>2, <2>1, <2>2, UserKept
<1>8. ASSUME NEW d \in Acknowledged(c, Money)
      PROVE  d \in Calls /\ Legs(d)' = Legs(d) /\ Legs(d) \subseteq entries
  <2>1. d \in Calls /\ pc[d] = "done" /\ request[d].kind \in Money /\ reply[d].code \in {200, 201}
    BY <1>6 DEF Acknowledged
  <2>2. Legs(d) \subseteq entries
    BY <2>1 DEF HInv, CallOK, Writing
  <2> QED
    BY <1>2, <2>1, <2>2, LegsKept
<1> QED
  BY <1>1, <1>2, <1>3, <1>4, <1>5, <1>6, <1>7, <1>8

\* An answer to a call that only reads.
LEMMA ToldStep ==
  ASSUME HInv, NEW c \in Calls, InFlight(c), UNCHANGED <<tables, found, asked>>,
         request[c].kind \in Kinds \ (Public \cup Money \cup {"create"}),
         NEW code \in Codes, NEW rows \in SUBSET (Accounts \cup Row),
         Answer(c, code, None, rows), Showing(c)', Reading(c)'
  PROVE  HInv'
<1>1. Shapes /\ Sending(c) /\ UNCHANGED <<request, found>> /\ TablesGrow
  BY DEF HInv, CallOK, tables, asked, TablesGrow
<1>2. /\ Moves(c)
      /\ pc'[c] = "done" /\ reply'[c] = [code |-> code, user |-> None, rows |-> rows]
  BY <1>1, AnswerMoves, FoundSame
<1>3. Sending(c)'
  BY <1>1, <1>2, SendingKept DEF Sending
<1>4. Going(c)'
  BY <1>2 DEF Going, InFlight
<1>5. Registering(c)'
  BY <1>1, <1>2 DEF Registering, Public
<1>6. UserOf(c)' # None
  BY <1>2, ReadFrame DEF tables
<1>7. Writing(c)'
  BY <1>1, <1>6 DEF Writing
<1>8. CallOK(c)'
  BY <1>3, <1>4, <1>5, <1>7 DEF CallOK
<1> QED
  BY <1>2, <1>8, ReadStep DEF tables

-----------------------------------------------------------------------------
(* The statements that read. *)

LEMMA MalformedStep ==
  ASSUME HInv, NEW c \in Calls, Malformed(c) \/ MalformedAmount(c)
  PROVE  HInv'
<1>1. InFlight(c) /\ Error(c, 400) /\ UNCHANGED <<tables, found, asked>>
  BY DEF Malformed, MalformedAmount, InFlight, At
<1> QED
  BY <1>1, RefusedStep DEF Codes

LEMMA ReadFailsStep ==
  ASSUME HInv, NEW c \in Calls, ReadFails(c)
  PROVE  HInv'
<1>1. PICK place \in {"getUserByEmail", "getAccount", "listAccountsByOwner", "listEntriesByAccount",
                      "readBalance", "getAccountBalance", "listEntriesByTransaction", "authorize"},
            code \in {401, 404, 500} :
        /\ ReadError(c, place, code)
        /\ place = "getUserByEmail" <=> code = 401
        /\ place = "getAccount" <=> code = 404
  BY DEF ReadFails
<1>2. /\ "read" \in scenario.faults /\ pc[c] = place /\ InFlight(c) /\ Error(c, code)
      /\ UNCHANGED <<tables, found, asked>>
  BY <1>1 DEF ReadError, At, InFlight
<1>3. KindFits(c)
  BY <1>2 DEF HInv, CallOK, Going
<1>4. request[c].kind # "register" /\ (request[c].kind = "transaction" => code # 404)
  BY <1>1, <1>2, <1>3 DEF KindFits, OnAccount
<1>5. CASE code = 401
  BY <1>2, <1>4, <1>5, RefusedStep DEF Codes
<1>6. CASE code = 404
  BY <1>2, <1>4, <1>6, RefusedStep DEF Codes
<1>7. CASE code = 500
  BY <1>2, <1>4, <1>7, RefusedStep DEF Codes
<1> QED
  BY <1>5, <1>6, <1>7

LEMMA HashingFailsStep ==
  ASSUME HInv, NEW c \in Calls, HashingFails(c)
  PROVE  HInv'
<1>1. pc[c] = "createUser" /\ InFlight(c) /\ Error(c, 500) /\ UNCHANGED <<tables, found, asked>>
  BY DEF HashingFails, InFlight, At
<1>2. request[c].kind = "register"
  BY <1>1 DEF HInv, CallOK, Going, KindFits
<1> QED
  BY <1>1, <1>2, RefusedStep DEF Codes

\* A login is refused only to credentials that were not registered before.
LEMMA GetUserByEmailStep ==
  ASSUME HInv, NEW c \in Calls, GetUserByEmail(c)
  PROVE  HInv'
<1> DEFINE email == request[c].email
           right == Taken(email) /\ users[email].password = request[c].password
<1>1. pc[c] = "getUserByEmail" /\ InFlight(c) /\ UNCHANGED <<tables, found, asked>>
  BY DEF GetUserByEmail, At, InFlight
<1>2. request[c].kind = "login" /\ Shapes /\ Sending(c)
  BY <1>1 DEF HInv, CallOK, Going, KindFits
<1>3. CASE right
  <2>1. Goto(c, "generateToken") /\ "generateToken" \in Places
    BY <1>3 DEF GetUserByEmail, Places
  <2>2. Notes(c)
    BY <1>1, <1>2, FoundSame
  <2>3. pc'[c] = "generateToken" /\ UNCHANGED <<users, request, found>>
    BY <1>1, <2>1, <2>2, GotoMoves DEF tables, asked
  <2>4. Going(c)'
    BY <1>2, <1>3, <2>3 DEF Going, KindFits, Credentials, Taken, Public
  <2> QED
    BY <1>1, <1>2, <2>1, <2>2, <2>3, <2>4, GoneStep DEF Sending
<1>4. CASE ~right
  <2>1. Error(c, 401)
    BY <1>4 DEF GetUserByEmail
  <2>2. ASSUME NEW b \in before[c], request[b].kind = "register", Credentials(b, b)
        PROVE  ~SameCredentials(b, c)
    <3>1. b # None
      BY <1>2, HandlersAssumption DEF Shapes
    <3> QED
      BY <1>4, <2>2, <3>1 DEF Credentials, SameCredentials, Taken
  <2> QED
    BY <1>1, <1>2, <2>1, <2>2, RefusedStep DEF Codes
<1> QED
  BY <1>3, <1>4

\* The token is for the user with the credentials of the call.
LEMMA GenerateTokenStep ==
  ASSUME HInv, NEW c \in Calls, GenerateToken(c)
  PROVE  HInv'
<1> DEFINE email == request[c].email
<1>1. pc[c] = "generateToken" /\ InFlight(c) /\ UNCHANGED <<tables, found, asked>>
  BY DEF GenerateToken, At, InFlight
<1>2. Shapes /\ Sending(c) /\ TablesGrow /\ UNCHANGED <<users, request, found, before, scenario>>
  BY <1>1 DEF HInv, CallOK, TablesGrow, tables, asked
<1>3. /\ request[c].kind \in Public /\ users[email].id # None /\ Credentials(c, users[email].id)
      /\ request[c].kind = "register" => users[email].id = c
  BY <1>1 DEF HInv, CallOK, Going, KindFits
<1>4. users[email].id \in Calls
  <2>1. email \in Emails
    BY <1>2, <1>1, <1>3, RequestTypes
  <2> QED
    BY <1>3, <2>1 DEF HInv, Rowwise, UserRow
<1>5. CASE \E code \in Codes :
             /\ code \in {200, 201}
             /\ request[c].kind = "login" <=> code = 200
             /\ Answer(c, code, users[email].id, {})
  <2>1. PICK code \in Codes :
             /\ code \in {200, 201}
             /\ request[c].kind = "login" <=> code = 200
             /\ Answer(c, code, users[email].id, {})
    BY <1>5
  <2>2. /\ Moves(c) /\ pc'[c] = "done"
        /\ reply'[c] = [code |-> code, user |-> users[email].id, rows |-> {}]
    <3>1. Notes(c)
      BY <1>2, FoundSame
    <3>2. [code |-> code, user |-> users[email].id, rows |-> {}] \in Replies
      BY <1>4 DEF Replies
    <3>3. /\ pc' = [pc EXCEPT ![c] = "done"]
          /\ reply' = [reply EXCEPT ![c] = [code |-> code, user |-> users[email].id, rows |-> {}]]
      BY <2>1 DEF Answer
    <3>4. pc'[c] = "done" /\ reply'[c] = [code |-> code, user |-> users[email].id, rows |-> {}]
      BY <1>2, <3>3 DEF Shapes
    <3>5. Moves(c)
      BY <1>1, <1>2, <3>1, <3>2, <3>3 DEF Moves
    <3> QED
      BY <3>4, <3>5
  <2>3. Sending(c)'
    BY <1>2, <2>2, SendingKept DEF Sending
  <2>4. Going(c)'
    BY <2>2 DEF Going, InFlight
  <2>5. Registering(c)'
    <3>1. reply'[c].code = code /\ reply'[c].user = users[email].id /\ request'[c] = request[c]
      BY <1>2, <2>2
    <3>2. Credentials(c, users[email].id)'
      BY <1>2, <1>3 DEF Credentials
    <3>3. request[c].kind = "register" => Credentials(c, c)'
      BY <1>2, <1>3 DEF Credentials
    <3>4. Credentials(c, reply[c].user)'
      BY <1>2, <1>3, <3>1 DEF Credentials
    <3> QED
      BY <1>3, <2>1, <3>1, <3>3, <3>4 DEF Registering, Public
  <2>6. Writing(c)' /\ Showing(c)' /\ Reading(c)'
    BY <1>2, <1>3, <2>2 DEF Writing, Showing, Reading, Public, Money
  <2>7. CallOK(c)'
    BY <2>3, <2>4, <2>5, <2>6 DEF CallOK
  <2> QED
    BY <1>1, <2>2, <2>7, ReadStep DEF tables
<1>6. CASE Error(c, 500)
  BY <1>1, <1>3, <1>6, RefusedStep DEF Codes, Public
<1> QED
  BY <1>3, <1>5, <1>6 DEF GenerateToken, Public, Codes

LEMMA ListAccountsByOwnerStep ==
  ASSUME HInv, NEW c \in Calls, ListAccountsByOwner(c)
  PROVE  HInv'
<1> DEFINE mine == {a \in Accounts : owner[a] = UserOf(c)}
<1>1. /\ pc[c] = "listAccountsByOwner" /\ InFlight(c) /\ UNCHANGED <<tables, found, asked>>
      /\ Answer(c, 200, None, mine) /\ mine \in SUBSET (Accounts \cup Row)
  BY DEF ListAccountsByOwner, At, InFlight
<1>2. Shapes /\ request[c].kind = "list"
  BY <1>1 DEF HInv, CallOK, Going, KindFits
<1>3. Moves(c) /\ reply'[c] = [code |-> 200, user |-> None, rows |-> mine]
  <2> HIDE DEF mine
  <2> QED
    BY <1>1, ShownMoves
<1>4. Showing(c)'
  BY <1>1, <1>2, <1>3, ReadFrame DEF Showing, May, Public, tables
<1>5. Reading(c)'
  <2>1. {d \in Acknowledged(c, {"create"})' : UserOf(d)' = UserOf(c)'} \subseteq mine
    BY <1>1, <1>2, <1>3, ReadFrame DEF Public, tables, Accounts
  <2> QED
    BY <1>1, <1>2, <1>3, <2>1 DEF Reading, asked
<1> QED
  BY <1>1, <1>2, <1>4, <1>5, ToldStep DEF Codes, Kinds, Public, Money

\* Only the owner gets past the check, except for accounts of nobody.
LEMMA GetAccountStep ==
  ASSUME HInv, NEW c \in Calls, GetAccount(c)
  PROVE  HInv'
<1> DEFINE q == request[c]
           a == q.account
           next == CASE q.kind \in {"deposit", "withdraw", "transfer"} -> "ledger"
                     [] q.kind = "entries" -> "listEntriesByAccount"
                     [] q.kind = "reconcile" -> "readBalance"
                     [] q.kind = "get" -> "respond"
<1>1. pc[c] = "getAccount" /\ InFlight(c) /\ UNCHANGED <<tables, found, asked>>
  BY DEF GetAccount, At, InFlight
<1>2. Shapes /\ Sending(c) /\ q.kind \in OnAccount
  BY <1>1 DEF HInv, CallOK, Going, KindFits
<1>3. a \in Accounts /\ q.kind \notin Public
  BY <1>1, <1>2, RequestTypes DEF OnAccount, Public
<1>4. CASE Error(c, 404) \/ Error(c, 403)
  BY <1>1, <1>2, <1>4, RefusedStep DEF Codes, OnAccount
<1>5. CASE ~Denied(c, a) /\ next = "respond" /\ Answer(c, 200, None, {a})
  <2>1. q.kind = "get"
    BY <1>2, <1>5 DEF OnAccount
  <2>2. Moves(c) /\ reply'[c] = [code |-> 200, user |-> None, rows |-> {a}] /\ UNCHANGED request
    <3>1. {a} \in SUBSET (Accounts \cup Row) /\ Answer(c, 200, None, {a})
      BY <1>3, <1>5
    <3> QED
      BY <1>1, <3>1, ShownMoves
  <2>3. May(c, a)
    BY <1>5 DEF Denied, May
  <2>4. \A x \in Accounts : May(c, x)' = May(c, x)
    BY <1>1, <1>3, <2>2, ReadFrame DEF tables
  <2>5. Showing(c)'
    BY <1>3, <2>1, <2>2, <2>3, <2>4 DEF Showing
  <2>6. Reading(c)'
    BY <2>1, <2>2 DEF Reading
  <2> QED
    BY <1>1, <1>3, <1>5, <2>1, <2>5, <2>6, ToldStep DEF Codes, Kinds, OnAccount, Public, Money
<1>6. CASE ~Denied(c, a) /\ next # "respond" /\ Goto(c, next)
  <2>1. next \in {"ledger", "listEntriesByAccount", "readBalance"} /\ next \in Places
    BY <1>2, <1>6 DEF OnAccount, Places
  <2>2. Notes(c)
    BY <1>1, <1>2, FoundSame
  <2>3. Moves(c) /\ pc'[c] = next /\ UNCHANGED <<request, found>>
    BY <1>1, <1>6, <2>1, <2>2, GotoMoves DEF asked
  <2>4. May(c, a)' /\ UserOf(c)' # None
    <3>1. May(c, a)
      BY <1>6 DEF Denied, May
    <3>2. /\ \A x \in Accounts : May(c, x)' = May(c, x)
          /\ UserOf(c)' # None
      BY <1>1, <1>3, <2>3, ReadFrame DEF tables
    <3>3. May(c, a)' = (owner'[a] \in {UserOf(c)', Nobody})
      BY <2>3 DEF May
    <3>4. \A x \in Accounts : May(c, x)' = (owner'[x] \in {UserOf(c)', Nobody})
      BY DEF May
    <3> QED
      BY <1>3, <3>1, <3>2, <3>3, <3>4
  <2>5. KindFits(c)'
    BY <1>2, <2>1, <2>3 DEF KindFits, Money, OnAccount
  <2>6. Going(c)'
    BY <2>1, <2>3, <2>4, <2>5 DEF Going
  <2> QED
    BY <1>1, <1>2, <1>6, <2>1, <2>2, <2>3, <2>6, GoneStep DEF Sending
<1> QED
  BY <1>4, <1>5, <1>6 DEF GetAccount

\* The page is of the caller's account, and all of it when it is not full.
LEMMA ListEntriesByAccountStep ==
  ASSUME HInv, NEW c \in Calls, ListEntriesByAccount(c)
  PROVE  HInv'
<1> DEFINE a == request[c].account
<1>1. pc[c] = "listEntriesByAccount" /\ InFlight(c) /\ UNCHANGED <<tables, found, asked>>
  BY DEF ListEntriesByAccount, At, InFlight
<1>2. Shapes /\ Sending(c) /\ request[c].kind = "entries" /\ May(c, a)
  BY <1>1 DEF HInv, CallOK, Going, KindFits
<1>3. a \in Accounts /\ PageSize(c) \in Nat
  BY <1>1, <1>2, RequestTypes DEF OnAccount
<1>4. PICK P \in Pages(c, a) : Answer(c, 200, None, P)
  BY DEF ListEntriesByAccount
<1>5. /\ P \subseteq Rows(a) /\ P \subseteq Row /\ P \in SUBSET (Accounts \cup Row)
      /\ Cardinality(P) < PageSize(c) => P = Rows(a)
  BY <1>2, <1>3 DEF Shapes, Rows, Pages
<1>6. /\ Moves(c) /\ reply'[c] = [code |-> 200, user |-> None, rows |-> P]
      /\ UNCHANGED <<request, before>>
  BY <1>1, <1>4, <1>5, ShownMoves
<1>7. Showing(c)'
  <2>1. \A x \in Accounts : May(c, x)' = May(c, x)
    BY <1>1, <1>2, <1>6, ReadFrame DEF tables, Public
  <2>2. \A e \in P : e.account = a
    BY <1>5 DEF Rows
  <2>3. \A e \in P : May(c, e.account)'
    BY <1>2, <1>3, <2>1, <2>2
  <2> QED
    BY <1>2, <1>5, <1>6, <2>3 DEF Showing
<1>8. Reading(c)'
  <2>1. \A d \in Acknowledged(c, Money)' : {e \in Legs(d)' : e.account = a} \subseteq Rows(a)
    BY <1>1, <1>2, <1>6, ReadFrame DEF Public, tables, Rows
  <2>2. PageSize(c)' = PageSize(c)
    BY <1>6 DEF PageSize
  <2> QED
    BY <1>2, <1>5, <1>6, <2>1, <2>2 DEF Reading
<1> QED
  BY <1>1, <1>2, <1>4, <1>5, <1>7, <1>8, ToldStep DEF Codes, Kinds, OnAccount, Public, Money

\* The two reads of ReconcileAccount: what the first one saw.
LEMMA ReadBalanceStep ==
  ASSUME HInv, NEW c \in Calls, ReadBalance(c)
  PROVE  HInv'
<1> DEFINE a == request[c].account
           f == [all |-> Rows(a), unchecked |-> {}, balance |-> balance[a]]
<1>1. /\ pc[c] = "readBalance" /\ InFlight(c) /\ UNCHANGED <<tables, asked>>
      /\ found' = [found EXCEPT ![c] = f] /\ Goto(c, "getAccountBalance")
  BY DEF ReadBalance, At, InFlight
<1>2. Shapes /\ Sending(c) /\ Rowwise /\ request[c].kind = "reconcile" /\ May(c, a)
  BY <1>1 DEF HInv, CallOK, Going, KindFits
<1>3. a \in Accounts /\ "getAccountBalance" \in Places
  BY <1>1, <1>2, RequestTypes DEF OnAccount, Places
<1>4. f \in Founds /\ found'[c] = f /\ Notes(c)
  BY <1>1, <1>2, <1>3 DEF Founds, Shapes, Rows, Notes
<1>5. balance[a] = Net(Rows(a))
  BY <1>2, <1>3 DEF Rowwise, Cached
<1>6. Moves(c) /\ pc'[c] = "getAccountBalance" /\ UNCHANGED <<request, entries>>
  BY <1>1, <1>3, <1>4, GotoMoves DEF asked, tables
<1>7. Going(c)'
  <2>1. UserOf(c)' # None /\ May(c, a)'
    <3>1. UserOf(c)' # None /\ UserOf(c)' = UserOf(c) /\ owner' = owner
      BY <1>1, <1>2, <1>6, ReadFrame DEF tables, Public
    <3> QED
      BY <1>2, <1>6, <3>1 DEF May
  <2>2. KindFits(c)'
    BY <1>2, <1>6 DEF KindFits
  <2>3. found'[c].all = Rows(a)' /\ found'[c].balance = Net(found'[c].all)
    BY <1>4, <1>5, <1>6 DEF Rows
  <2>4. Net(found[c].all)' = Net(found'[c].all)
    BY DEF Net, Side
  <2> QED
    BY <1>6, <2>1, <2>2, <2>3, <2>4 DEF Going
<1> QED
  BY <1>1, <1>3, <1>4, <1>7, GoneStep

LEMMA ReconcileAccountStep ==
  ASSUME HInv, NEW c \in Calls, ReconcileAccount(c)
  PROVE  HInv'
<1> DEFINE a == request[c].account
<1>1. pc[c] = "getAccountBalance" /\ InFlight(c) /\ UNCHANGED <<tables, found, asked>>
  BY DEF ReconcileAccount, At, InFlight
<1>2. Shapes /\ Sending(c) /\ request[c].kind = "reconcile"
  BY <1>1 DEF HInv, CallOK, Going, KindFits
<1>3. a \in Accounts /\ request'[c] = request[c]
  BY <1>1, <1>2, RequestTypes DEF OnAccount, asked
<1>4. Showing(c)' /\ Reading(c)'
  BY <1>2, <1>3 DEF Showing, Reading
<1>5. PICK code \in Codes, rows \in SUBSET (Accounts \cup Row) : Answer(c, code, None, rows)
  BY <1>3 DEF ReconcileAccount, Codes
<1>6. request[c].kind \in Kinds \ (Public \cup Money \cup {"create"})
  BY <1>2 DEF Kinds, OnAccount, Public, Money
<1> QED
  BY <1>1, <1>4, <1>5, <1>6, ToldStep

\* The entries of a transaction are found together, or none is.
LEMMA ListEntriesByTransactionStep ==
  ASSUME HInv, NEW c \in Calls, ListEntriesByTransaction(c)
  PROVE  HInv'
<1> DEFINE tx == request[c].tx
           rows == {e \in entries : e.tx = tx}
           f == [all |-> rows, unchecked |-> rows, balance |-> 0]
<1>1. /\ pc[c] = "listEntriesByTransaction" /\ InFlight(c) /\ UNCHANGED <<tables, asked>>
      /\ found' = [found EXCEPT ![c] = f]
      /\ IF rows = {} THEN Error(c, 404) ELSE Goto(c, "authorize")
  BY DEF ListEntriesByTransaction, At, InFlight
<1>2. Shapes /\ Sending(c) /\ Rowwise /\ request[c].kind = "transaction"
  BY <1>1 DEF HInv, CallOK, Going, KindFits
<1>3. f \in Founds /\ found'[c] = f /\ Notes(c)
  <2>1. rows \in SUBSET Row
    BY <1>2 DEF Shapes
  <2>2. f \in Founds
    BY <2>1 DEF Founds
  <2>3. found'[c] = f
    BY <1>1, <1>2 DEF Shapes
  <2> QED
    BY <1>1, <2>2, <2>3 DEF Notes
<1>4. CASE rows = {}
  <2>1. Error(c, 404)
    BY <1>1, <1>4
  <2>2. /\ Moves(c)
        /\ pc'[c] = "done" /\ reply'[c] = [code |-> 404, user |-> None, rows |-> {}]
    <3>1. InFlight(c) /\ UNCHANGED asked /\ 404 \in Codes
      BY <1>1 DEF Codes
    <3> QED
      BY <1>3, <2>1, <3>1, ErrorMoves
  <2>3. tx \notin Acknowledged(c, Money)
    <3> SUFFICES ASSUME tx \in Acknowledged(c, Money) PROVE FALSE
      OBVIOUS
    <3>1. \A d \in Acknowledged(c, Money) : d \in Calls /\ Legs(d) \subseteq entries
      BY <1>1, <1>2, <2>2, ReadFrame DEF Public, tables
    <3>2. tx \in Calls /\ Legs(tx) \subseteq entries /\ request[tx].kind \in Money /\ reply[tx].code \in {200, 201}
      BY <3>1 DEF Acknowledged
    <3>3. Sending(tx) /\ pc[tx] # "unsent"
      <4>1. Sending(tx) /\ reply[tx] # NoReply
        BY <3>2 DEF HInv, CallOK, NoReply
      <4> QED
        BY <4>1 DEF Sending
    <3>4. Legs(tx) # {} /\ \A e \in Legs(tx) : e.tx = tx
      BY <1>2, <3>2, <3>3, LegsShape
    <3> QED
      BY <1>4, <3>2, <3>4
  <2>4. TablesGrow
    BY <1>1 DEF TablesGrow, tables
  <2>5. CallOK(c)'
    BY <1>2, <1>3, <2>2, <2>3, <2>4, ErrorOK DEF Codes
  <2> QED
    BY <1>1, <2>2, <2>5, ReadStep
<1>5. CASE rows # {}
  <2>1. Goto(c, "authorize") /\ "authorize" \in Places
    BY <1>1, <1>5 DEF Places
  <2>2. Moves(c) /\ pc'[c] = "authorize" /\ UNCHANGED <<request, entries>>
    BY <1>1, <1>3, <2>1, GotoMoves DEF asked, tables
  <2>3. tx \in Calls /\ pc[tx] = "done" /\ rows = Legs(tx)
    <3>1. PICK e \in rows : e \in entries /\ e.tx = tx
      BY <1>5
    <3>2. EntryRow(e) /\ tx \in Calls
      BY <1>2, <3>1 DEF Rowwise, Shapes, Row
    <3>3. pc[tx] = "done" /\ request[tx].kind \in Money /\ Legs(tx) \subseteq entries
      BY <3>1, <3>2 DEF EntryRow
    <3>4. \A g \in Legs(tx) : g.tx = tx
      BY <1>2, <3>2, <3>3, LegsShape DEF HInv, CallOK
    <3>5. \A g \in rows : g \in Legs(tx)
      BY <1>2 DEF Rowwise, EntryRow
    <3> QED
      BY <3>2, <3>3, <3>4, <3>5
  <2>4. Going(c)'
    <3>1. UserOf(c)' # None
      BY <1>1, <1>2, <2>2, ReadFrame DEF tables, Public
    <3>2. KindFits(c)'
      BY <1>2, <2>2 DEF KindFits
    <3>3. Grows
      BY <1>1, <1>2, <2>2, ReadFrame DEF tables, Public
    <3>4. Legs(tx)' = Legs(tx) /\ pc'[tx] # "unsent"
      <4>1. \A d \in Calls : pc[d] = "done" => Legs(d)' = Legs(d) /\ pc'[d] # "unsent"
        BY <3>3, LegsKept DEF Grows
      <4> QED
        BY <2>2, <2>3, <4>1
    <3>5. Known(tx)'
      BY <2>2, <2>3, <3>4 DEF Known
    <3>6. found'[c].all = Legs(tx) /\ found'[c].all \subseteq entries'
      <4>1. f.all = rows /\ rows \subseteq entries
        OBVIOUS
      <4> QED
        BY <1>3, <2>2, <2>3, <4>1
    <3> QED
      BY <2>2, <3>1, <3>2, <3>4, <3>5, <3>6 DEF Going
  <2>5. InFlight(c) /\ UNCHANGED <<tables, asked>> /\ found'[c].unchecked \subseteq found'[c].all
    BY <1>1, <1>3
  <2> QED
    BY <1>3, <2>1, <2>4, <2>5, GoneStep
<1> QED
  BY <1>4, <1>5

\* A transaction is shown to a party of it.
LEMMA AuthorizeStep ==
  ASSUME HInv, NEW c \in Calls, Authorize(c)
  PROVE  HInv'
<1> DEFINE tx == request[c].tx
<1>1. pc[c] = "authorize" /\ InFlight(c) /\ UNCHANGED <<tables, asked>>
  BY DEF Authorize, At, InFlight
<1>2. /\ Shapes /\ Sending(c) /\ request[c].kind = "transaction" /\ found[c].unchecked \subseteq found[c].all
      /\ found[c].all \subseteq entries /\ Known(tx) /\ found[c].all = Legs(tx)
      /\ UNCHANGED <<request, before, entries, owner>>
  BY <1>1 DEF HInv, CallOK, Going, KindFits, Sending, tables, asked
<1>3. CASE Error(c, 403) /\ UNCHANGED found
  BY <1>1, <1>2, <1>3, RefusedStep DEF Codes
<1>4. ASSUME NEW e \in found[c].unchecked, Party(c, e.account),
             Answer(c, 200, None, found[c].all), UNCHANGED found
      PROVE  HInv'
  <2>1. found[c].all \in SUBSET (Accounts \cup Row)
    BY <1>2 DEF Shapes
  <2>2. Moves(c) /\ reply'[c] = [code |-> 200, user |-> None, rows |-> found[c].all]
    BY <1>1, <1>4, <2>1, ShownMoves
  <2>3. Grows /\ UserOf(c)' = UserOf(c)
    BY <1>1, <1>2, <2>2, ReadFrame DEF tables, Public
  <2>4. Known(tx)' /\ Legs(tx)' = Legs(tx)
    <3>1. \A d \in Calls : Known(d) => Legs(d)' = Legs(d) /\ Known(d)'
      BY <2>3, LegsKept DEF Known, Grows
    <3>2. tx \in Calls
      BY <1>2 DEF Known
    <3> QED
      BY <1>2, <3>1, <3>2
  <2>5. Showing(c)'
    BY <1>2, <1>4, <2>2, <2>3, <2>4 DEF Showing, Party
  <2>6. Reading(c)'
    BY <1>2, <2>2 DEF Reading
  <2> QED
    BY <1>1, <1>2, <1>4, <2>1, <2>5, <2>6, ToldStep DEF Codes, Kinds, OnAccount, Public, Money
<1>5. ASSUME NEW e \in found[c].unchecked, Goto(c, "authorize"),
             found' = [found EXCEPT ![c].unchecked = @ \ {e}]
      PROVE  HInv'
  <2> DEFINE f == [found[c] EXCEPT !.unchecked = @ \ {e}]
  <2>1. /\ found' = [found EXCEPT ![c] = f] /\ f \in Founds /\ found'[c] = f
        /\ f.all = found[c].all /\ f.unchecked \subseteq f.all /\ Notes(c)
    <3>1. /\ found' = [found EXCEPT ![c] = f] /\ f \in Founds /\ found'[c] = f
          /\ f.all = found[c].all /\ f.unchecked \subseteq f.all
      BY <1>2, <1>5 DEF Shapes, Founds
    <3> QED
      BY <3>1 DEF Notes
  <2>2. Moves(c) /\ pc'[c] = "authorize" /\ "authorize" \in Places
    BY <1>1, <1>5, <2>1, GotoMoves DEF Places
  <2>3. Grows /\ UserOf(c)' # None
    BY <1>1, <1>2, <2>2, ReadFrame DEF tables, Public
  <2>4. Known(tx)' /\ Legs(tx)' = Legs(tx)
    <3>1. \A d \in Calls : Known(d) => Legs(d)' = Legs(d) /\ Known(d)'
      BY <2>3, LegsKept DEF Known, Grows
    <3>2. tx \in Calls
      BY <1>2 DEF Known
    <3> QED
      BY <1>2, <3>1, <3>2
  <2>5. KindFits(c)'
    BY <1>2, <2>2 DEF KindFits
  <2>6. Going(c)'
    BY <1>2, <2>1, <2>2, <2>3, <2>4, <2>5 DEF Going
  <2> QED
    BY <1>1, <1>5, <2>1, <2>2, <2>6, GoneStep
<1> QED
  BY <1>3, <1>4, <1>5 DEF Authorize

-----------------------------------------------------------------------------
(* The statements that write. *)

\* A registration that is inserted is the only one of its email.
LEMMA InsertUser ==
  ASSUME HInv, NEW c \in Calls, pc[c] = "createUser", ~Taken(request[c].email),
         users' = [users EXCEPT ![request[c].email] = [id |-> c, password |-> request[c].password]],
         UNCHANGED <<owner, balance, entries>>, Moves(c)
  PROVE  /\ TablesGrow /\ users' = [m \in Emails |-> users'[m]] /\ Rowwise'
         /\ users'[request[c].email] = [id |-> c, password |-> request[c].password]
<1> DEFINE email == request[c].email
<1>1. Shapes /\ Rowwise /\ Sending(c) /\ request[c].kind = "register" /\ UNCHANGED request
  BY DEF HInv, CallOK, Going, KindFits, InFlight, Moves
<1>2. email \in Emails
  BY <1>1, RequestTypes DEF Public
<1>3. /\ users' = [m \in Emails |-> users'[m]]
      /\ users'[email] = [id |-> c, password |-> request[c].password]
      /\ \A m \in Emails \ {email} : users'[m] = users[m]
  <2>1. users = [m \in Emails |-> users[m]]
    BY <1>1 DEF Shapes
  <2> QED
    BY <1>2, <2>1
<1>4. TablesGrow
  BY <1>3 DEF TablesGrow
<1>5. Grows /\ Emails' = Emails
  BY <1>4, MovesFrame DEF Grows, Emails, Sent
<1>6. UserRow(email)'
  <2>1. pc'[c] # "unsent" /\ users'[email].id = c /\ users'[email].password = request[c].password
    BY <1>3, <1>5 DEF Grows
  <2> QED
    BY <1>1, <2>1 DEF UserRow
<1>7. \A m \in Emails : UserRow(m)'
  <2>1. \A m \in Emails \ {email} : UserRow(m)'
    BY <1>3, <1>5, RowsKept
  <2>2. \A m \in Emails : m = email => UserRow(m)'
    BY <1>1, <1>6 DEF UserRow
  <2> QED
    BY <2>1, <2>2
<1>8. \A a \in Accounts : Cached(a)'
  BY <1>1 DEF Rowwise, Cached, Rows, Net, Side
<1>9. Rowwise'
  BY <1>1, <1>5, <1>7, <1>8, RowsKept DEF Rowwise
<1> QED
  BY <1>3, <1>4, <1>9

LEMMA CreateUserStep ==
  ASSUME HInv, NEW c \in Calls, CreateUser(c)
  PROVE  HInv'
<1> DEFINE email == request[c].email
           insert == users' = [users EXCEPT ![email] = [id |-> c, password |-> request[c].password]]
<1>1. pc[c] = "createUser" /\ InFlight(c) /\ UNCHANGED <<owner, balance, entries, found, asked>>
  BY DEF CreateUser, At, InFlight
<1>2. Shapes /\ Sending(c) /\ request[c].kind = "register" /\ Notes(c) /\ request' = request
  BY <1>1, FoundSame DEF HInv, CallOK, Going, KindFits, asked
<1>3. CASE UNCHANGED users /\ Error(c, 409)
  BY <1>1, <1>2, <1>3, RefusedStep DEF Codes, tables
<1>4. CASE ~Taken(email) /\ insert /\ Error(c, 409)
  <2>1. 409 \in Codes \ {0, 200, 201} /\ InFlight(c) /\ UNCHANGED asked
    BY <1>1 DEF Codes
  <2>2. /\ Moves(c)
        /\ pc'[c] = "done" /\ reply'[c] = [code |-> 409, user |-> None, rows |-> {}]
    BY <1>2, <1>4, <2>1, ErrorMoves
  <2>3. TablesGrow /\ users' = [m \in Emails |-> users'[m]] /\ Rowwise'
    BY <1>1, <1>4, <2>2, InsertUser
  <2>4. CallOK(c)'
    BY <1>1, <1>2, <2>1, <2>2, <2>3, ErrorOK DEF Sending
  <2> QED
    BY <1>1, <1>2, <2>2, <2>3, <2>4, CallStep DEF Shapes
<1>5. CASE ~Taken(email) /\ insert /\ Goto(c, "generateToken")
  <2>1. "generateToken" \in Places /\ InFlight(c) /\ UNCHANGED asked
    BY <1>1 DEF Places
  <2>2. Moves(c) /\ pc'[c] = "generateToken" /\ reply'[c] = NoReply
    BY <1>2, <1>5, <2>1, GotoMoves
  <2>3. /\ TablesGrow /\ users' = [m \in Emails |-> users'[m]] /\ Rowwise'
        /\ users'[email] = [id |-> c, password |-> request[c].password]
    BY <1>1, <1>5, <2>2, InsertUser
  <2>4. Going(c)'
    <3>1. users'[email].id = c /\ users'[email].password = request[c].password /\ c # None
      BY <2>3, HandlersAssumption
    <3>2. KindFits(c)' /\ Credentials(c, users[request[c].email].id)'
      BY <1>2, <2>2, <3>1 DEF KindFits, Public, Credentials
    <3> QED
      BY <1>2, <2>2, <3>1, <3>2 DEF Going, Public
  <2>5. Sending(c)'
    BY <1>1, <1>2, <2>2, <2>3, SendingKept DEF Sending
  <2>6. CallOK(c)'
    BY <2>2, <2>4, <2>5, NothingTold DEF CallOK
  <2> QED
    BY <1>1, <1>2, <2>2, <2>3, <2>6, CallStep DEF Shapes
<1> QED
  BY <1>3, <1>4, <1>5 DEF CreateUser, Write

\* An account that is inserted belongs to its creator.
LEMMA InsertAccount ==
  ASSUME HInv, NEW c \in Calls, pc[c] = "createAccount", owner' = [owner EXCEPT ![c] = UserOf(c)],
         UNCHANGED <<users, balance, entries>>, Moves(c), pc'[c] = "done"
  PROVE  /\ TablesGrow /\ owner' \in [Accounts -> Calls \cup {Nobody, Unopened}] /\ Rowwise'
         /\ UserOf(c) # None /\ UserOf(c)' = UserOf(c) /\ owner'[c] = UserOf(c)
<1>1. /\ Shapes /\ Rowwise /\ Sending(c) /\ request[c].kind = "create" /\ UNCHANGED request
      /\ UserOf(c) # None /\ InFlight(c) /\ pc[c] # "unsent"
  BY DEF HInv, CallOK, Going, KindFits, InFlight, Moves, Public
<1>2. UserOf(c) \in Calls /\ c \in Accounts /\ c # Settlement
  BY <1>1, UserIsCall, HandlersAssumption DEF Accounts
<1>3. /\ owner' \in [Accounts -> Calls \cup {Nobody, Unopened}]
      /\ owner'[c] = UserOf(c) /\ \A a \in Accounts \ {c} : owner'[a] = owner[a]
  BY <1>1, <1>2 DEF Shapes
<1>4. owner[c] = Unopened
  BY <1>1 DEF Rowwise, AccountRow
<1>5. TablesGrow
  BY <1>3, <1>4 DEF TablesGrow
<1>6. Grows /\ Emails' = Emails
  BY <1>5, MovesFrame DEF Grows, Emails, Sent
<1>7. UserOf(c)' = UserOf(c)
  BY <1>1, <1>6, UserKept
<1>8. AccountRow(c)'
  BY <1>1, <1>3, <1>7 DEF AccountRow
<1>9. \A a \in Calls \ {c} : AccountRow(a)'
  BY <1>3, <1>6, RowsKept DEF Accounts
<1>10. \A a \in Accounts : Cached(a)'
  BY <1>1 DEF Rowwise, Cached, Rows, Net, Side
<1>11. owner'[Settlement] = Nobody
  BY <1>1, <1>2, <1>3 DEF Rowwise, Accounts
<1>12. Rowwise'
  BY <1>1, <1>6, <1>8, <1>9, <1>10, <1>11, RowsKept DEF Rowwise
<1> QED
  BY <1>1, <1>3, <1>5, <1>7, <1>12

LEMMA CreateAccountStep ==
  ASSUME HInv, NEW c \in Calls, CreateAccount(c)
  PROVE  HInv'
<1> DEFINE insert == owner' = [owner EXCEPT ![c] = UserOf(c)]
<1>1. pc[c] = "createAccount" /\ InFlight(c) /\ UNCHANGED <<users, balance, entries, found, asked>>
  BY DEF CreateAccount, At, InFlight
<1>2. Shapes /\ Sending(c) /\ request[c].kind = "create" /\ Notes(c) /\ request' = request
  BY <1>1, FoundSame DEF HInv, CallOK, Going, KindFits, asked
<1>3. CASE UNCHANGED owner /\ Error(c, 500)
  BY <1>1, <1>2, <1>3, RefusedStep DEF Codes, tables
<1>4. CASE insert /\ Error(c, 500)
  <2>1. 500 \in Codes \ {0, 200, 201} /\ InFlight(c) /\ UNCHANGED asked
    BY <1>1 DEF Codes
  <2>2. /\ Moves(c)
        /\ pc'[c] = "done" /\ reply'[c] = [code |-> 500, user |-> None, rows |-> {}]
    BY <1>2, <1>4, <2>1, ErrorMoves
  <2>3. TablesGrow /\ owner' \in [Accounts -> Calls \cup {Nobody, Unopened}] /\ Rowwise'
    BY <1>1, <1>4, <2>2, InsertAccount
  <2>4. CallOK(c)'
    BY <1>1, <1>2, <2>1, <2>2, <2>3, ErrorOK DEF Sending
  <2>5. users' = [m \in Emails |-> users'[m]]
    BY <1>1, <1>2 DEF Shapes
  <2> QED
    BY <1>1, <1>2, <2>2, <2>3, <2>4, <2>5, CallStep DEF Shapes
<1>5. CASE insert /\ Answer(c, 201, None, {c})
  <2>1. 201 \in Codes /\ {c} \in SUBSET (Accounts \cup Row) /\ InFlight(c) /\ UNCHANGED asked
    BY <1>1 DEF Codes, Accounts
  <2>2. /\ Moves(c)
        /\ pc'[c] = "done" /\ reply'[c] = [code |-> 201, user |-> None, rows |-> {c}]
    BY <1>2, <1>5, <2>1, AnswerMoves
  <2>3. /\ TablesGrow /\ owner' \in [Accounts -> Calls \cup {Nobody, Unopened}] /\ Rowwise'
        /\ UserOf(c) # None /\ UserOf(c)' = UserOf(c) /\ owner'[c] = UserOf(c)
    BY <1>1, <1>5, <2>2, InsertAccount
  <2>4. Sending(c)'
    BY <1>1, <1>2, <2>2, <2>3, SendingKept DEF Sending
  <2>5. Going(c)'
    BY <2>2 DEF Going, InFlight
  <2>6. Registering(c)'
    BY <1>2, <2>2 DEF Registering
  <2>7. Writing(c)' /\ Showing(c)' /\ Reading(c)'
    BY <1>2, <2>2, <2>3 DEF Writing, Showing, Reading, Money
  <2>8. CallOK(c)'
    BY <2>4, <2>5, <2>6, <2>7 DEF CallOK
  <2>9. users' = [m \in Emails |-> users'[m]]
    BY <1>1, <1>2 DEF Shapes
  <2> QED
    BY <1>1, <1>2, <2>2, <2>3, <2>8, <2>9, CallStep DEF Shapes
<1> QED
  BY <1>3, <1>4, <1>5 DEF CreateAccount, Write

\* Balances of disjoint sets of entries add up.
LEMMA NetAdd ==
  ASSUME NEW R, IsFiniteSet(R), NEW S, IsFiniteSet(S), R \cap S = {}
  PROVE  Net(R) \in Int /\ Net(S) \in Int /\ Net(R \cup S) = Net(R) + Net(S)
<1>1. ASSUME NEW side
      PROVE  /\ Cardinality(Side(R, side)) \in Nat /\ Cardinality(Side(S, side)) \in Nat
             /\ Cardinality(Side(R \cup S, side)) = Cardinality(Side(R, side)) + Cardinality(Side(S, side))
  <2> DEFINE A == Side(R, side)
             B == Side(S, side)
  <2>1. A \in SUBSET R /\ B \in SUBSET S /\ A \cap B = {} /\ Side(R \cup S, side) = A \cup B
    BY DEF Side
  <2>2. IsFiniteSet(A) /\ IsFiniteSet(B)
    BY <2>1, FS_Subset
  <2> HIDE DEF A, B
  <2>3. Cardinality(A) \in Nat /\ Cardinality(B) \in Nat
    BY <2>2, FS_CardinalityType
  <2>4. Cardinality(A \cup B) = Cardinality(A) + Cardinality(B) - Cardinality(A \cap B)
    BY <2>2, FS_Union
  <2>5. Cardinality(A \cap B) = 0
    BY <2>1, FS_EmptySet
  <2>6. Cardinality(A \cup B) = Cardinality(A) + Cardinality(B)
    BY <2>3, <2>4, <2>5
  <2> QED
    BY <2>1, <2>3, <2>6 DEF A, B
<1>2. /\ Cardinality(Side(R, "credit")) \in Nat /\ Cardinality(Side(R, "debit")) \in Nat
      /\ Cardinality(Side(S, "credit")) \in Nat /\ Cardinality(Side(S, "debit")) \in Nat
      /\ Cardinality(Side(R \cup S, "credit")) = Cardinality(Side(R, "credit")) + Cardinality(Side(S, "credit"))
      /\ Cardinality(Side(R \cup S, "debit")) = Cardinality(Side(R, "debit")) + Cardinality(Side(S, "debit"))
  BY <1>1
<1> QED
  BY <1>2 DEF Net

\* A pair of entries that is posted is new, and the balances follow it.
LEMMA PostEntries ==
  ASSUME HInv, NEW c \in Calls, pc[c] = "ledger", Post(c), UNCHANGED <<users, owner>>,
         Moves(c), pc'[c] = "done"
  PROVE  /\ TablesGrow /\ balance' \in [Accounts -> Int] /\ entries' \in SUBSET Row /\ Rowwise'
         /\ UserOf(c) # None /\ UserOf(c)' = UserOf(c) /\ Legs(c)' = Legs(c) /\ Legs(c) \subseteq entries'
<1> DEFINE new == Legs(c)
<1>1. /\ Shapes /\ Rowwise /\ Sending(c) /\ request[c].kind \in Money /\ UNCHANGED request
      /\ pc[c] # "unsent" /\ May(c, request[c].account)
  BY DEF HInv, CallOK, Going, KindFits, InFlight, Moves
<1>2. UserOf(c) # None
  BY <1>1 DEF HInv, CallOK, Going, InFlight, Moves, Money, Public
<1>3. new \subseteq Row /\ IsFiniteSet(new) /\ \A e \in new : e.tx = c
  BY <1>1, LegsShape
<1>4. entries' = entries \cup new /\ entries \in SUBSET Row /\ IsFiniteSet(entries)
  BY <1>1 DEF Post, Shapes, Rowwise
<1>5. new \cap entries = {}
  <2>1. \A e \in entries : pc[e.tx] = "done"
    BY <1>1 DEF Rowwise, EntryRow
  <2> QED
    BY <1>3, <2>1
<1>6. IsFiniteSet(entries') /\ entries' \in SUBSET Row
  BY <1>3, <1>4, FS_Union
<1>7. TablesGrow
  BY <1>4 DEF TablesGrow
<1>8. Grows /\ Emails' = Emails
  BY <1>7, MovesFrame DEF Grows, Emails, Sent
<1>9. UserOf(c)' = UserOf(c) /\ Legs(c)' = Legs(c)
  BY <1>1, <1>2, <1>8, UserKept, LegsKept
<1>10. ASSUME NEW a \in Accounts
       PROVE  balance'[a] \in Int /\ Cached(a)'
  <2> DEFINE add == {e \in new : e.account = a}
  <2>1. Cached(a) /\ balance'[a] = balance[a] + Net(add)
    BY <1>1 DEF Rowwise, Post
  <2>2. Rows(a) \in SUBSET entries /\ add \in SUBSET new /\ Rows(a) \cap add = {}
    BY <1>5 DEF Rows
  <2>3. IsFiniteSet(Rows(a)) /\ IsFiniteSet(add)
    BY <1>3, <1>4, <2>2, FS_Subset
  <2>4. Net(Rows(a)) \in Int /\ Net(add) \in Int /\ Net(Rows(a) \cup add) = Net(Rows(a)) + Net(add)
    BY <2>2, <2>3, NetAdd
  <2>5. Rows(a)' = Rows(a) \cup add
    BY <1>4 DEF Rows
  <2>6. Net(Rows(a))' = Net(Rows(a) \cup add)
    BY <2>5 DEF Net, Side
  <2> HIDE DEF add
  <2> QED
    BY <2>1, <2>4, <2>6 DEF Cached
<1>11. balance' \in [Accounts -> Int]
  BY <1>10 DEF Post
<1>12. ASSUME NEW e \in new PROVE EntryRow(e)'
  <2>1. e.tx = c /\ new \subseteq entries'
    BY <1>3, <1>4
  <2>2. May(c, request[c].account)'
    BY <1>1, <1>9 DEF May
  <2> QED
    BY <1>1, <1>2, <1>9, <2>1, <2>2 DEF EntryRow
<1>13. \A e \in entries' : EntryRow(e)'
  BY <1>4, <1>8, <1>12, RowsKept
<1>14. Rowwise'
  <2>1. /\ \A m \in Emails : UserRow(m)'
        /\ \A a \in Calls : AccountRow(a)'
    BY <1>8, RowsKept
  <2> QED
    BY <1>1, <1>6, <1>8, <1>10, <1>13, <2>1 DEF Rowwise
<1> QED
  BY <1>2, <1>4, <1>6, <1>7, <1>9, <1>11, <1>14

\* What the ledger does for a call it does not refuse.
LEMMA OperationStep ==
  ASSUME HInv, NEW c \in Calls, pc[c] = "ledger", NEW failure \in {400, 500}, Operation(c, failure)
  PROVE  HInv'
<1>1. pc[c] = "ledger" /\ InFlight(c) /\ UNCHANGED <<users, owner, found, asked>>
  BY DEF Operation, InFlight
<1>2. Shapes /\ Sending(c) /\ request[c].kind \in Money /\ Notes(c) /\ request' = request
  BY <1>1, FoundSame DEF HInv, CallOK, Going, KindFits, asked
<1>3. failure \in Codes \ {0, 200, 201} /\ request[c].kind \notin {"register", "login", "transaction"}
  BY <1>2 DEF Codes, Money
<1>4. CASE Nothing /\ Error(c, failure)
  BY <1>1, <1>2, <1>3, <1>4, RefusedStep DEF Nothing, tables
<1>5. users' = [m \in Emails |-> users'[m]] /\ owner' \in [Accounts -> Calls \cup {Nobody, Unopened}]
  BY <1>1, <1>2 DEF Shapes
<1>6. CASE Post(c) /\ Error(c, failure)
  <2>1. failure \in Codes /\ InFlight(c) /\ UNCHANGED asked
    BY <1>1, <1>3
  <2>2. /\ Moves(c)
        /\ pc'[c] = "done" /\ reply'[c] = [code |-> failure, user |-> None, rows |-> {}]
    BY <1>2, <1>6, <2>1, ErrorMoves
  <2>3. TablesGrow /\ balance' \in [Accounts -> Int] /\ entries' \in SUBSET Row /\ Rowwise'
    BY <1>1, <1>6, <2>2, PostEntries
  <2>4. CallOK(c)'
    BY <1>1, <1>2, <1>3, <2>2, <2>3, ErrorOK DEF Sending
  <2> QED
    BY <1>5, <2>2, <2>3, <2>4, CallStep
<1>7. CASE Post(c) /\ Answer(c, 200, None, {})
  <2>1. 200 \in Codes /\ InFlight(c) /\ UNCHANGED asked
    BY <1>1 DEF Codes
  <2>2. /\ Moves(c)
        /\ pc'[c] = "done" /\ reply'[c] = [code |-> 200, user |-> None, rows |-> {}]
    BY <1>2, <1>7, <2>1, AnswerMoves
  <2>3. /\ TablesGrow /\ balance' \in [Accounts -> Int] /\ entries' \in SUBSET Row /\ Rowwise'
        /\ UserOf(c)' # None /\ Legs(c)' \subseteq entries'
    BY <1>1, <1>7, <2>2, PostEntries
  <2>4. Sending(c)'
    BY <1>1, <1>2, <2>2, <2>3, SendingKept DEF Sending
  <2>5. Going(c)'
    BY <2>2 DEF Going, InFlight
  <2>6. Registering(c)'
    BY <1>2, <1>3, <2>2 DEF Registering
  <2>7. Writing(c)' /\ Showing(c)' /\ Reading(c)'
    BY <1>2, <2>2, <2>3 DEF Writing, Showing, Reading, Money
  <2>8. CallOK(c)'
    BY <2>4, <2>5, <2>6, <2>7 DEF CallOK
  <2> QED
    BY <1>5, <2>2, <2>3, <2>8, CallStep
<1> QED
  BY <1>4, <1>6, <1>7 DEF Operation, Write

LEMMA LedgerStep ==
  ASSUME HInv, NEW c \in Calls, Deposit(c) \/ Withdraw(c) \/ Transfer(c)
  PROVE  HInv'
<1>1. pc[c] = "ledger" /\ InFlight(c)
  BY DEF Deposit, Withdraw, Transfer, Asked, At, InFlight
<1>2. request[c].kind \in Money
  BY <1>1 DEF HInv, CallOK, Going, KindFits
<1>3. CASE Refuse(c)
  <2>1. Error(c, 400) /\ UNCHANGED <<tables, found, asked>> /\ 400 \in Codes \ {0, 200, 201}
    BY <1>3 DEF Refuse, Codes
  <2> QED
    BY <1>1, <1>2, <2>1, RefusedStep DEF Money
<1>4. CASE Operation(c, 500) \/ Operation(c, 400)
  BY <1>1, <1>4, OperationStep
<1> QED
  BY <1>3, <1>4 DEF Deposit, Withdraw, Transfer

-----------------------------------------------------------------------------
(* Calls that are sent, and the crash. *)

\* Rows stay sound while no table changes.
LEMMA RowsQuiet ==
  ASSUME HInv, Grows, UNCHANGED tables
  PROVE  /\ Rowwise' /\ Emails' = Emails /\ users' = [m \in Emails |-> users'[m]]
         /\ owner' \in [Accounts -> Calls \cup {Nobody, Unopened}]
         /\ balance' \in [Accounts -> Int] /\ entries' \in SUBSET Row
<1>1. Shapes /\ Rowwise /\ UNCHANGED <<users, owner, balance, entries>>
  BY DEF HInv, tables
<1>2. Emails' = Emails
  BY DEF Emails, Sent, Grows
<1>3. \A a \in Accounts : Cached(a)'
  BY <1>1 DEF Rowwise, Cached, Rows, Net, Side
<1>4. Rowwise'
  BY <1>1, <1>2, <1>3, RowsKept DEF Rowwise
<1> QED
  BY <1>1, <1>2, <1>4 DEF Shapes

\* The first statement of a kind is one it may be at.
LEMMA FirstStatements ==
  ASSUME NEW kind \in Kinds
  PROVE  /\ FirstStatement(kind) \in Places
         /\ \/ FirstStatement(kind) = "createUser" /\ kind = "register"
            \/ FirstStatement(kind) = "getUserByEmail" /\ kind = "login"
            \/ FirstStatement(kind) = "createAccount" /\ kind = "create"
            \/ FirstStatement(kind) = "listAccountsByOwner" /\ kind = "list"
            \/ FirstStatement(kind) = "listEntriesByTransaction" /\ kind = "transaction"
            \/ FirstStatement(kind) = "getAccount" /\ kind \in OnAccount
<1>1. FirstStatement(kind) \in Places
  BY DEF Places
<1> QED
  BY <1>1 DEF FirstStatement, Kinds, Public, OnAccount

\* A call that is sent knows who its user is, and has been told nothing.
LEMMA SendStep ==
  ASSUME HInv, NEW c \in Sent, Send(c)
  PROVE  HInv'
<1>1. Shapes /\ c \in Calls /\ c \in DOMAIN scenario.script /\ scenario \in Scenarios
  BY HandlersAssumption DEF HInv, Shapes, Sent
<1>2. PICK q \in scenario.script[c] :
        /\ request' = [request EXCEPT ![c] = q]
        /\ IF q.kind \in Public \/ Claim(q.as) # None
           THEN Goto(c, FirstStatement(q.kind))
           ELSE Error(c, 401)
  BY DEF Send
<1>3. q.kind \in Kinds
  BY <1>1, HandlersAssumption
<1>4. /\ pc[c] = "unsent" /\ before' = [before EXCEPT ![c] = Answered]
      /\ UNCHANGED <<users, owner, balance, entries, scenario, found>>
  BY DEF Send, At, tables
<1>5. Sending(c) /\ reply[c] = NoReply
  BY <1>1, <1>4 DEF HInv, CallOK, Sending
<1>6. PICK p \in Places \cup {"done"}, r \in Replies :
        /\ pc' = [pc EXCEPT ![c] = p] /\ reply' = [reply EXCEPT ![c] = r]
        /\ IF q.kind \in Public \/ Claim(q.as) # None
           THEN p = FirstStatement(q.kind) /\ r = NoReply
           ELSE p = "done" /\ r = [code |-> 401, user |-> None, rows |-> {}]
  <2>1. NoReply \in Replies /\ [code |-> 401, user |-> None, rows |-> {}] \in Replies
    BY DEF NoReply, Replies, Codes
  <2>2. CASE q.kind \in Public \/ Claim(q.as) # None
    <3>1. reply' = [reply EXCEPT ![c] = NoReply]
      BY <1>1, <1>2, <1>5, <2>2 DEF Goto, Shapes
    <3>2. pc' = [pc EXCEPT ![c] = FirstStatement(q.kind)] /\ FirstStatement(q.kind) \in Places
      BY <1>2, <1>3, <2>2, FirstStatements DEF Goto
    <3> QED
      BY <2>1, <2>2, <3>1, <3>2
  <2>3. CASE ~(q.kind \in Public \/ Claim(q.as) # None)
    BY <1>2, <2>1, <2>3 DEF Error, Answer
  <2> QED
    BY <2>2, <2>3
<1>7. /\ pc'[c] = p /\ reply'[c] = r /\ request'[c] = q /\ before'[c] = Answered
      /\ \A d \in Calls \ {c} : /\ pc'[d] = pc[d] /\ reply'[d] = reply[d]
                                /\ request'[d] = request[d] /\ before'[d] = before[d]
  BY <1>1, <1>2, <1>4, <1>6 DEF Shapes
<1>8. /\ pc' \in [Calls -> Places \cup {"unsent", "done"}] /\ reply' \in [Calls -> Replies]
      /\ request' = [d \in Calls |-> request'[d]] /\ before' \in [Calls -> SUBSET Calls]
  <2>1. Answered \in SUBSET Calls
    BY DEF Answered
  <2>2. reply \in [Calls -> Replies]
    BY <1>1 DEF Shapes, Replies
  <2>3. reply' \in [Calls -> Replies] /\ pc' \in [Calls -> Places \cup {"unsent", "done"}]
    BY <1>1, <1>6, <2>2 DEF Shapes
  <2>4. request' = [d \in Calls |-> request'[d]]
    BY <1>1, <1>2 DEF Shapes
  <2> QED
    BY <1>1, <1>4, <2>1, <2>3, <2>4 DEF Shapes
<1>9. Grows
  <2>1. TablesGrow
    BY <1>4 DEF TablesGrow
  <2> QED
    BY <1>4, <1>5, <1>7, <2>1 DEF Grows
<1>10. Shapes' /\ Rowwise'
  <2>1. UNCHANGED tables /\ scenario' \in Scenarios
    BY <1>1, <1>4 DEF tables
  <2>2. found' \in [Calls -> [all : SUBSET Row, unchecked : SUBSET Row, balance : Int]]
    BY <1>1, <1>4 DEF Shapes
  <2> QED
    BY <1>8, <1>9, <2>1, <2>2, RowsQuiet DEF Shapes, Replies
<1>11. Sending(c)'
  <2>1. \A b \in Answered : reply'[b] # NoReply /\ b # c
    BY <1>5, <1>9 DEF Answered, Grows
  <2>2. p # "unsent" /\ (r # NoReply => p = "done")
    BY <1>6, PlaceNames
  <2>3. found'[c].unchecked \subseteq found'[c].all
    BY <1>4, <1>5 DEF Sending
  <2> QED
    BY <1>4, <1>7, <2>1, <2>2, <2>3 DEF Sending, Sent
<1>12. CASE q.kind \in Public \/ Claim(q.as) # None
  <2>1. p = FirstStatement(q.kind) /\ r = NoReply
    BY <1>6, <1>12
  <2>2. KindFits(c)'
    BY <1>3, <1>7, <2>1, FirstStatements DEF KindFits
  <2>3. reply' = reply
    BY <1>1, <1>5, <1>6, <2>1 DEF Shapes
  <2>4. UserOf(c)' = Claim(q.as)
    BY <1>7, <2>3 DEF UserOf, Claim
  <2>5. p \in {"createUser", "getUserByEmail", "createAccount", "listAccountsByOwner",
               "listEntriesByTransaction", "getAccount"}
    BY <1>3, <2>1, FirstStatements
  <2>6. Going(c)'
    BY <1>7, <1>12, <2>2, <2>4, <2>5 DEF Going
  <2>7. CallOK(c)'
    BY <1>1, <1>7, <1>11, <2>1, <2>6, NothingTold DEF CallOK
  <2> QED
    BY <1>4, <1>7, <1>9, <1>10, <2>7, CallKept DEF HInv
<1>13. CASE ~(q.kind \in Public \/ Claim(q.as) # None)
  <2>1. /\ pc'[c] = "done" /\ reply'[c].code = 401 /\ reply'[c].user = None
        /\ request'[c].kind \notin {"register", "login"}
    BY <1>6, <1>7, <1>13 DEF Public
  <2>2. Going(c)' /\ Registering(c)'
    BY <2>1 DEF Going, InFlight, Registering
  <2>3. Writing(c)' /\ Showing(c)' /\ Reading(c)'
    BY <2>1 DEF Writing, Showing, Reading
  <2>4. CallOK(c)'
    BY <1>11, <2>2, <2>3 DEF CallOK
  <2> QED
    BY <1>4, <1>7, <1>9, <1>10, <2>4, CallKept DEF HInv
<1> QED
  BY <1>12, <1>13

\* A crash ends the calls in flight; they were told nothing.
LEMMA CrashStep ==
  ASSUME HInv, Crash
  PROVE  HInv'
<1>1. Shapes /\ UNCHANGED <<tables, found, reply, asked>>
  BY DEF HInv, Crash
<1>2. \A d \in Calls : pc'[d] = IF InFlight(d) THEN "done" ELSE pc[d]
  BY DEF Crash, InFlight
<1>3. pc' \in [Calls -> Places \cup {"unsent", "done"}]
  BY <1>1 DEF Crash, Shapes
<1>4. Grows
  <2>1. TablesGrow /\ UNCHANGED <<scenario, request, before, reply>>
    BY <1>1 DEF TablesGrow, tables, asked
  <2> QED
    BY <1>2, <2>1 DEF Grows, InFlight
<1>5. Shapes' /\ Rowwise'
  BY <1>1, <1>3, <1>4, RowsQuiet DEF Shapes, asked
<1>6. ASSUME NEW c \in Calls PROVE CallOK(c)'
  <2>1. UNCHANGED <<scenario, request, before, reply, found>>
    BY <1>1 DEF asked
  <2>2. CASE ~InFlight(c)
    BY <1>2, <1>4, <2>1, <2>2, CallKept
  <2>3. CASE InFlight(c)
    <3>1. pc'[c] = "done" /\ Sending(c) /\ pc[c] # "unsent"
      BY <1>2, <2>3 DEF HInv, CallOK, InFlight
    <3>2. reply'[c] = NoReply
      BY <2>1, <2>3, <3>1 DEF Sending, InFlight
    <3>3. Sending(c)'
      BY <2>1, <3>1 DEF Sending, Sent
    <3>4. Going(c)'
      BY <3>1 DEF Going, InFlight
    <3> QED
      BY <3>2, <3>3, <3>4, NothingTold DEF CallOK
  <2> QED
    BY <2>2, <2>3
<1> QED
  BY <1>5, <1>6 DEF HInv

LEMMA InitHInv == Init => HInv
<1> SUFFICES ASSUME Init PROVE HInv
  OBVIOUS
<1>1. Shapes
  <2>1. /\ NoReply \in [code : Codes, user : Calls \cup {None}, rows : SUBSET (Accounts \cup Row)]
        /\ NoRows \in [all : SUBSET Row, unchecked : SUBSET Row, balance : Int]
    BY DEF NoReply, NoRows, Codes
  <2>2. /\ scenario \in Scenarios /\ users = [m \in Emails |-> users[m]]
        /\ owner \in [Accounts -> Calls \cup {Nobody, Unopened}]
        /\ balance \in [Accounts -> Int] /\ entries \in SUBSET Row
    BY DEF Init
  <2>3. /\ request = [c \in Calls |-> request[c]]
        /\ pc \in [Calls -> Places \cup {"unsent", "done"}] /\ before \in [Calls -> SUBSET Calls]
    BY DEF Init
  <2> QED
    BY <2>1, <2>2, <2>3 DEF Init, Shapes
<1>2. Rowwise
  <2>1. \A m \in Emails : UserRow(m)
    BY DEF Init, UserRow
  <2>2. owner[Settlement] = Nobody /\ \A a \in Calls : owner[a] = Unopened
    BY HandlersAssumption DEF Init, Accounts
  <2>3. IsFiniteSet(entries) /\ entries = {}
    BY FS_EmptySet DEF Init
  <2>4. \A a \in Accounts : Cached(a)
    <3>1. Net({}) = 0
      <4>1. Side({}, "credit") = {} /\ Side({}, "debit") = {}
        BY DEF Side
      <4> QED
        BY <4>1, FS_EmptySet DEF Net
    <3>2. \A a \in Accounts : Rows(a) = {} /\ balance[a] = 0
      BY <2>3 DEF Rows, Init
    <3> QED
      BY <3>1, <3>2 DEF Cached
  <2> QED
    BY <2>1, <2>2, <2>3, <2>4 DEF Rowwise, AccountRow
<1>3. ASSUME NEW c \in Calls PROVE CallOK(c)
  <2>1. pc[c] = "unsent" /\ reply[c] = NoReply /\ before[c] = {} /\ found[c] = NoRows
    BY DEF Init
  <2>2. Sending(c) /\ Going(c)
    BY <2>1 DEF Sending, Going, InFlight, NoRows
  <2>3. Registering(c) /\ Writing(c)
    BY <2>1 DEF Registering, Writing, NoReply
  <2>4. Showing(c) /\ Reading(c)
    BY <2>1 DEF Showing, Reading, NoReply
  <2> QED
    BY <2>2, <2>3, <2>4 DEF CallOK
<1> QED
  BY <1>1, <1>2, <1>3 DEF HInv

LEMMA StutterHInv == HInv /\ UNCHANGED vars => HInv'
<1> SUFFICES ASSUME HInv, UNCHANGED vars PROVE HInv'
  OBVIOUS
<1>1. UNCHANGED <<users, owner, balance, entries, scenario, request, pc, found, reply, before>>
  BY DEF vars
<1>2. Grows /\ UNCHANGED tables
  BY <1>1 DEF Grows, TablesGrow, tables
<1>3. Shapes' /\ Rowwise'
  BY <1>1, <1>2, RowsQuiet DEF HInv, Shapes
<1> QED
  BY <1>1, <1>2, <1>3, CallKept DEF HInv

LEMMA NextHInv == HInv /\ [Next]_vars => HInv'
<1> SUFFICES ASSUME HInv, [Next]_vars PROVE HInv'
  OBVIOUS
<1>1. CASE UNCHANGED vars
  BY <1>1, StutterHInv
<1>2. CASE Idle
  BY <1>2, StutterHInv DEF Idle
<1>3. CASE Crash
  BY <1>3, CrashStep
<1>4. ASSUME NEW c \in Sent, Send(c) PROVE HInv'
  BY <1>4, SendStep
<1>5. ASSUME NEW c \in Calls, Statement(c) PROVE HInv'
  <2>1. CASE HashingFails(c) \/ CreateUser(c) \/ GetUserByEmail(c) \/ GenerateToken(c)
    BY <2>1, HashingFailsStep, CreateUserStep, GetUserByEmailStep, GenerateTokenStep
  <2>2. CASE CreateAccount(c) \/ ListAccountsByOwner(c) \/ GetAccount(c)
    BY <2>2, CreateAccountStep, ListAccountsByOwnerStep, GetAccountStep
  <2>3. CASE Deposit(c) \/ Withdraw(c) \/ Transfer(c)
    BY <2>3, LedgerStep
  <2>4. CASE ListEntriesByAccount(c) \/ ReadBalance(c) \/ ReconcileAccount(c)
    BY <2>4, ListEntriesByAccountStep, ReadBalanceStep, ReconcileAccountStep
  <2>5. CASE ListEntriesByTransaction(c) \/ Authorize(c)
    BY <2>5, ListEntriesByTransactionStep, AuthorizeStep
  <2>6. CASE Malformed(c) \/ MalformedAmount(c) \/ ReadFails(c)
    BY <2>6, MalformedStep, ReadFailsStep
  <2> QED
    BY <1>5, <2>1, <2>2, <2>3, <2>4, <2>5, <2>6 DEF Statement
<1> QED
  BY <1>1, <1>2, <1>3, <1>4, <1>5 DEF Next

LEMMA HandlersInvariant == Spec => []HInv
BY InitHInv, NextHInv, PTL DEF Spec

-----------------------------------------------------------------------------
(* What the calls are promised. *)

\* A call's user is a registered user, with the token's credentials.
LEMMA UserRegistered ==
  ASSUME HInv, NEW c \in Calls, UserOf(c) # None
  PROVE  LET token == request[c].as
         IN /\ token \in Calls /\ pc[token] # "unsent" /\ request[token].kind \in Public
            /\ request[token].email \in Emails /\ Credentials(token, UserOf(c))
            /\ UserOf(c) \in Registered
<1> DEFINE token == request[c].as
<1>1. Shapes /\ token \in Calls /\ UserOf(c) = reply[token].user
  BY DEF HInv, UserOf, Claim
<1>2. reply[token] # NoReply /\ Sending(token) /\ Registering(token)
  BY <1>1 DEF HInv, CallOK, NoReply
<1>3. pc[token] # "unsent" /\ request[token].kind \in Public /\ Credentials(token, UserOf(c))
  BY <1>1, <1>2 DEF Sending, Registering
<1>4. request[token].email \in Emails
  BY <1>1, <1>2, <1>3, RequestTypes
<1> QED
  BY <1>1, <1>3, <1>4 DEF Registered, Credentials

\* Types: above all, an account with an owner has a registered one, whatever
\* ran between the registration, the login and the insert of the account.
THEOREM TypeCorrect == Spec => []TypeOK
<1>1. ASSUME HInv PROVE TypeOK
  <2>1. Shapes /\ Rowwise /\ \A c \in Calls : Sending(c)
    BY <1>1 DEF HInv, CallOK
  <2>2. \A m \in Emails : users[m].id \in Calls \cup {None}
    BY <2>1 DEF Rowwise, UserRow
  <2>3. owner \in [Accounts -> Registered \cup {Nobody, Unopened}]
    <3>1. ASSUME NEW a \in Calls PROVE owner[a] \in Registered \cup {Nobody, Unopened}
      <4>1. CASE owner[a] # Unopened
        <5>1. UserOf(a) # None /\ owner[a] = UserOf(a)
          BY <2>1, <4>1 DEF Rowwise, AccountRow
        <5> QED
          BY <1>1, <5>1, UserRegistered
      <4> QED
        BY <4>1
    <3>2. owner[Settlement] = Nobody
      BY <2>1 DEF Rowwise
    <3> QED
      BY <2>1, <3>1, <3>2 DEF Shapes, Accounts
  <2>4. \A c \in Calls : found[c].unchecked \subseteq found[c].all
    BY <2>1 DEF Sending
  <2>5. \A c \in Calls : reply[c].code \in {0, 200, 201, 400, 401, 403, 404, 409, 500}
    BY <2>1 DEF Shapes, Codes
  <2> QED
    BY <2>1, <2>2, <2>3, <2>4, <2>5 DEF TypeOK, Shapes, Row
<1> QED
  BY <1>1, HandlersInvariant, PTL

\* The email and password of a registration that was inserted work for every
\* login sent after its answer, whatever that answer was, and no other
\* registration takes the email over.
THEOREM RegistrationsStand == Spec => []RegistrationsHold
<1>1. ASSUME HInv, NEW c \in Calls, NEW d \in Calls,
             "read" \notin scenario.faults, c \in before[d], d \in Answered,
             request[c].kind = "register", reply[c].code = 201 \/ Inserted(c)
      PROVE  /\ (request[d].kind = "login" /\ SameCredentials(c, d)) => reply[d].code # 401
             /\ (request[d].kind = "register" /\ request[d].email = request[c].email) =>
                  reply[d].code # 201 /\ ~Inserted(d)
  <2>1. Registering(c) /\ Registering(d) /\ Sending(c) /\ Sending(d) /\ Shapes /\ Rowwise
    BY <1>1 DEF HInv, CallOK
  <2>2. c # d /\ reply[c] # NoReply /\ pc[c] # "unsent"
    BY <1>1, <2>1 DEF Sending
  <2>3. Credentials(c, c)
    <3>1. CASE reply[c].code = 201
      BY <1>1, <2>1, <3>1 DEF Registering
    <3>2. CASE Inserted(c)
      <4>1. request[c].email \in Emails /\ c # None
        BY <1>1, <2>1, <2>2, RequestTypes, HandlersAssumption DEF Public
      <4>2. UserRow(request[c].email)
        BY <2>1, <4>1 DEF Rowwise
      <4> QED
        BY <3>2, <4>1, <4>2 DEF UserRow, Inserted, Credentials
    <3> QED
      BY <1>1, <3>1, <3>2
  <2>4. (request[d].kind = "login" /\ SameCredentials(c, d)) => reply[d].code # 401
    BY <1>1, <2>1, <2>3 DEF Registering
  <2>5. ASSUME request[d].kind = "register", request[d].email = request[c].email
        PROVE  reply[d].code # 201 /\ ~Inserted(d)
    <3>1. users[request[d].email].id = c
      BY <2>3, <2>5 DEF Credentials
    <3> QED
      BY <2>1, <2>2, <2>5, <3>1 DEF Registering, Credentials, Inserted
  <2> QED
    BY <2>4, <2>5
<1>2. ASSUME HInv PROVE RegistrationsHold
  BY <1>1, <1>2 DEF RegistrationsHold
<1> QED
  BY <1>2, HandlersInvariant, PTL

\* An account is debited only with a token issued for its owner's email and
\* password, whatever runs between the owner check and the transaction.
THEOREM OnlyOwnersDebit == Spec => []OwnerDebits
<1>1. ASSUME HInv, NEW e \in entries, e.side = "debit", e.account # Settlement
      PROVE  request[e.tx].as \in Calls /\ SameCredentials(request[e.tx].as, owner[e.account])
  <2> DEFINE c == e.tx
             token == request[c].as
             a == e.account
  <2>1. Shapes /\ Rowwise /\ EntryRow(e) /\ c \in Calls /\ a \in Accounts
    BY <1>1 DEF HInv, Rowwise, Shapes, Row
  <2>2. /\ pc[c] = "done" /\ request[c].kind \in Money /\ e \in Legs(c)
        /\ UserOf(c) # None /\ May(c, request[c].account) /\ Sending(c)
    BY <1>1, <2>1 DEF EntryRow, HInv, CallOK
  <2>3. a = request[c].account
    BY <1>1, <2>1, <2>2, LegsShape
  <2>4. a \in Calls
    BY <1>1, <2>1 DEF Accounts
  <2>5. owner[a] = UserOf(c)
    <3>1. owner[a] # Nobody
      <4>1. owner[a] # Unopened => UserOf(a) # None /\ owner[a] = UserOf(a)
        BY <2>1, <2>4 DEF Rowwise, AccountRow
      <4>2. UserOf(a) # None => UserOf(a) \in Calls
        BY <2>1, <2>4, UserIsCall
      <4> QED
        BY <4>1, <4>2, HandlersAssumption DEF Nobody, Unopened
    <3> QED
      BY <2>2, <2>3, <3>1 DEF May
  <2>6. token \in Calls /\ request[token].email \in Emails /\ Credentials(token, UserOf(c))
    BY <1>1, <2>1, <2>2, UserRegistered
  <2>7. LET u == UserOf(c) IN request[u].email = request[token].email /\ request[u].password = request[token].password
    <3>1. UserRow(request[token].email)
      BY <2>1, <2>6 DEF Rowwise
    <3> QED
      BY <2>2, <2>6, <3>1 DEF UserRow, Credentials
  <2> QED
    BY <2>5, <2>6, <2>7 DEF SameCredentials
<1>2. ASSUME HInv PROVE OwnerDebits
  BY <1>1, <1>2 DEF OwnerDebits
<1> QED
  BY <1>2, HandlersInvariant, PTL

\* A call is shown accounts and entries of its user's or nobody's, and of a
\* transaction both entries, if one is on an account of its user.
THEOREM ShownOwnData == Spec => []OwnDataOnly
<1>1. ASSUME HInv, NEW c \in Calls, reply[c].code = 200
      PROVE  /\ request[c].kind \in {"get", "list"} =>
                  \A a \in reply[c].rows : owner[a] \in {UserOf(c), Nobody}
             /\ request[c].kind = "entries" =>
                  \A e \in reply[c].rows : owner[e.account] \in {UserOf(c), Nobody}
             /\ request[c].kind = "transaction" =>
                  /\ \E e \in reply[c].rows : owner[e.account] = UserOf(c)
                  /\ reply[c].rows = Legs(request[c].tx)
  <2>1. Showing(c)
    BY <1>1 DEF HInv, CallOK
  <2> QED
    BY <1>1, <2>1 DEF Showing, May
<1>2. ASSUME HInv PROVE OwnDataOnly
  BY <1>1, <1>2 DEF OwnDataOnly
<1> QED
  BY <1>2, HandlersInvariant, PTL

\* What was acknowledged before a call was sent is in what it reads, if the
\* page of a listing is not full.
THEOREM WritesAreRead == Spec => []ReadYourWrites
<1>1. ASSUME HInv, NEW c \in Answered
      PROVE  /\ request[c].kind = "list" /\ reply[c].code = 200 =>
                  {d \in Acknowledged(c, {"create"}) : UserOf(d) = UserOf(c)} \subseteq reply[c].rows
             /\ request[c].kind = "entries" /\ reply[c].code = 200 /\ Cardinality(reply[c].rows) < PageSize(c) =>
                  \A d \in Acknowledged(c, {"deposit", "withdraw", "transfer"}) :
                    {e \in Legs(d) : e.account = request[c].account} \subseteq reply[c].rows
             /\ request[c].kind = "transaction" /\ reply[c].code = 404 =>
                  request[c].tx \notin Acknowledged(c, {"deposit", "withdraw", "transfer"})
  <2>1. Reading(c)
    BY <1>1 DEF HInv, CallOK, Answered
  <2> QED
    BY <2>1 DEF Reading, Money
<1>2. ASSUME HInv PROVE ReadYourWrites
  BY <1>1, <1>2 DEF ReadYourWrites
<1> QED
  BY <1>2, HandlersInvariant, PTL

\* Reconciliation reports a mismatch exactly when the entries committed
\* between its two reads change the balance.
THEOREM VerdictsMeanNetChange == Spec => VerdictMeansNetChange
<1> DEFINE Verdict(c) ==
             At(c, "getAccountBalance") /\ reply'[c] # NoReply =>
               LET between == Rows(request[c].account) \ found[c].all
               IN /\ reply'[c].code = 200 => Net(between) = 0
                  /\ reply'[c].rows # {} => Net(between) # 0
<1>1. ASSUME HInv, [Next]_vars, NEW c \in Calls, pc[c] = "getAccountBalance", reply'[c] # NoReply
      PROVE  LET between == Rows(request[c].account) \ found[c].all
             IN /\ reply'[c].code = 200 => Net(between) = 0
                /\ reply'[c].rows # {} => Net(between) # 0
  <2> DEFINE a == request[c].account
             all == found[c].all
             between == Rows(a) \ all
  <2>1. Shapes /\ Sending(c) /\ Going(c) /\ InFlight(c) /\ IsFiniteSet(entries) /\ reply[c] = NoReply
    BY <1>1 DEF HInv, CallOK, InFlight, Rowwise, Sending
  <2>2. all \subseteq Rows(a) /\ found[c].balance = Net(all)
    BY <1>1, <2>1 DEF Going
  <2>3. IsFiniteSet(all) /\ IsFiniteSet(between)
    <3>1. all \in SUBSET entries /\ between \in SUBSET entries
      BY <2>2 DEF Rows
    <3> QED
      BY <2>1, <3>1, FS_Subset
  <2>4. Net(all) \in Int /\ Net(between) \in Int /\ Net(Rows(a)) = Net(all) + Net(between)
    <3>1. Rows(a) = all \cup between /\ all \cap between = {}
      BY <2>2
    <3> QED
      BY <2>3, <3>1, NetAdd
  <2>5. ReconcileAccount(c) \/ ReadFails(c)
    <3>1. ~UNCHANGED reply /\ ~Crash
      BY <1>1, <2>1 DEF Crash
    <3>2. PICK d \in Calls : Send(d) \/ Statement(d)
      <4>1. Sent \subseteq Calls
        BY <2>1, HandlersAssumption DEF Sent, Shapes
      <4> QED
        BY <1>1, <3>1, <4>1 DEF Next, Idle, vars
    <3>3. d = c
      <4>1. \A code, user, rows : Answer(d, code, user, rows) => \A b \in Calls \ {d} : reply'[b] = reply[b]
        BY <2>1 DEF Answer, Shapes
      <4> QED
        BY <1>1, <2>1, <3>1, <3>2, <4>1
           DEF Send, Statement, HashingFails, CreateUser, GetUserByEmail, GenerateToken, CreateAccount, ListAccountsByOwner,
               GetAccount, Deposit, Withdraw, Transfer, ListEntriesByAccount, ReadBalance, ReconcileAccount,
               ListEntriesByTransaction, Authorize, Malformed, MalformedAmount, ReadFails, ReadError, Refuse,
               Operation, Write, Error, Goto
    <3> QED
      BY <1>1, <3>2, <3>3
         DEF Send, Statement, HashingFails, CreateUser, GetUserByEmail, GenerateToken, CreateAccount, ListAccountsByOwner,
             GetAccount, Deposit, Withdraw, Transfer, Asked, At, ListEntriesByAccount, ReadBalance,
             ListEntriesByTransaction, Authorize, Malformed, MalformedAmount
  <2>6. CASE ReadFails(c)
    <3>1. PICK code \in {401, 404, 500} : Error(c, code)
      BY <2>6 DEF ReadFails, ReadError
    <3>2. reply'[c] = [code |-> code, user |-> None, rows |-> {}]
      BY <2>1, <3>1 DEF Error, Answer, Shapes
    <3> QED
      BY <3>2
  <2>7. CASE ReconcileAccount(c)
    <3>1. CASE found[c].balance = Net(Rows(a)) /\ Answer(c, 200, None, {})
      <4>1. reply'[c] = [code |-> 200, user |-> None, rows |-> {}]
        BY <2>1, <3>1 DEF Answer, Shapes
      <4>2. Net(between) = 0
        <5> HIDE DEF all, between
        <5> QED
          BY <2>2, <2>4, <3>1
      <4> QED
        BY <4>1, <4>2
    <3>2. CASE found[c].balance # Net(Rows(a)) /\ Answer(c, 500, None, {a})
      <4>1. reply'[c] = [code |-> 500, user |-> None, rows |-> {a}]
        BY <2>1, <3>2 DEF Answer, Shapes
      <4>2. Net(between) # 0
        <5> HIDE DEF all, between
        <5> QED
          BY <2>2, <2>4, <3>2
      <4> QED
        BY <4>1, <4>2
    <3> QED
      BY <2>7, <3>1, <3>2 DEF ReconcileAccount, GetAccountBalance
  <2> QED
    BY <2>5, <2>6, <2>7
<1>2. ASSUME HInv, [Next]_vars PROVE \A c \in Calls : Verdict(c)
  BY <1>1, <1>2 DEF At
<1>3. HInv /\ [Next]_vars => [\A c \in Calls : Verdict(c)]_vars
  BY <1>2
<1> QED
  BY <1>3, HandlersInvariant, PTL DEF Spec, VerdictMeansNetChange
=============================================================================
