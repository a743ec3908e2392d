----------------------------- MODULE TokenBuckets -----------------------------
(***************************************************************************)
(* What a rate limiter promises: one token bucket per client, never        *)
(* forgotten.  It starts full, gains one unit per tick of the clock up to  *)
(* its capacity, and a request is admitted when, and only when, the bucket *)
(* of its client holds the price of a token.  RateLimiter.tla, which       *)
(* forgets idle clients, is shown to implement this module.                *)
(***************************************************************************)
EXTENDS Integers

CONSTANTS
  Clients,   \* identifiers of clients
  Requests,  \* identities of requests
  ClientOf,  \* the client of each request
  Price,     \* units a token costs: ticks of the clock between two tokens
  Burst      \* tokens a full bucket holds

VARIABLES
  level,     \* units in the bucket of each client
  verdict    \* what became of each request

vars == <<level, verdict>>

Capacity == Burst * Price
Capped(units) == IF units > Capacity THEN Capacity ELSE units

Init ==
  /\ level = [c \in Clients |-> Capacity]
  /\ verdict = [r \in Requests |-> "pending"]

Tick ==
  /\ level' = [c \in Clients |-> Capped(level[c] + 1)]
  /\ UNCHANGED verdict

Admit(r) ==
  /\ verdict[r] = "pending"
  /\ level[ClientOf[r]] >= Price
  /\ level' = [level EXCEPT ![ClientOf[r]] = @ - Price]
  /\ verdict' = [verdict EXCEPT ![r] = "admitted"]

Refuse(r) ==
  /\ verdict[r] = "pending"
  /\ level[ClientOf[r]] < Price
  /\ verdict' = [verdict EXCEPT ![r] = "refused"]
  /\ UNCHANGED level

Next == Tick \/ \E r \in Requests : Admit(r) \/ Refuse(r)

Spec == Init /\ [][Next]_vars
=============================================================================
