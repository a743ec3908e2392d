----------------------------- MODULE RateLimiter -----------------------------
(***************************************************************************)
(* RateLimiter (internal/ratelimit/ratelimit.go): a map from client ids to *)
(* token buckets, filled on demand by the requests and emptied of idle     *)
(* clients by the cleanup goroutine.                                       *)
(*                                                                         *)
(* A request holds the mutex in getLimiter and not in Allow: between the   *)
(* two it holds a pointer to a bucket that cleanup may meanwhile remove    *)
(* from the map.  Buckets are therefore objects of their own, named by the *)
(* request that created them.  Time is counted in ticks of 1/Price of the  *)
(* time between two tokens.                                                *)
(***************************************************************************)
EXTENDS Integers, FiniteSets

CONSTANTS
  Clients,   \* client ids
  Requests,  \* requests served
  ClientOf,  \* the id the middleware finds for each request
  Price,     \* ticks between two tokens
  Burst,     \* burst
  Ttl,       \* ttl, in ticks
  Period,    \* the period of cleanup's ticker
  Stall,     \* longest time a goroutine that can run is not scheduled
  Horizon,   \* the clock stops here
  None       \* no bucket

ASSUME RateLimiterAssumption ==
  /\ IsFiniteSet(Requests)
  /\ ClientOf \in [Requests -> Clients]
  /\ {Price, Burst, Period} \subseteq Nat \ {0}
  /\ {Stall, Horizon} \subseteq Nat
  /\ Stall < Period
  /\ None \notin Requests

\* An idle bucket is full before it may be removed.  main: a bucket refills in
\* at most 0.7 s and the shortest ttl is 5 minutes.
ASSUME SlowEviction == Ttl \in Nat /\ Ttl >= Burst * Price + Stall

VARIABLES
  now,      \* the clock
  due,      \* cleanup's ticker has fired and was not yet served
  limiter,  \* clients[id].limiter, or None when id is not in the map
  lastSeen, \* clients[id].lastSeen
  tokens,   \* units in each bucket when it was last taken from
  last,     \* when that was
  pc,       \* where each request is
  held,     \* the bucket getLimiter returned to it
  at        \* when it was last active

mapVars == <<limiter, lastSeen>>
bucketVars == <<tokens, last>>
requestVars == <<pc, held, at>>
vars == <<now, due, limiter, lastSeen, tokens, last, pc, held, at>>

Known(c) == limiter[c] # None
Capacity == Burst * Price
Capped(units) == IF units > Capacity THEN Capacity ELSE units

\* golang.org/x/time/rate: what bucket b holds now.
Held(b) == Capped(tokens[b] + now - last[b])

Init ==
  /\ now = 0
  /\ due = FALSE
  /\ limiter = [c \in Clients |-> None]
  /\ lastSeen = [c \in Clients |-> 0]
  /\ tokens = [b \in Requests |-> Capacity]
  /\ last = [b \in Requests |-> 0]
  /\ pc = [r \in Requests |-> "arriving"]
  /\ held = [r \in Requests |-> None]
  /\ at = [r \in Requests |-> 0]

-----------------------------------------------------------------------------
(* A request. *)

\* Both outcomes of getLimiter stamp the client and hand out its bucket.
Take(r, b) ==
  /\ pc[r] = "arriving"
  /\ lastSeen' = [lastSeen EXCEPT ![ClientOf[r]] = now]
  /\ held' = [held EXCEPT ![r] = b]
  /\ pc' = [pc EXCEPT ![r] = "limited"]
  /\ at' = [at EXCEPT ![r] = now]
  /\ UNCHANGED <<now, due>>

GetLimiter(r) ==
  /\ Known(ClientOf[r])
  /\ Take(r, limiter[ClientOf[r]])
  /\ UNCHANGED <<limiter, bucketVars>>

\* Variant: looked up under the read lock, created under the write lock
\* without looking again, so that the second of two requests replaces the
\* bucket of the first.
NewLimiter_Unchecked(r) ==
  /\ limiter' = [limiter EXCEPT ![ClientOf[r]] = r]
  /\ tokens' = [tokens EXCEPT ![r] = Capacity]
  /\ last' = [last EXCEPT ![r] = now]
  /\ Take(r, r)

\* The client is not in the map: a full bucket is put there.
NewLimiter(r) ==
  /\ ~Known(ClientOf[r])
  /\ limiter' = [limiter EXCEPT ![ClientOf[r]] = r]
  /\ tokens' = [tokens EXCEPT ![r] = Capacity]
  /\ last' = [last EXCEPT ![r] = now]
  /\ Take(r, r)

Decide(r, verdict) ==
  /\ pc' = [pc EXCEPT ![r] = verdict]
  /\ held' = [held EXCEPT ![r] = None]
  /\ at' = [at EXCEPT ![r] = now]
  /\ UNCHANGED <<now, due, mapVars>>

\* limiter.Allow()
Allow(r) ==
  /\ pc[r] = "limited"
  /\ Held(held[r]) >= Price
  /\ tokens' = [tokens EXCEPT ![held[r]] = Held(held[r]) - Price]
  /\ last' = [last EXCEPT ![held[r]] = now]
  /\ Decide(r, "admitted")

TooManyRequests(r) ==
  /\ pc[r] = "limited"
  /\ Held(held[r]) < Price
  /\ Decide(r, "refused")
  /\ UNCHANGED bucketVars

-----------------------------------------------------------------------------
(* The cleanup goroutine and the clock. *)

\* Variant: the age is compared with the ticker's period instead of ttl.
Idle_ByPeriod(c) == Known(c) /\ now - lastSeen[c] >= Period

Idle(c) == Known(c) /\ now - lastSeen[c] > Ttl

\* Variant: the loop is left after the first removal.
Cleanup_FirstOnly ==
  /\ due
  /\ due' = FALSE
  /\ \/ \E c \in Clients : Idle(c) /\ limiter' = [limiter EXCEPT ![c] = None]
     \/ (\A c \in Clients : ~Idle(c)) /\ UNCHANGED limiter
  /\ UNCHANGED <<now, lastSeen, bucketVars, requestVars>>

\* One pass over the map under the mutex.
Cleanup ==
  /\ due
  /\ due' = FALSE
  /\ limiter' = [c \in Clients |-> IF Idle(c) THEN None ELSE limiter[c]]
  /\ lastSeen' = [c \in Clients |-> IF Idle(c) THEN 0 ELSE lastSeen[c]]
  /\ UNCHANGED <<now, bucketVars, requestVars>>

\* No goroutine that can run is held up for longer than Stall.
Prompt ==
  /\ \A r \in Requests : pc[r] = "limited" => now - at[r] < Stall
  /\ due => now % Period < Stall

Tick ==
  /\ now < Horizon
  /\ Prompt
  /\ now' = now + 1
  /\ due' = (due \/ now' % Period = 0)
  /\ UNCHANGED <<mapVars, bucketVars, requestVars>>

Stopped ==
  /\ now = Horizon
  /\ UNCHANGED vars

Next ==
  \/ \E r \in Requests :
       GetLimiter(r) \/ NewLimiter(r) \/ Allow(r) \/ TooManyRequests(r)
  \/ Cleanup
  \/ Tick
  \/ Stopped

Spec == Init /\ [][Next]_vars

-----------------------------------------------------------------------------
(* Properties. *)

\* The limit itself: in no interval of time are more requests of one client
\* admitted than a burst and what the rate adds, whatever cleanup removes.
AdmittedIn(c, from, to) ==
  {r \in Requests : ClientOf[r] = c /\ pc[r] = "admitted" /\ at[r] \in from .. to}
WindowBound ==
  \A c \in Clients : \A from, to \in 0 .. now :
    from <= to =>
      Cardinality(AdmittedIn(c, from, to)) * Price <= Capacity + (to - from)

\* The map does not grow for ever: a client that stays away is gone at the
\* first pass of cleanup after ttl.
IdleClientsForgotten ==
  \A c \in Clients : Known(c) => now - lastSeen[c] <= Ttl + Period + Stall

\* Nobody gains or loses by being forgotten: the limiter behaves as if every
\* client had a bucket for ever.
Level(c) == IF Known(c) THEN Held(limiter[c]) ELSE Capacity
Verdict(r) == IF pc[r] \in {"admitted", "refused"} THEN pc[r] ELSE "pending"
Unforgetting == INSTANCE TokenBuckets WITH
  level <- [c \in Clients |-> Level(c)],
  verdict <- [r \in Requests |-> Verdict(r)]
ForgettingIsInvisible == Unforgetting!Spec
=============================================================================
