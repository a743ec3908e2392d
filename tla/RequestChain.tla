----------------------------- MODULE RequestChain -----------------------------
(***************************************************************************)
(* The way of a request through the middlewares main.go installs: the      *)
(* global limiter for every route; authentication, the endpoint limiter    *)
(* and the idempotency middleware for the routes of the protected group.   *)
(*                                                                         *)
(* A limiter is what TokenBuckets.tla specifies and RateLimiter.tla        *)
(* implements: one bucket per client, never forgotten.  The lookup, the    *)
(* execution and the save of the idempotency middleware, one step here,    *)
(* are taken apart in Idempotency.tla.                                     *)
(***************************************************************************)
EXTENDS Integers, Sequences, FiniteSets, Functions

CONSTANTS
  Requests,   \* requests served
  PathOf,     \* path of each request
  PeerOf,     \* r.RemoteAddr
  ForwardOf,  \* the X-Forwarded-For header, or None
  ApiKeyOf,   \* the X-API-Key header, or None
  KeyOf,      \* the Idempotency-Key header, or None
  Authentic,  \* requests with a valid token
  Limits,     \* [price, burst] of each limiter: ticks per token and tokens
  Horizon,    \* the clock stops here
  None        \* no header; nothing stored

Protected == {"/accounts", "/accounts/id", "/transfers"}
Public == {"/login", "/register", "/health"}
Patterns == {"/login", "/register", "/accounts/*"}
Limiters == Patterns \cup {"global", "default"}

Clients == Range(PeerOf) \cup Range(ForwardOf) \cup Range(ApiKeyOf)
Keys == Range(KeyOf) \ {None}

ASSUME ChainAssumption ==
  /\ IsFiniteSet(Requests)
  /\ PathOf \in [Requests -> Protected \cup Public]
  /\ {PeerOf, ForwardOf, ApiKeyOf} \subseteq [Requests -> Clients]
  /\ None \notin Range(PeerOf)
  /\ DOMAIN KeyOf = Requests
  /\ Authentic \subseteq Requests
  /\ Limits \in [Limiters -> [price : Nat \ {0}, burst : Nat \ {0}]]
  /\ Horizon \in Nat

VARIABLES
  now,     \* the clock
  level,   \* units in the bucket of each limiter and client
  stage,   \* how many middlewares each request has passed
  status,  \* its answer, or "none"
  at,      \* when it passed each of the two limiters it meets, 0 before
  stored   \* the answer under each idempotency key

vars == <<now, level, stage, status, at, stored>>

-----------------------------------------------------------------------------
(* Which middlewares, which limiter, which client. *)

\* Variant: the endpoint limiter is installed after the idempotency middleware.
Chain_LimitInsideKey(r) ==
  IF PathOf[r] \in Protected
  THEN <<"global", "authenticate", "idempotency", "endpoint">>
  ELSE <<"global">>

\* Variant: the endpoint limiter is installed before authentication.
Chain_LimitFirst(r) ==
  IF PathOf[r] \in Protected
  THEN <<"global", "endpoint", "authenticate", "idempotency">>
  ELSE <<"global">>

Chain(r) ==
  IF PathOf[r] \in Protected
  THEN <<"global", "authenticate", "endpoint", "idempotency">>
  ELSE <<"global">>

\* Variant: the slash before the star is not part of the prefix.
MatchPath_NoSlash(pattern, path) ==
  \/ pattern = path
  \/ pattern = "/accounts/*" /\ path \in {"/accounts", "/accounts/id"}

\* "/accounts/*" is a prefix ending in the slash: "/accounts" is not below it.
MatchPath(pattern, path) ==
  \/ pattern = path
  \/ pattern = "/accounts/*" /\ path = "/accounts/id"

\* The limiters the endpoint middleware may pick: a map is ranged over in any
\* order and the first match is taken.
Matching(path) ==
  LET matches == {p \in Patterns : MatchPath(p, path)}
  IN IF matches = {} THEN {"default"} ELSE matches

\* No handler and no middleware puts a "user_id" in the context.
GlobalClient(r) == IF ApiKeyOf[r] # None THEN ApiKeyOf[r] ELSE PeerOf[r]
EndpointClient(r) == IF ForwardOf[r] # None THEN ForwardOf[r] ELSE PeerOf[r]

Capacity(l) == Limits[l].burst * Limits[l].price

-----------------------------------------------------------------------------
(* Steps. *)

Init ==
  /\ now = 0
  /\ level = [l \in Limiters |-> [c \in Clients |-> Capacity(l)]]
  /\ stage = [r \in Requests |-> 0]
  /\ status = [r \in Requests |-> "none"]
  /\ at = [r \in Requests |-> [m \in {"global", "endpoint"} |-> 0]]
  /\ stored = [k \in Keys |-> "none"]

Reaches(r, middleware) ==
  /\ status[r] = "none"
  /\ stage[r] < Len(Chain(r))
  /\ Chain(r)[stage[r] + 1] = middleware

Passed(r) == {Chain(r)[i] : i \in 1 .. stage[r]}

Forward(r) ==
  /\ stage' = [stage EXCEPT ![r] = @ + 1]
  /\ UNCHANGED <<now, status, stored>>

\* An answer goes up the chain: the idempotency middleware keeps it under the
\* request's key unless it is a server error or another one is there.
Answer(r, code) ==
  /\ status' = [status EXCEPT ![r] = code]
  /\ stored' =
       IF /\ "idempotency" \in Passed(r)
          /\ KeyOf[r] # None
          /\ code # "500"
          /\ stored[KeyOf[r]] = "none"
       THEN [stored EXCEPT ![KeyOf[r]] = code]
       ELSE stored
  /\ UNCHANGED <<now, stage, at>>

\* Allow() on the bucket of client c of limiter l, by the middleware m.
Spend(r, m, l, c) ==
  \/ /\ level[l][c] >= Limits[l].price
     /\ level' = [level EXCEPT ![l][c] = @ - Limits[l].price]
     /\ at' = [at EXCEPT ![r][m] = now]
     /\ Forward(r)
  \/ /\ level[l][c] < Limits[l].price
     /\ Answer(r, "429")
     /\ UNCHANGED level

GlobalLimit(r) ==
  /\ Reaches(r, "global")
  /\ Spend(r, "global", "global", GlobalClient(r))

EndpointLimit(r) ==
  /\ Reaches(r, "endpoint")
  /\ \E l \in Matching(PathOf[r]) : Spend(r, "endpoint", l, EndpointClient(r))

Authenticate(r) ==
  /\ Reaches(r, "authenticate")
  /\ IF r \in Authentic THEN Forward(r) ELSE Answer(r, "401")
  /\ UNCHANGED <<level, at>>

LookUp(r) ==
  /\ Reaches(r, "idempotency")
  /\ IF KeyOf[r] # None /\ stored[KeyOf[r]] # "none"
     THEN Answer(r, stored[KeyOf[r]])
     ELSE Forward(r)
  /\ UNCHANGED <<level, at>>

\* The handler of the route: "200" stands for whatever it decides, "500" for a
\* failure of the server.
Handler(r) ==
  /\ status[r] = "none"
  /\ stage[r] = Len(Chain(r))
  /\ \E code \in {"200", "500"} : Answer(r, code)
  /\ UNCHANGED level

\* Variant: a bucket is not full with a burst.
Refill_Uncapped(l, units) == units + 1

Refill(l, units) == IF units < Capacity(l) THEN units + 1 ELSE units
Tick ==
  /\ now < Horizon
  /\ now' = now + 1
  /\ level' = [l \in Limiters |-> [c \in Clients |-> Refill(l, level[l][c])]]
  /\ UNCHANGED <<stage, status, at, stored>>

Next ==
  \/ \E r \in Requests :
       \/ GlobalLimit(r) \/ Authenticate(r) \/ EndpointLimit(r)
       \/ LookUp(r) \/ Handler(r)
  \/ Tick

Spec == Init /\ [][Next]_vars

-----------------------------------------------------------------------------
(* Properties. *)

\* Requests that were neither refused by a limiter nor stopped before one.
Served == {r \in Requests : status[r] \in {"200", "500"}}

\* A group of requests stays within limit l if in every interval of time, long
\* or short, at the start or later, no more of them pass the middleware m than
\* a burst and what the rate adds in the interval.
Within(R, m, from, to) == {r \in R : at[r][m] \in from .. to}
Respects(R, m, l) ==
  \A to \in 0 .. now : \A from \in 0 .. to :
    Cardinality(Within(R, m, from, to)) * Limits[l].price <= Capacity(l) + (to - from)

\* The documented limits of main.go hold where the endpoint middleware is
\* installed: per endpoint and client for the routes of the protected group,
\* whatever other routes, API keys and peers the client uses.
EndpointLimitsHold ==
  \A c \in Clients :
    /\ Respects({r \in Served : PathOf[r] = "/accounts/id" /\ EndpointClient(r) = c},
                "endpoint", "/accounts/*")
    /\ Respects({r \in Served : PathOf[r] \in {"/accounts", "/transfers"} /\ EndpointClient(r) = c},
                "endpoint", "default")

\* The global limit holds over all routes together, the answers from an
\* idempotency key and the refusals further down included.
GlobalLimitHolds ==
  \A c \in Clients :
    Respects({r \in Requests : stage[r] > 0 /\ GlobalClient(r) = c}, "global", "global")

\* A refusal is for now: neither "too many requests" nor "unauthorized" is
\* kept under the key of the request, where every retry would find it.
RefusalsNotStored == \A k \in Keys : stored[k] \notin {"401", "429"}

\* A request without a valid token takes nothing from an endpoint
\* bucket: what is missing there, requests that had passed authentication took.
OnlyAuthenticSpend ==
  \A l \in Limiters \ {"global"} : \A c \in Clients :
    LET known == {r \in Authentic : EndpointClient(r) = c /\ "authenticate" \in Passed(r)}
    IN level[l][c] + Limits[l].price * Cardinality(known) >= Capacity(l)

\* What the comment beside the configuration says of /login: "5 req/sec for
\* login".  The limiter is configured, and installed only on other routes.
LoginLimitHolds ==
  \A c \in Clients :
    Respects({r \in Served : PathOf[r] = "/login" /\ EndpointClient(r) = c}, "global", "/login")
=============================================================================
