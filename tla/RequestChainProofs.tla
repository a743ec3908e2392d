-------------------------- MODULE RequestChainProofs --------------------------
(***************************************************************************)
(* The limits hold through the whole chain of middlewares, for any         *)
(* requests, clients, rates and bursts.                                    *)
(*                                                                         *)
(* Each bucket has an account (Account): from any moment on, a burst and    *)
(* what the rate has added since cover what is left and what the requests  *)
(* that passed it since then took, and nothing else took from it.  How far *)
(* a request has come (Way) says which buckets it took from.               *)
(***************************************************************************)
EXTENDS RequestChain, FiniteSetTheorems, TLAPS

Types ==
  /\ now \in Nat
  /\ level \in [Limiters -> [Clients -> Nat]]
  /\ stage \in [Requests -> 0 .. 4]
  /\ status \in [Requests -> {"none", "200", "401", "429", "500"}]
  /\ at \in [Requests -> [{"global", "endpoint"} -> Nat]]
  /\ stored \in [Keys -> {"none", "200"}]

\* How far a request can have come, and what it passed on the way.
Way(r) ==
  /\ at[r]["global"] <= now /\ at[r]["endpoint"] <= now
  /\ PathOf[r] \notin Protected => stage[r] <= 1
  /\ PathOf[r] \in Protected /\ stage[r] >= 2 => r \in Authentic
  /\ PathOf[r] \in Protected /\ status[r] \in {"200", "500"} => stage[r] >= 3

\* The requests that took a token of client c from limiter l.
Takers(l, c) ==
  IF l = "global"
  THEN {r \in Requests : GlobalClient(r) = c /\ stage[r] >= 1}
  ELSE {r \in Requests : /\ PathOf[r] \in Protected /\ EndpointClient(r) = c
                         /\ l \in Matching(PathOf[r]) /\ stage[r] >= 3}
Taken(l, c) == Cardinality(Takers(l, c)) * Limits[l].price

\* Those of them that passed in an interval, and what they took.
Meets(l) == IF l = "global" THEN "global" ELSE "endpoint"
Through(l, c, from, to) == Within(Takers(l, c), Meets(l), from, to)
Spent(l, c, from, to) == Cardinality(Through(l, c, from, to)) * Limits[l].price

Account(l, c) ==
  /\ level[l][c] <= Capacity(l)
  /\ Taken(l, c) + level[l][c] >= Capacity(l)
  /\ \A from \in 0 .. now : Spent(l, c, from, now) + level[l][c] <= Capacity(l) + (now - from)
  /\ \A to \in 0 .. now : \A from \in 0 .. to : Spent(l, c, from, to) <= Capacity(l) + (to - from)

CInv ==
  /\ Types
  /\ \A r \in Requests : Way(r)
  /\ \A l \in Limiters : \A c \in Clients : Account(l, c)

-----------------------------------------------------------------------------
(* Chains, limiters, clients. *)

LEMMA ClientTypes ==
  ASSUME NEW r \in Requests
  PROVE  /\ GlobalClient(r) \in Clients /\ EndpointClient(r) \in Clients
         /\ PathOf[r] \in Protected \cup Public
<1>1. PeerOf[r] \in Clients /\ ForwardOf[r] \in Clients /\ ApiKeyOf[r] \in Clients
  BY ChainAssumption
<1>2. PathOf[r] \in Protected \cup Public
  BY ChainAssumption
<1> QED
  BY <1>1, <1>2 DEF GlobalClient, EndpointClient

LEMMA LimitTypes ==
  ASSUME NEW l \in Limiters
  PROVE  Limits[l].price \in Nat /\ Limits[l].price > 0 /\ Capacity(l) \in Nat
<1>1. Limits[l].price \in Nat /\ Limits[l].price > 0 /\ Limits[l].burst \in Nat
  BY ChainAssumption
<1>2. \A m, n \in Nat : m * n \in Nat
  OBVIOUS
<1> QED
  BY <1>1, <1>2 DEF Capacity

\* A protected route matches one limiter.
LEMMA MatchingIs ==
  /\ Matching("/accounts/id") = {"/accounts/*"}
  /\ Matching("/accounts") = {"default"} /\ Matching("/transfers") = {"default"}
  /\ \A path \in Protected : \A l \in Matching(path) :
       l \in Limiters \ {"global"} /\ Matching(path) = {l}
<1>1. \A p \in Patterns : MatchPath(p, "/accounts/id") <=> p = "/accounts/*"
  BY DEF MatchPath, Patterns
<1>2. \A p \in Patterns : ~MatchPath(p, "/accounts") /\ ~MatchPath(p, "/transfers")
  BY DEF MatchPath, Patterns
<1>3. Matching("/accounts/id") = {"/accounts/*"}
  <2>1. {p \in Patterns : MatchPath(p, "/accounts/id")} = {"/accounts/*"}
    BY <1>1 DEF Patterns
  <2> QED
    BY <2>1 DEF Matching
<1>4. Matching("/accounts") = {"default"} /\ Matching("/transfers") = {"default"}
  <2>1. /\ {p \in Patterns : MatchPath(p, "/accounts")} = {}
        /\ {p \in Patterns : MatchPath(p, "/transfers")} = {}
    BY <1>2
  <2> QED
    BY <2>1 DEF Matching
<1> QED
  BY <1>3, <1>4 DEF Protected, Limiters, Patterns

\* Where a middleware stands in the chain.
LEMMA ReachesWhere ==
  ASSUME CInv, NEW r \in Requests
  PROVE  /\ stage[r] \in 0 .. 4
         /\ Reaches(r, "global") => status[r] = "none" /\ stage[r] = 0
         /\ Reaches(r, "authenticate") => status[r] = "none" /\ PathOf[r] \in Protected /\ stage[r] = 1
         /\ Reaches(r, "endpoint") => status[r] = "none" /\ PathOf[r] \in Protected /\ stage[r] = 2
         /\ Reaches(r, "idempotency") => status[r] = "none" /\ PathOf[r] \in Protected /\ stage[r] = 3
         /\ stage[r] < 4 => "idempotency" \notin Passed(r)
         /\ PathOf[r] \in Protected /\ stage[r] >= 2 => "authenticate" \in Passed(r)
         /\ stage[r] = Len(Chain(r)) /\ PathOf[r] \in Protected => stage[r] = 4
         /\ stage[r] = Len(Chain(r)) /\ PathOf[r] \notin Protected => stage[r] = 1
<1>1. stage[r] \in 0 .. 4 /\ Way(r)
  BY DEF CInv, Types
<1>2. CASE PathOf[r] \in Protected
  <2>1. /\ Len(Chain(r)) = 4 /\ Chain(r)[1] = "global" /\ Chain(r)[2] = "authenticate"
        /\ Chain(r)[3] = "endpoint" /\ Chain(r)[4] = "idempotency"
    BY <1>2 DEF Chain
  <2>2. /\ Reaches(r, "global") => status[r] = "none" /\ stage[r] = 0
        /\ Reaches(r, "authenticate") => status[r] = "none" /\ stage[r] = 1
        /\ Reaches(r, "endpoint") => status[r] = "none" /\ stage[r] = 2
        /\ Reaches(r, "idempotency") => status[r] = "none" /\ stage[r] = 3
    <3>1. stage[r] \in {0, 1, 2, 3, 4}
      BY <1>1
    <3> QED
      BY <2>1, <3>1 DEF Reaches
  <2>3. stage[r] < 4 => "idempotency" \notin Passed(r)
    <3>1. ASSUME stage[r] < 4, NEW i \in 1 .. stage[r] PROVE Chain(r)[i] # "idempotency"
      <4>1. i \in {1, 2, 3}
        BY <1>1, <3>1
      <4> QED
        BY <2>1, <4>1
    <3> QED
      BY <3>1 DEF Passed
  <2>4. stage[r] >= 2 => "authenticate" \in Passed(r)
    <3>1. stage[r] >= 2 => 2 \in 1 .. stage[r]
      BY <1>1
    <3> QED
      BY <2>1, <3>1 DEF Passed
  <2> QED
    BY <1>1, <1>2, <2>1, <2>2, <2>3, <2>4
<1>3. CASE PathOf[r] \notin Protected
  <2>1. Len(Chain(r)) = 1 /\ Chain(r)[1] = "global" /\ stage[r] \in {0, 1}
    BY <1>1, <1>3 DEF Chain, Way
  <2>2. \A i \in 1 .. stage[r] : i = 1
    BY <2>1
  <2>3. "idempotency" \notin Passed(r)
    BY <2>1, <2>2 DEF Passed
  <2>4. \A m : Reaches(r, m) => status[r] = "none" /\ stage[r] = 0 /\ m = "global"
    BY <2>1 DEF Reaches
  <2> QED
    BY <1>1, <1>3, <2>1, <2>3, <2>4
<1> QED
  BY <1>2, <1>3

LEMMA TakersFinite ==
  ASSUME NEW l \in Limiters, NEW c
  PROVE  /\ Takers(l, c) \in SUBSET Requests /\ IsFiniteSet(Takers(l, c))
         /\ Cardinality(Takers(l, c)) \in Nat /\ Taken(l, c) \in Nat
<1>1. Takers(l, c) \in SUBSET Requests
  BY DEF Takers
<1>2. IsFiniteSet(Takers(l, c))
  BY <1>1, ChainAssumption, FS_Subset
<1>3. Cardinality(Takers(l, c)) \in Nat
  BY <1>2, FS_CardinalityType
<1>4. \A m, n \in Nat : m * n \in Nat
  OBVIOUS
<1> QED
  BY <1>1, <1>2, <1>3, <1>4, LimitTypes DEF Taken

LEMMA ThroughFinite ==
  ASSUME NEW l \in Limiters, NEW c, NEW from, NEW to
  PROVE  /\ Through(l, c, from, to) \in SUBSET Takers(l, c) /\ IsFiniteSet(Through(l, c, from, to))
         /\ Cardinality(Through(l, c, from, to)) \in Nat /\ Spent(l, c, from, to) \in Nat
<1>1. Through(l, c, from, to) \in SUBSET Takers(l, c)
  BY DEF Through, Within
<1>2. IsFiniteSet(Through(l, c, from, to))
  BY <1>1, TakersFinite, FS_Subset
<1>3. Cardinality(Through(l, c, from, to)) \in Nat
  BY <1>2, FS_CardinalityType
<1>4. \A m, n \in Nat : m * n \in Nat
  OBVIOUS
<1> QED
  BY <1>1, <1>2, <1>3, <1>4, LimitTypes DEF Spent

\* The account of a bucket nobody takes from, or adds to.
LEMMA AccountKept ==
  ASSUME CInv, NEW l \in Limiters, NEW c \in Clients, level'[l][c] = level[l][c], now' = now,
         Takers(l, c)' = Takers(l, c),
         \A x \in Takers(l, c) : at'[x][Meets(l)] = at[x][Meets(l)]
  PROVE  Account(l, c)'
<1>1. Account(l, c) /\ Taken(l, c)' = Taken(l, c) /\ Capacity(l)' = Capacity(l)
  BY DEF CInv, Taken, Capacity
<1>2. \A from, to : Spent(l, c, from, to)' = Spent(l, c, from, to)
  <2> SUFFICES ASSUME NEW from, NEW to PROVE Through(l, c, from, to)' = Through(l, c, from, to)
    BY DEF Spent
  <2> QED
    BY DEF Through, Within, Meets
<1> QED
  BY <1>1, <1>2 DEF Account

-----------------------------------------------------------------------------
(* Steps. *)

\* A step of request r that answers it.
LEMMA AnswerStep ==
  ASSUME CInv, NEW r \in Requests, status[r] = "none", UNCHANGED level,
         NEW code \in {"200", "401", "429", "500"}, Answer(r, code),
         "idempotency" \in Passed(r) => code \in {"200", "500"},
         PathOf[r] \in Protected /\ code \in {"200", "500"} => stage[r] >= 3
  PROVE  CInv'
<1>1. /\ status' = [status EXCEPT ![r] = code] /\ UNCHANGED <<now, stage, level, at>>
      /\ Types
  BY DEF Answer, CInv
<1>2. stored' \in [Keys -> {"none", "200"}]
  <2>1. CASE /\ "idempotency" \in Passed(r) /\ KeyOf[r] # None
             /\ code # "500" /\ stored[KeyOf[r]] = "none"
    <3>1. stored' = [stored EXCEPT ![KeyOf[r]] = code] /\ code = "200"
      BY <2>1 DEF Answer
    <3> QED
      BY <1>1, <3>1 DEF Types
  <2>2. CASE ~(/\ "idempotency" \in Passed(r) /\ KeyOf[r] # None
               /\ code # "500" /\ stored[KeyOf[r]] = "none")
    <3>1. stored' = stored
      BY <2>2 DEF Answer
    <3> QED
      BY <1>1, <3>1 DEF Types
  <2> QED
    BY <2>1, <2>2
<1>3. Types'
  BY <1>1, <1>2 DEF Types
<1>4. ASSUME NEW x \in Requests PROVE Way(x)'
  <2>1. Way(x)
    BY DEF CInv
  <2>2. CASE x = r
    BY <1>1, <2>1, <2>2 DEF Way, Types
  <2>3. CASE x # r
    BY <1>1, <2>1, <2>3 DEF Way, Types
  <2> QED
    BY <2>2, <2>3
<1>5. ASSUME NEW l \in Limiters, NEW c \in Clients PROVE Account(l, c)'
  <2>1. Takers(l, c)' = Takers(l, c)
    BY <1>1 DEF Takers
  <2> QED
    BY <1>1, <2>1, AccountKept
<1> QED
  BY <1>3, <1>4, <1>5 DEF CInv

\* A request passes a middleware.
LEMMA ForwardShape ==
  ASSUME CInv, NEW r \in Requests, status[r] = "none", stage[r] < 4, Forward(r),
         PathOf[r] \notin Protected => stage[r] = 0,
         PathOf[r] \in Protected /\ stage[r] >= 1 => r \in Authentic,
         at' = at \/ \E m \in {"global", "endpoint"} : at' = [at EXCEPT ![r][m] = now]
  PROVE  /\ stage' = [stage EXCEPT ![r] = stage[r] + 1] /\ stage' \in [Requests -> 0 .. 4]
         /\ at' \in [Requests -> [{"global", "endpoint"} -> Nat]]
         /\ UNCHANGED <<now, status, stored>> /\ \A x \in Requests : Way(x)'
<1>1. /\ stage' = [stage EXCEPT ![r] = stage[r] + 1] /\ UNCHANGED <<now, status, stored>>
      /\ Types /\ stage[r] \in 0 .. 4
  BY DEF Forward, CInv, Types
<1>2. stage' \in [Requests -> 0 .. 4]
  <2>1. stage[r] + 1 \in 0 .. 4
    BY <1>1
  <2> QED
    BY <1>1, <2>1 DEF Types
<1>3. /\ at' \in [Requests -> [{"global", "endpoint"} -> Nat]]
      /\ \A x \in Requests : at'[x]["global"] <= now /\ at'[x]["endpoint"] <= now
  <2>1. at \in [Requests -> [{"global", "endpoint"} -> Nat]] /\ now \in Nat
    BY <1>1 DEF Types
  <2>2. \A x \in Requests : at[x]["global"] <= now /\ at[x]["endpoint"] <= now
    BY DEF CInv, Way
  <2>3. CASE at' = at
    BY <2>1, <2>2, <2>3
  <2>4. ASSUME NEW m \in {"global", "endpoint"}, at' = [at EXCEPT ![r][m] = now]
        PROVE  /\ at' \in [Requests -> [{"global", "endpoint"} -> Nat]]
               /\ \A x \in Requests : at'[x]["global"] <= now /\ at'[x]["endpoint"] <= now
    <3>1. at' \in [Requests -> [{"global", "endpoint"} -> Nat]]
      BY <2>1, <2>4
    <3>2. \A x \in Requests : \A k \in {"global", "endpoint"} :
            at'[x][k] = IF x = r /\ k = m THEN now ELSE at[x][k]
      BY <2>1, <2>4
    <3> QED
      BY <2>1, <2>2, <3>1, <3>2
  <2> QED
    BY <2>3, <2>4
<1>4. ASSUME NEW x \in Requests PROVE Way(x)'
  <2>1. Way(x)
    BY DEF CInv
  <2>2. CASE x = r
    <3>1. stage'[x] = stage[x] + 1 /\ stage[x] \in 0 .. 4
      BY <1>1, <2>2 DEF Types
    <3> QED
      BY <1>1, <1>3, <2>1, <2>2, <3>1 DEF Way
  <2>3. CASE x # r
    BY <1>1, <1>3, <2>1, <2>3 DEF Way, Types
  <2> QED
    BY <2>2, <2>3
<1> QED
  BY <1>1, <1>2, <1>3, <1>4

\* A request passes authentication, or finds nothing under its key.
LEMMA PassFree ==
  ASSUME CInv, NEW r \in Requests, status[r] = "none", Forward(r), UNCHANGED <<level, at>>,
         PathOf[r] \in Protected, r \in Authentic, stage[r] \in {1, 3}
  PROVE  CInv'
<1>1. /\ stage' = [stage EXCEPT ![r] = stage[r] + 1] /\ stage' \in [Requests -> 0 .. 4]
      /\ UNCHANGED <<now, status, stored>> /\ \A x \in Requests : Way(x)'
  BY ForwardShape
<1>2. Types' /\ Types
  BY <1>1 DEF CInv, Types
<1>3. \A x \in Requests : (stage'[x] >= 1 <=> stage[x] >= 1) /\ (stage'[x] >= 3 <=> stage[x] >= 3)
  BY <1>1, <1>2 DEF Types
<1>4. ASSUME NEW l \in Limiters, NEW c \in Clients PROVE Account(l, c)'
  <2>1. Takers(l, c)' = Takers(l, c)
    BY <1>3 DEF Takers
  <2> QED
    BY <1>1, <2>1, AccountKept
<1> QED
  BY <1>1, <1>2, <1>4 DEF CInv

\* A step in which request r takes from the bucket of client c of limiter l,
\* and nobody from another one.
TakesFrom(r, l, c) ==
  /\ r \notin Takers(l, c) /\ Takers(l, c)' = Takers(l, c) \cup {r}
  /\ level' = [level EXCEPT ![l][c] = @ - Limits[l].price]
  /\ at' = [at EXCEPT ![r][Meets(l)] = now]
  /\ \A k \in Limiters : \A d \in Clients : <<k, d>> # <<l, c>> =>
       Takers(k, d)' = Takers(k, d) /\ (r \in Takers(k, d) => Meets(k) # Meets(l))

\* A request pays: the account of that bucket, and only of that one, has a
\* taker more and a token less.
LEMMA PassPaying ==
  ASSUME CInv, NEW r \in Requests, status[r] = "none", Forward(r), stage[r] < 4,
         PathOf[r] \notin Protected => stage[r] = 0,
         PathOf[r] \in Protected /\ stage[r] >= 1 => r \in Authentic,
         NEW l \in Limiters, NEW c \in Clients, level[l][c] >= Limits[l].price,
         TakesFrom(r, l, c)
  PROVE  CInv'
<1>0. /\ r \notin Takers(l, c) /\ Takers(l, c)' = Takers(l, c) \cup {r}
      /\ level' = [level EXCEPT ![l][c] = @ - Limits[l].price]
      /\ at' = [at EXCEPT ![r][Meets(l)] = now]
      /\ \A k \in Limiters : \A d \in Clients : <<k, d>> # <<l, c>> =>
           Takers(k, d)' = Takers(k, d) /\ (r \in Takers(k, d) => Meets(k) # Meets(l))
  BY DEF TakesFrom
<1>1. /\ stage' \in [Requests -> 0 .. 4] /\ at' \in [Requests -> [{"global", "endpoint"} -> Nat]]
      /\ UNCHANGED <<now, status, stored>> /\ \A x \in Requests : Way(x)'
  BY <1>0, ForwardShape DEF Meets
<1>2. Types /\ level[l][c] \in Nat /\ Limits[l].price \in Nat /\ Capacity(l) \in Nat /\ now \in Nat
  BY LimitTypes DEF CInv, Types
<1>3. /\ level'[l][c] = level[l][c] - Limits[l].price
      /\ \A k \in Limiters : \A d \in Clients : <<k, d>> # <<l, c>> => level'[k][d] = level[k][d]
  BY <1>0, <1>2 DEF Types
<1>4. level' \in [Limiters -> [Clients -> Nat]]
  <2>1. level[l][c] - Limits[l].price \in Nat
    BY <1>2
  <2> QED
    BY <1>0, <1>2, <2>1 DEF Types
<1>5. Types'
  BY <1>1, <1>2, <1>4 DEF Types
<1>6. /\ at'[r][Meets(l)] = now /\ Meets(l) \in {"global", "endpoint"}
      /\ \A x \in Requests : \A m \in {"global", "endpoint"} :
           x # r \/ m # Meets(l) => at'[x][m] = at[x][m]
  BY <1>0, <1>2 DEF Types, Meets
<1>7. r \notin Takers(l, c) /\ Takers(l, c) \in SUBSET Requests
  BY <1>0, TakersFinite
<1>8. PICK n \in Nat, p \in Nat, v \in Nat, cap \in Nat :
        n = Cardinality(Takers(l, c)) /\ p = Limits[l].price /\ v = level[l][c] /\ cap = Capacity(l)
  BY <1>2, TakersFinite
<1>9. Account(l, c) /\ Capacity(l)' = cap /\ level'[l][c] = v - p /\ v >= p /\ v - p \in Nat
  BY <1>2, <1>3, <1>8 DEF CInv, Capacity
<1>10. Taken(l, c)' + level'[l][c] >= Capacity(l)'
  <2>1. Cardinality(Takers(l, c)') = n + 1
    BY <1>0, <1>7, <1>8, TakersFinite, FS_AddElement
  <2>2. Taken(l, c)' = (n + 1) * p
    BY <1>8, <2>1 DEF Taken
  <2>3. (n + 1) * p = n * p + p /\ n * p \in Nat
    <3>1. \A i, j \in Nat : (i + 1) * j = i * j + j /\ i * j \in Nat
      OBVIOUS
    <3> QED
      BY <3>1
  <2>4. n * p + v >= cap
    BY <1>8, <1>9 DEF Account, Taken
  <2>5. (n + 1) * p + (v - p) >= cap
    BY <1>8, <2>3, <2>4
  <2> QED
    BY <1>9, <2>2, <2>5
<1>11. ASSUME NEW from \in 0 .. now
       PROVE  /\ Spent(l, c, from, now)' \in Nat
              /\ Spent(l, c, from, now)' + level'[l][c] <= Capacity(l)' + (now - from)
  <2>1. Through(l, c, from, now)' = Through(l, c, from, now) \cup {r} /\ r \notin Through(l, c, from, now)
    <3>1. now \in from .. now
      BY <1>2
    <3>2. \A x \in Takers(l, c) : at'[x][Meets(l)] = at[x][Meets(l)]
      BY <1>6, <1>7
    <3>3. Through(l, c, from, now)' = {x \in Takers(l, c) \cup {r} : at'[x][Meets(l)] \in from .. now}
      BY <1>0, <1>1 DEF Through, Within, Meets
    <3>4. Through(l, c, from, now) = {x \in Takers(l, c) : at[x][Meets(l)] \in from .. now}
      BY DEF Through, Within
    <3> QED
      BY <1>6, <1>7, <3>1, <3>2, <3>3, <3>4
  <2>2. PICK k \in Nat : k = Cardinality(Through(l, c, from, now))
    BY ThroughFinite
  <2>3. Cardinality(Through(l, c, from, now)') = k + 1
    BY <2>1, <2>2, ThroughFinite, FS_AddElement
  <2>4. Spent(l, c, from, now)' = (k + 1) * p
    BY <1>8, <2>3 DEF Spent
  <2>5. (k + 1) * p = k * p + p /\ k * p \in Nat
    BY <1>8, <2>2
  <2>6. k * p + v <= cap + (now - from)
    BY <1>8, <1>9, <2>2 DEF Account, Spent
  <2>7. (k + 1) * p + (v - p) <= cap + (now - from)
    BY <1>2, <1>8, <2>5, <2>6
  <2> QED
    BY <1>8, <1>9, <2>2, <2>4, <2>5, <2>7
<1>12. ASSUME NEW to \in 0 .. now, NEW from \in 0 .. to
       PROVE  Spent(l, c, from, to)' <= Capacity(l)' + (to - from)
  <2>1. CASE to = now
    <3>1. PICK t \in Nat : t = Spent(l, c, from, now)'
      BY <1>11, <2>1
    <3>2. t + (v - p) <= cap + (to - from)
      BY <1>2, <1>9, <1>11, <2>1, <3>1
    <3>3. t <= cap + (to - from)
      BY <1>2, <1>8, <1>9, <3>1, <3>2
    <3> QED
      BY <1>1, <1>9, <2>1, <3>1, <3>3
  <2>2. CASE to # now
    <3>1. now \notin from .. to
      BY <1>2, <2>2
    <3>2. \A x \in Takers(l, c) : at'[x][Meets(l)] = at[x][Meets(l)]
      BY <1>6, <1>7
    <3>3. Through(l, c, from, to)' = {x \in Takers(l, c) \cup {r} : at'[x][Meets(l)] \in from .. to}
      BY <1>0 DEF Through, Within, Meets
    <3>4. Through(l, c, from, to)' = Through(l, c, from, to)
      BY <1>6, <3>1, <3>2, <3>3 DEF Through, Within
    <3>5. Spent(l, c, from, to)' = Spent(l, c, from, to)
      BY <3>4 DEF Spent
    <3> QED
      BY <1>8, <1>9, <3>5 DEF Account
  <2> QED
    BY <2>1, <2>2
<1>13. Account(l, c)'
  <2>1. level'[l][c] <= Capacity(l)'
    BY <1>8, <1>9 DEF Account
  <2> QED
    BY <1>1, <1>10, <1>11, <1>12, <2>1 DEF Account
<1>14. ASSUME NEW k \in Limiters, NEW d \in Clients PROVE Account(k, d)'
  <2>1. CASE k = l /\ d = c
    BY <1>13, <2>1
  <2>2. CASE ~(k = l /\ d = c)
    <3>1. Takers(k, d)' = Takers(k, d) /\ level'[k][d] = level[k][d]
      BY <1>0, <1>3, <2>2
    <3>2. \A x \in Takers(k, d) : at'[x][Meets(k)] = at[x][Meets(k)]
      BY <1>0, <1>6, <2>2, TakersFinite DEF Meets
    <3> QED
      BY <1>1, <3>1, <3>2, AccountKept
  <2> QED
    BY <2>1, <2>2
<1> QED
  BY <1>1, <1>5, <1>14 DEF CInv

LEMMA GlobalStep ==
  ASSUME CInv, NEW r \in Requests, GlobalLimit(r)
  PROVE  CInv'
<1> DEFINE c == GlobalClient(r)
<1>1. Reaches(r, "global") /\ Spend(r, "global", "global", c)
  BY DEF GlobalLimit
<1>2. status[r] = "none" /\ stage[r] = 0 /\ "idempotency" \notin Passed(r)
  BY <1>1, ReachesWhere
<1>3. c \in Clients /\ "global" \in Limiters /\ Types
  BY ClientTypes DEF Limiters, CInv
<1>4. CASE Answer(r, "429") /\ UNCHANGED level
  BY <1>2, <1>4, AnswerStep
<1>5. CASE /\ level["global"][c] >= Limits["global"].price /\ Forward(r)
           /\ level' = [level EXCEPT !["global"][c] = @ - Limits["global"].price]
           /\ at' = [at EXCEPT ![r]["global"] = now]
  <2>1. stage' = [stage EXCEPT ![r] = 1]
    BY <1>2, <1>5 DEF Forward
  <2>2. r \notin Takers("global", c) /\ Takers("global", c)' = Takers("global", c) \cup {r}
    BY <1>2, <1>3, <2>1 DEF Takers, Types
  <2>3. ASSUME NEW k \in Limiters, NEW d \in Clients, <<k, d>> # <<"global", c>>
        PROVE  Takers(k, d)' = Takers(k, d) /\ r \notin Takers(k, d)
    <3>1. \A x \in Requests : stage'[x] >= 3 <=> stage[x] >= 3
      BY <1>2, <1>3, <2>1 DEF Types
    <3>2. \A x \in Requests : x # r => stage'[x] = stage[x]
      BY <1>3, <2>1 DEF Types
    <3> QED
      <4>1. CASE k = "global"
        <5>1. GlobalClient(r) # d
          BY <2>3, <4>1
        <5> QED
          BY <3>2, <4>1, <5>1 DEF Takers
      <4>2. CASE k # "global"
        BY <1>2, <3>1, <4>2 DEF Takers
      <4> QED
        BY <4>1, <4>2
  <2>4. stage[r] < 4 /\ (PathOf[r] \in Protected /\ stage[r] >= 1 => r \in Authentic) /\ Meets("global") = "global"
    BY <1>2 DEF Meets
  <2>5. at' = [at EXCEPT ![r][Meets("global")] = now]
    BY <1>5, <2>4
  <2>6. \A k \in Limiters : \A d \in Clients : <<k, d>> # <<"global", c>> =>
          Takers(k, d)' = Takers(k, d) /\ (r \in Takers(k, d) => Meets(k) # Meets("global"))
    BY <2>3
  <2>7. TakesFrom(r, "global", c)
    BY <1>5, <2>2, <2>5, <2>6 DEF TakesFrom
  <2>8. level["global"][c] >= Limits["global"].price /\ Forward(r)
    BY <1>5
  <2> HIDE DEF c
  <2> QED
    BY <1>2, <1>3, <2>4, <2>7, <2>8, PassPaying
<1> QED
  BY <1>1, <1>4, <1>5 DEF Spend

LEMMA EndpointStep ==
  ASSUME CInv, NEW r \in Requests, EndpointLimit(r)
  PROVE  CInv'
<1> DEFINE c == EndpointClient(r)
<1>1. PICK l \in Matching(PathOf[r]) : Reaches(r, "endpoint") /\ Spend(r, "endpoint", l, c)
  BY DEF EndpointLimit
<1>2. status[r] = "none" /\ PathOf[r] \in Protected /\ stage[r] = 2 /\ "idempotency" \notin Passed(r)
  BY <1>1, ReachesWhere
<1>3. c \in Clients /\ l \in Limiters \ {"global"} /\ Matching(PathOf[r]) = {l} /\ Types /\ r \in Authentic
  BY <1>1, <1>2, ClientTypes, MatchingIs DEF CInv, Way
<1>4. CASE Answer(r, "429") /\ UNCHANGED level
  BY <1>2, <1>4, AnswerStep
<1>5. CASE /\ level[l][c] >= Limits[l].price /\ Forward(r)
           /\ level' = [level EXCEPT ![l][c] = @ - Limits[l].price]
           /\ at' = [at EXCEPT ![r]["endpoint"] = now]
  <2>1. stage' = [stage EXCEPT ![r] = 3]
    BY <1>2, <1>5 DEF Forward
  <2>2. \A x \in Requests : x # r => stage'[x] = stage[x]
    BY <1>3, <2>1 DEF Types
  <2>3. stage'[r] = 3
    BY <1>3, <2>1 DEF Types
  <2>4. r \notin Takers(l, c) /\ Takers(l, c)' = Takers(l, c) \cup {r}
    BY <1>2, <1>3, <2>2, <2>3 DEF Takers
  <2>5. ASSUME NEW k \in Limiters, NEW d \in Clients, <<k, d>> # <<l, c>>
        PROVE  Takers(k, d)' = Takers(k, d) /\ (r \in Takers(k, d) => Meets(k) # Meets(l))
    <3>1. CASE k = "global"
      BY <1>2, <1>3, <2>2, <2>3, <3>1 DEF Takers, Meets
    <3>2. CASE k # "global"
      <4>1. ~(EndpointClient(r) = d /\ k \in Matching(PathOf[r]))
        BY <1>3, <2>5
      <4> QED
        BY <1>2, <2>2, <3>2, <4>1 DEF Takers
    <3> QED
      BY <3>1, <3>2
  <2>6. stage[r] < 4 /\ l \in Limiters /\ Meets(l) = "endpoint"
    BY <1>2, <1>3 DEF Meets
  <2>7. at' = [at EXCEPT ![r][Meets(l)] = now]
    BY <1>5, <2>6
  <2>8. \A k \in Limiters : \A d \in Clients : <<k, d>> # <<l, c>> =>
          Takers(k, d)' = Takers(k, d) /\ (r \in Takers(k, d) => Meets(k) # Meets(l))
    BY <2>5
  <2>9. TakesFrom(r, l, c)
    BY <1>5, <2>4, <2>7, <2>8 DEF TakesFrom
  <2>10. level[l][c] >= Limits[l].price /\ Forward(r)
    BY <1>5
  <2> HIDE DEF c
  <2> QED
    BY <1>2, <1>3, <2>6, <2>9, <2>10, PassPaying
<1> QED
  BY <1>1, <1>4, <1>5 DEF Spend

LEMMA AuthenticateStep ==
  ASSUME CInv, NEW r \in Requests, Authenticate(r)
  PROVE  CInv'
<1>1. Reaches(r, "authenticate") /\ UNCHANGED level /\ UNCHANGED at
  BY DEF Authenticate
<1>2. status[r] = "none" /\ PathOf[r] \in Protected /\ stage[r] = 1 /\ "idempotency" \notin Passed(r)
  BY <1>1, ReachesWhere
<1>3. CASE r \in Authentic /\ Forward(r)
  BY <1>1, <1>2, <1>3, PassFree
<1>4. CASE Answer(r, "401")
  BY <1>1, <1>2, <1>4, AnswerStep
<1> QED
  BY <1>3, <1>4 DEF Authenticate

LEMMA LookUpStep ==
  ASSUME CInv, NEW r \in Requests, LookUp(r)
  PROVE  CInv'
<1>1. Reaches(r, "idempotency") /\ UNCHANGED level /\ UNCHANGED at
  BY DEF LookUp
<1>2. status[r] = "none" /\ PathOf[r] \in Protected /\ stage[r] = 3 /\ "idempotency" \notin Passed(r)
  BY <1>1, ReachesWhere
<1>3. CASE KeyOf[r] # None /\ stored[KeyOf[r]] # "none" /\ Answer(r, stored[KeyOf[r]])
  <2>1. KeyOf[r] \in Keys
    BY <1>3, ChainAssumption DEF Keys, Range
  <2>2. stored[KeyOf[r]] = "200"
    BY <1>3, <2>1 DEF CInv, Types
  <2> QED
    BY <1>1, <1>2, <1>3, <2>2, AnswerStep
<1>4. CASE Forward(r)
  <2>1. r \in Authentic
    BY <1>2 DEF CInv, Way
  <2> QED
    BY <1>1, <1>2, <1>4, <2>1, PassFree
<1> QED
  BY <1>3, <1>4 DEF LookUp

LEMMA HandlerStep ==
  ASSUME CInv, NEW r \in Requests, Handler(r)
  PROVE  CInv'
<1>1. PICK code \in {"200", "500"} : Answer(r, code)
  BY DEF Handler
<1>2. status[r] = "none" /\ UNCHANGED level /\ stage[r] = Len(Chain(r))
  BY DEF Handler
<1>3. PathOf[r] \in Protected => stage[r] = 4
  BY <1>2, ReachesWhere
<1> QED
  BY <1>1, <1>2, <1>3, AnswerStep

LEMMA TickStep ==
  ASSUME CInv, Tick
  PROVE  CInv'
<1>1. /\ Types /\ now \in Nat /\ now' = now + 1 /\ UNCHANGED <<stage, status, at, stored>>
      /\ level' = [l \in Limiters |-> [c \in Clients |-> Refill(l, level[l][c])]]
  BY DEF CInv, Types, Tick
<1>2. ASSUME NEW l \in Limiters, NEW c \in Clients
      PROVE  level'[l][c] \in Nat /\ Account(l, c)'
  <2>1. level'[l][c] = Refill(l, level[l][c]) /\ level[l][c] \in Nat /\ Capacity(l) \in Nat /\ Account(l, c)
    BY <1>1, LimitTypes DEF Types, CInv
  <2>2. PICK v \in Nat, t \in Nat, cap \in Nat : v = level[l][c] /\ t = Taken(l, c) /\ cap = Capacity(l)
    BY <2>1, TakersFinite
  <2>3. Takers(l, c)' = Takers(l, c) /\ Taken(l, c)' = t /\ Capacity(l)' = cap
    BY <1>1, <2>2 DEF Taken, Takers, Capacity
  <2>4. PICK w \in Nat : w = level'[l][c] /\ w = IF v < cap THEN v + 1 ELSE v
    BY <2>1, <2>2 DEF Refill
  <2>5. w <= cap /\ t + w >= cap /\ w <= v + 1
    BY <2>1, <2>2, <2>4 DEF Account
  <2>6. \A from, to : Through(l, c, from, to)' = Through(l, c, from, to)
    BY <1>1, <2>3 DEF Through, Within, Meets
  <2>7. \A from, to : Spent(l, c, from, to)' = Spent(l, c, from, to)
    BY <2>6 DEF Spent
  <2>8. ASSUME NEW from \in 0 .. now'
        PROVE  Spent(l, c, from, now') + w <= cap + (now' - from)
    <3>1. CASE from \in 0 .. now
      <4>1. Through(l, c, from, now') = Through(l, c, from, now)
        <5>1. \A x \in Takers(l, c) : at[x][Meets(l)] \in Nat /\ at[x][Meets(l)] <= now
          BY <1>1, TakersFinite DEF CInv, Way, Types, Meets
        <5>2. \A x \in Takers(l, c) : at[x][Meets(l)] \in from .. now' <=> at[x][Meets(l)] \in from .. now
          BY <1>1, <3>1, <5>1
        <5> QED
          BY <5>2 DEF Through, Within
      <4>2. PICK u \in Nat : u = Spent(l, c, from, now) /\ u = Spent(l, c, from, now')
        BY <4>1, ThroughFinite DEF Spent
      <4>3. u + v <= cap + (now - from)
        BY <2>1, <2>2, <3>1, <4>2 DEF Account
      <4>4. u + w <= cap + (now' - from)
        BY <1>1, <2>2, <2>4, <2>5, <3>1, <4>2, <4>3
      <4> QED
        BY <4>2, <4>4
    <3>2. CASE from = now'
      <4>1. Through(l, c, from, now') = {}
        <5>1. \A x \in Takers(l, c) : at[x][Meets(l)] \in Nat /\ at[x][Meets(l)] <= now
          BY <1>1, TakersFinite DEF CInv, Way, Types, Meets
        <5>2. \A x \in Takers(l, c) : at[x][Meets(l)] \notin from .. now'
          BY <1>1, <3>2, <5>1
        <5> QED
          BY <5>2 DEF Through, Within
      <4>2. Spent(l, c, from, now') = 0
        BY <4>1, FS_EmptySet, LimitTypes DEF Spent
      <4> QED
        BY <1>1, <2>2, <2>4, <2>5, <3>2, <4>2
    <3> QED
      BY <1>1, <3>1, <3>2
  <2>9. ASSUME NEW to \in 0 .. now', NEW from \in 0 .. to
        PROVE  Spent(l, c, from, to) <= cap + (to - from)
    <3>1. CASE to = now'
      <4>1. Spent(l, c, from, now') \in Nat /\ Spent(l, c, from, now') + w <= cap + (now' - from)
        BY <2>8, <3>1, ThroughFinite
      <4> QED
        BY <1>1, <2>2, <2>4, <3>1, <4>1
    <3>2. CASE to # now'
      <4>1. to \in 0 .. now
        BY <1>1, <3>2
      <4> QED
        BY <2>1, <2>2, <4>1 DEF Account
    <3> QED
      BY <3>1, <3>2
  <2> QED
    BY <2>3, <2>4, <2>5, <2>7, <2>8, <2>9 DEF Account
<1>3. Types'
  BY <1>1, <1>2 DEF Types
<1>4. \A r \in Requests : Way(r)'
  BY <1>1 DEF CInv, Way, Types
<1> QED
  BY <1>2, <1>3, <1>4 DEF CInv

LEMMA InitCInv == Init => CInv
<1> SUFFICES ASSUME Init PROVE CInv
  OBVIOUS
<1>1. Types
  <2>1. \A l \in Limiters : Capacity(l) \in Nat
    BY LimitTypes
  <2> QED
    BY <2>1 DEF Init, Types
<1>2. \A r \in Requests : Way(r)
  BY DEF Init, Way
<1>3. ASSUME NEW l \in Limiters, NEW c \in Clients PROVE Account(l, c)
  <2>1. Takers(l, c) = {}
    BY DEF Init, Takers
  <2>2. Taken(l, c) = 0
    BY <2>1, FS_EmptySet, LimitTypes DEF Taken
  <2>3. \A from, to : Spent(l, c, from, to) = 0
    <3>1. \A from, to : Through(l, c, from, to) = {}
      BY <2>1 DEF Through, Within
    <3>2. PICK p \in Nat : p = Limits[l].price
      BY LimitTypes
    <3>3. Cardinality({}) = 0 /\ 0 * p = 0
      BY <3>2, FS_EmptySet
    <3> QED
      BY <3>1, <3>2, <3>3 DEF Spent
  <2>4. level[l][c] = Capacity(l) /\ now = 0 /\ Capacity(l) \in Nat
    BY LimitTypes DEF Init
  <2> QED
    BY <2>2, <2>3, <2>4 DEF Account
<1> QED
  BY <1>1, <1>2, <1>3 DEF CInv

LEMMA NextCInv == CInv /\ [Next]_vars => CInv'
<1> SUFFICES ASSUME CInv, [Next]_vars PROVE CInv'
  OBVIOUS
<1>1. CASE UNCHANGED vars
  <2>1. UNCHANGED <<now, level, stage, status, at, stored>>
    BY <1>1 DEF vars
  <2>2. Types' /\ \A r \in Requests : Way(r)'
    BY <2>1 DEF CInv, Types, Way
  <2>3. \A l \in Limiters : \A c \in Clients : Account(l, c)'
    BY <2>1, AccountKept DEF Takers
  <2> QED
    BY <2>2, <2>3 DEF CInv
<1> QED
  BY <1>1, GlobalStep, AuthenticateStep, EndpointStep, LookUpStep, HandlerStep, TickStep DEF Next

LEMMA ChainInvariant == Spec => []CInv
BY InitCInv, NextCInv, PTL DEF Spec

-----------------------------------------------------------------------------
(* What the chain guarantees. *)

\* No refusal is found under an idempotency key by a retry.
THEOREM RefusalsForgotten == Spec => []RefusalsNotStored
<1>1. CInv => RefusalsNotStored
  BY DEF CInv, Types, RefusalsNotStored
<1> QED
  BY <1>1, ChainInvariant, PTL

\* What is missing from an endpoint bucket, authenticated requests took.
THEOREM AuthenticatedSpendOnly == Spec => []OnlyAuthenticSpend
<1>1. ASSUME CInv, NEW l \in Limiters \ {"global"}, NEW c \in Clients
      PROVE  LET known == {r \in Authentic : EndpointClient(r) = c /\ "authenticate" \in Passed(r)}
             IN level[l][c] + Limits[l].price * Cardinality(known) >= Capacity(l)
  <2> DEFINE known == {r \in Authentic : EndpointClient(r) = c /\ "authenticate" \in Passed(r)}
  <2>1. Takers(l, c) \in SUBSET known
    <3>1. ASSUME NEW r \in Takers(l, c) PROVE r \in known
      <4>1. r \in Requests /\ PathOf[r] \in Protected /\ EndpointClient(r) = c /\ stage[r] >= 3
        BY <3>1 DEF Takers
      <4>2. stage[r] >= 2
        BY <1>1, <4>1 DEF CInv, Types
      <4>3. r \in Authentic /\ "authenticate" \in Passed(r)
        BY <1>1, <4>1, <4>2, ReachesWhere DEF CInv, Way
      <4> QED
        BY <4>1, <4>3
    <3> QED
      BY <3>1
  <2>2. IsFiniteSet(known)
    <3>1. known \in SUBSET Requests
      BY ChainAssumption
    <3> QED
      BY <3>1, ChainAssumption, FS_Subset
  <2> HIDE DEF known
  <2>3. Cardinality(known) \in Nat /\ Cardinality(Takers(l, c)) \in Nat /\ Cardinality(Takers(l, c)) <= Cardinality(known)
    BY <2>1, <2>2, FS_Subset, FS_CardinalityType
  <2>4. PICK n \in Nat, m \in Nat, p \in Nat :
          n = Cardinality(Takers(l, c)) /\ m = Cardinality(known) /\ p = Limits[l].price /\ n <= m
    BY <2>3, LimitTypes
  <2>5. n * p <= p * m /\ n * p \in Nat /\ p * m \in Nat
    <3>1. m - n \in Nat /\ (m - n) * p \in Nat /\ n * p \in Nat /\ p * m \in Nat
      BY <2>4
    <3>2. p * m = n * p + (m - n) * p
      BY <2>4
    <3> QED
      BY <3>1, <3>2
  <2>6. n * p + level[l][c] >= Capacity(l) /\ level[l][c] \in Nat /\ Capacity(l) \in Nat
    BY <1>1, <2>4, LimitTypes DEF CInv, Account, Taken, Types
  <2>7. level[l][c] + p * m >= Capacity(l)
    BY <2>5, <2>6
  <2> QED
    BY <2>4, <2>7 DEF known
<1>2. ASSUME CInv PROVE OnlyAuthenticSpend
  BY <1>1, <1>2 DEF OnlyAuthenticSpend
<1> QED
  BY <1>2, ChainInvariant, PTL

-----------------------------------------------------------------------------
(* The limits. *)

\* A group of requests that each took a token stays within the limit.
LEMMA WithinLimit ==
  ASSUME CInv, NEW l \in Limiters, NEW c \in Clients, NEW R \in SUBSET Takers(l, c)
  PROVE  Respects(R, Meets(l), l)
<1> SUFFICES ASSUME NEW to \in 0 .. now, NEW from \in 0 .. to
             PROVE  Cardinality(Within(R, Meets(l), from, to)) * Limits[l].price <= Capacity(l) + (to - from)
  BY DEF Respects
<1> DEFINE W == Within(R, Meets(l), from, to)
<1>1. W \in SUBSET Through(l, c, from, to)
  BY DEF Through, Within
<1> HIDE DEF W
<1>2. Cardinality(W) \in Nat /\ Cardinality(W) <= Cardinality(Through(l, c, from, to))
  BY <1>1, ThroughFinite, FS_Subset, FS_CardinalityType
<1>3. PICK n \in Nat, m \in Nat, p \in Nat, cap \in Nat :
        /\ n = Cardinality(W) /\ m = Cardinality(Through(l, c, from, to)) /\ n <= m
        /\ p = Limits[l].price /\ cap = Capacity(l)
  BY <1>2, ThroughFinite, LimitTypes
<1>4. n * p <= m * p /\ n * p \in Nat /\ m * p \in Nat
  <2>1. m - n \in Nat /\ (m - n) * p \in Nat /\ n * p \in Nat /\ m * p \in Nat
    BY <1>3
  <2>2. m * p = n * p + (m - n) * p
    BY <1>3
  <2> QED
    BY <2>1, <2>2
<1>5. m * p <= cap + (to - from) /\ now \in Nat
  BY <1>3 DEF CInv, Account, Spent, Types
<1>6. n * p <= cap + (to - from)
  BY <1>3, <1>4, <1>5
<1> QED
  BY <1>3, <1>6 DEF W

\* The global limit holds over all routes, answers and refusals together: in
\* every interval of time, no more requests of a client pass than a burst and
\* what the rate adds.
THEOREM GlobalLimitStands == Spec => []GlobalLimitHolds
<1>1. ASSUME CInv, NEW c \in Clients
      PROVE  Respects({r \in Requests : stage[r] > 0 /\ GlobalClient(r) = c}, "global", "global")
  <2> DEFINE R == {r \in Requests : stage[r] > 0 /\ GlobalClient(r) = c}
  <2>1. R \in SUBSET Takers("global", c)
    BY <1>1 DEF Takers, CInv, Types
  <2>2. "global" \in Limiters /\ Meets("global") = "global"
    BY DEF Limiters, Meets
  <2> HIDE DEF R
  <2>3. Respects(R, "global", "global")
    BY <1>1, <2>1, <2>2, WithinLimit
  <2> QED
    BY <2>3 DEF R
<1>2. CInv => GlobalLimitHolds
  BY <1>1 DEF GlobalLimitHolds
<1> QED
  BY <1>2, ChainInvariant, PTL

\* The documented limits of the protected routes hold per endpoint and client,
\* in every interval of time.
THEOREM EndpointLimitsStand == Spec => []EndpointLimitsHold
<1>1. ASSUME CInv, NEW c \in Clients
      PROVE  /\ Respects({r \in Served : PathOf[r] = "/accounts/id" /\ EndpointClient(r) = c},
                         "endpoint", "/accounts/*")
             /\ Respects({r \in Served : PathOf[r] \in {"/accounts", "/transfers"} /\ EndpointClient(r) = c},
                         "endpoint", "default")
  <2> DEFINE R == {r \in Served : PathOf[r] = "/accounts/id" /\ EndpointClient(r) = c}
             S == {r \in Served : PathOf[r] \in {"/accounts", "/transfers"} /\ EndpointClient(r) = c}
  <2>1. \A r \in Served : PathOf[r] \in Protected => stage[r] >= 3
    BY <1>1 DEF CInv, Way, Served
  <2>2. R \in SUBSET Takers("/accounts/*", c) /\ S \in SUBSET Takers("default", c)
    BY <2>1, MatchingIs DEF Served, Takers, Protected
  <2>3. /\ {"/accounts/*", "default"} \subseteq Limiters
        /\ Meets("/accounts/*") = "endpoint" /\ Meets("default") = "endpoint"
    BY DEF Limiters, Patterns, Meets
  <2> HIDE DEF R, S
  <2>4. Respects(R, "endpoint", "/accounts/*") /\ Respects(S, "endpoint", "default")
    BY <1>1, <2>2, <2>3, WithinLimit
  <2> QED
    BY <2>4 DEF R, S
<1>2. CInv => EndpointLimitsHold
  BY <1>1 DEF EndpointLimitsHold
<1> QED
  BY <1>2, ChainInvariant, PTL
=============================================================================
