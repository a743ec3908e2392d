-------------------------- MODULE RateLimiterProofs --------------------------
(***************************************************************************)
(* The rate limiter keeps its promise for any clients, requests, rate,     *)
(* burst, ttl and cleanup period.                                          *)
(*                                                                         *)
(* A request uses its bucket outside the mutex.  What makes this harmless  *)
(* is time: a request holds a bucket for at most Stall ticks, its client   *)
(* was stamped when it got it, and cleanup removes a client only a ttl     *)
(* after the stamp.  The bucket a request holds is therefore the one in    *)
(* the map (HoldOK), and one that is removed is full (IdleIsFull).         *)
(***************************************************************************)
EXTENDS RateLimiter, FiniteSetTheorems, TLAPS

Types ==
  /\ now \in Nat /\ due \in BOOLEAN
  /\ limiter \in [Clients -> Requests \cup {None}]
  /\ lastSeen \in [Clients -> Nat]
  /\ tokens \in [Requests -> 0 .. Capacity]
  /\ last \in [Requests -> Nat]
  /\ pc \in [Requests -> {"arriving", "limited", "admitted", "refused"}]
  /\ held \in [Requests -> Requests \cup {None}]
  /\ at \in [Requests -> Nat]

\* Nothing is stamped with a time to come.
Past ==
  /\ \A c \in Clients : lastSeen[c] <= now
  /\ \A b \in Requests : last[b] <= now /\ at[b] <= now

\* The bucket in the map is the client's own, and was not taken from much
\* later than the client was seen.
BucketOK(c) ==
  LET b == limiter[c]
  IN Known(c) => ClientOf[b] = c /\ pc[b] # "arriving" /\ last[b] <= lastSeen[c] + Stall

\* A request between getLimiter and Allow holds the bucket in the map.
HoldOK(r) ==
  LET c == ClientOf[r]
  IN pc[r] = "limited" =>
       Known(c) /\ held[r] = limiter[c] /\ at[r] <= lastSeen[c] /\ now - at[r] <= Stall

RInv ==
  /\ Types
  /\ Past
  /\ \A c \in Clients : BucketOK(c)
  /\ \A r \in Requests : HoldOK(r)

-----------------------------------------------------------------------------
(* Numbers. *)

LEMMA Constants ==
  /\ Price \in Nat /\ Price > 0 /\ Period \in Nat /\ Period > 0 /\ Stall \in Nat /\ Stall < Period
  /\ Ttl \in Nat /\ Capacity \in Nat /\ Capacity >= Price /\ Ttl >= Capacity + Stall
<1>1. /\ Price \in Nat /\ Price > 0 /\ Period \in Nat /\ Period > 0 /\ Stall \in Nat /\ Stall < Period
      /\ Burst \in Nat /\ Burst >= 1
  BY RateLimiterAssumption
<1>2. Burst * Price \in Nat /\ Burst * Price >= Price
  <2>1. Burst - 1 \in Nat /\ (Burst - 1) * Price \in Nat
    BY <1>1
  <2>2. Burst * Price = (Burst - 1) * Price + Price
    BY <1>1
  <2> QED
    BY <1>1, <2>1, <2>2
<1> QED
  BY <1>1, <1>2, SlowEviction DEF Capacity

\* What a bucket holds lies between nothing and its capacity.
LEMMA HeldRange ==
  ASSUME RInv, NEW b \in Requests
  PROVE  /\ tokens[b] \in 0 .. Capacity /\ now - last[b] \in Nat
         /\ Held(b) \in 0 .. Capacity
         /\ Held(b) = IF tokens[b] + (now - last[b]) > Capacity THEN Capacity
                      ELSE tokens[b] + (now - last[b])
<1>1. tokens[b] \in 0 .. Capacity /\ last[b] \in Nat /\ now \in Nat /\ last[b] <= now /\ Capacity \in Nat
  BY Constants DEF RInv, Types, Past
<1> QED
  BY <1>1 DEF Held, Capped

\* A bucket that may be removed is full.
LEMMA IdleIsFull ==
  ASSUME RInv, NEW c \in Clients, Idle(c)
  PROVE  limiter[c] \in Requests /\ Held(limiter[c]) = Capacity
<1> DEFINE b == limiter[c]
<1>1. b \in Requests /\ last[b] <= lastSeen[c] + Stall /\ now - lastSeen[c] > Ttl
  BY DEF RInv, Types, BucketOK, Idle, Known
<1>2. tokens[b] \in 0 .. Capacity /\ last[b] \in Nat /\ now \in Nat /\ lastSeen[c] \in Nat
  BY <1>1 DEF RInv, Types
<1> HIDE DEF b
<1>3. tokens[b] + (now - last[b]) > Capacity
  BY <1>1, <1>2, Constants
<1> QED
  BY <1>1, <1>3, HeldRange DEF b

\* A client with a request under way is not idle.
LEMMA HolderIsKept ==
  ASSUME RInv, NEW r \in Requests, pc[r] = "limited"
  PROVE  ~Idle(ClientOf[r])
<1>1. ClientOf[r] \in Clients
  BY RateLimiterAssumption
<1>2. /\ at[r] <= lastSeen[ClientOf[r]] /\ now - at[r] <= Stall
      /\ at[r] \in Nat /\ lastSeen[ClientOf[r]] \in Nat /\ now \in Nat
  BY <1>1 DEF RInv, Types, HoldOK
<1> QED
  BY <1>2, Constants DEF Idle

-----------------------------------------------------------------------------
(* The invariant. *)

LEMMA InitRInv == Init => RInv
<1> SUFFICES ASSUME Init PROVE RInv
  OBVIOUS
<1>1. Types
  <2>1. Capacity \in 0 .. Capacity
    BY Constants
  <2>2. /\ tokens \in [Requests -> 0 .. Capacity] /\ last \in [Requests -> Nat]
        /\ limiter \in [Clients -> Requests \cup {None}] /\ lastSeen \in [Clients -> Nat]
    BY <2>1 DEF Init
  <2>3. /\ pc \in [Requests -> {"arriving", "limited", "admitted", "refused"}]
        /\ held \in [Requests -> Requests \cup {None}] /\ at \in [Requests -> Nat]
    BY DEF Init
  <2> QED
    BY <2>2, <2>3 DEF Init, Types
<1>2. Past /\ \A c \in Clients : BucketOK(c)
  BY DEF Init, Past, BucketOK, Known
<1>3. \A r \in Requests : HoldOK(r)
  BY DEF Init, HoldOK
<1> QED
  BY <1>1, <1>2, <1>3 DEF RInv

\* A request is given a bucket: the one in the map, or a new one.
LEMMA TakeRInv ==
  ASSUME RInv, NEW r \in Requests, GetLimiter(r) \/ NewLimiter(r)
  PROVE  RInv'
<1> DEFINE c == ClientOf[r]
<1>1. c \in Clients /\ Types /\ Past /\ now \in Nat
  BY RateLimiterAssumption DEF RInv, Types
<1>2. PICK b \in Requests : Take(r, b) /\ limiter' = [limiter EXCEPT ![c] = b]
  <2>1. CASE GetLimiter(r)
    BY <1>1, <2>1 DEF GetLimiter, Known, Types
  <2>2. CASE NewLimiter(r)
    BY <2>2 DEF NewLimiter
  <2> QED
    BY <2>1, <2>2
<1>3. /\ pc[r] = "arriving" /\ pc' = [pc EXCEPT ![r] = "limited"] /\ held' = [held EXCEPT ![r] = b]
      /\ lastSeen' = [lastSeen EXCEPT ![c] = now] /\ at' = [at EXCEPT ![r] = now] /\ UNCHANGED <<now, due>>
  BY <1>2 DEF Take
<1>4. /\ tokens' \in [Requests -> 0 .. Capacity] /\ last' \in [Requests -> Nat]
      /\ \A x \in Requests : last'[x] = last[x] \/ (x = r /\ last'[x] = now)
  <2>1. CASE GetLimiter(r)
    BY <1>1, <2>1 DEF GetLimiter, bucketVars, Types
  <2>2. CASE NewLimiter(r)
    BY <1>1, <2>2, Constants DEF NewLimiter, Types
  <2> QED
    BY <2>1, <2>2
<1>5. Types'
  BY <1>1, <1>2, <1>3, <1>4 DEF Types
<1>6. Past'
  BY <1>1, <1>3, <1>4 DEF Past, Types
<1>7. b = r \/ (Known(c) /\ b = limiter[c])
  <2>1. CASE GetLimiter(r)
    BY <1>1, <1>2, <1>3, <2>1 DEF GetLimiter, Take, Types
  <2>2. CASE NewLimiter(r)
    BY <1>1, <1>2, <1>3, <2>2 DEF NewLimiter, Take, Types
  <2> QED
    BY <2>1, <2>2
<1>8. ASSUME NEW d \in Clients PROVE BucketOK(d)'
  <2>1. CASE d = c
    <3>1. limiter'[d] = b /\ lastSeen'[d] = now /\ last'[b] <= now /\ last'[b] \in Nat
      BY <1>1, <1>2, <1>3, <1>5, <1>6, <2>1 DEF Types, Past
    <3>2. ClientOf[b] = c
      BY <1>1, <1>7 DEF RInv, BucketOK
    <3>3. pc'[b] # "arriving"
      BY <1>1, <1>3, <1>7 DEF RInv, BucketOK, Types
    <3> QED
      BY <1>1, <2>1, <3>1, <3>2, <3>3, Constants DEF BucketOK
  <2>2. CASE d # c
    <3>1. limiter'[d] = limiter[d] /\ lastSeen'[d] = lastSeen[d] /\ BucketOK(d)
      BY <1>1, <1>2, <1>3, <2>2 DEF Types, RInv
    <3>2. ASSUME Known(d) PROVE LET x == limiter[d] IN
                                 ClientOf[x] = d /\ pc'[x] # "arriving" /\ last'[x] <= lastSeen[d] + Stall
      <4>1. limiter[d] \in Requests /\ limiter[d] # r
        BY <1>1, <1>3, <3>1, <3>2 DEF Types, Known, BucketOK
      <4>2. last'[limiter[d]] = last[limiter[d]] /\ pc'[limiter[d]] = pc[limiter[d]]
        BY <1>1, <1>3, <1>4, <4>1 DEF Types
      <4> QED
        BY <3>1, <3>2, <4>2 DEF BucketOK
    <3> QED
      BY <3>1, <3>2 DEF BucketOK, Known
  <2> QED
    BY <2>1, <2>2
<1>9. ASSUME NEW x \in Requests PROVE HoldOK(x)'
  <2>1. CASE x = r
    <3>1. limiter'[c] = b /\ held'[r] = b /\ at'[r] = now /\ lastSeen'[c] = now /\ b # None
      BY <1>1, <1>2, <1>3, RateLimiterAssumption DEF Types
    <3> QED
      BY <1>1, <1>3, <2>1, <3>1, Constants DEF HoldOK, Known
  <2>2. CASE x # r
    <3> SUFFICES ASSUME pc'[x] = "limited" PROVE HoldOK(x)'
      BY DEF HoldOK
    <3>1. pc[x] = "limited" /\ held'[x] = held[x] /\ at'[x] = at[x] /\ HoldOK(x)
      BY <1>1, <1>3, <2>2 DEF Types, RInv
    <3>2. Known(ClientOf[x]) /\ held[x] = limiter[ClientOf[x]] /\ at[x] <= lastSeen[ClientOf[x]] /\ now - at[x] <= Stall
      BY <3>1 DEF HoldOK
    <3>3. CASE ClientOf[x] = c
      <4>1. limiter'[c] = limiter[c] /\ Known(c)
        <5>1. Known(c)
          BY <3>2, <3>3
        <5>2. GetLimiter(r)
          BY <5>1 DEF NewLimiter
        <5> QED
          BY <1>1, <5>1, <5>2 DEF GetLimiter
      <4>2. at[x] <= now /\ lastSeen'[c] = now
        BY <1>1, <1>3 DEF Past, Types
      <4> QED
        BY <1>3, <3>1, <3>2, <3>3, <4>1, <4>2 DEF HoldOK, Known
    <3>4. CASE ClientOf[x] # c
      <4>1. ClientOf[x] \in Clients
        BY RateLimiterAssumption
      <4>2. limiter'[ClientOf[x]] = limiter[ClientOf[x]] /\ lastSeen'[ClientOf[x]] = lastSeen[ClientOf[x]]
        BY <1>1, <1>2, <1>3, <3>4, <4>1 DEF Types
      <4> QED
        BY <1>3, <3>1, <3>2, <4>2 DEF HoldOK, Known
    <3> QED
      BY <3>3, <3>4
  <2> QED
    BY <2>1, <2>2
<1> QED
  BY <1>5, <1>6, <1>8, <1>9 DEF RInv

\* A request is decided on.
LEMMA DecideRInv ==
  ASSUME RInv, NEW r \in Requests, Allow(r) \/ TooManyRequests(r)
  PROVE  RInv'
<1> DEFINE c == ClientOf[r]
           b == held[r]
<1>1. /\ c \in Clients /\ Types /\ Past /\ now \in Nat /\ pc[r] = "limited"
      /\ b \in Requests /\ Known(c) /\ b = limiter[c] /\ at[r] <= lastSeen[c] /\ now - at[r] <= Stall
  <2>1. c \in Clients /\ Types /\ Past /\ now \in Nat /\ pc[r] = "limited"
    BY RateLimiterAssumption DEF RInv, Types, Allow, TooManyRequests
  <2>2. Known(c) /\ b = limiter[c] /\ at[r] <= lastSeen[c] /\ now - at[r] <= Stall
    BY <2>1 DEF RInv, HoldOK
  <2> QED
    BY <2>1, <2>2 DEF Types, Known
<1>2. PICK v \in {"admitted", "refused"} : Decide(r, v)
  BY DEF Allow, TooManyRequests
<1>3. /\ pc' = [pc EXCEPT ![r] = v] /\ held' = [held EXCEPT ![r] = None]
      /\ at' = [at EXCEPT ![r] = now] /\ UNCHANGED <<now, due, limiter, lastSeen>>
  BY <1>2 DEF Decide, mapVars
<1>4. /\ tokens' \in [Requests -> 0 .. Capacity] /\ last' \in [Requests -> Nat]
      /\ \A x \in Requests : last'[x] = last[x] \/ (x = b /\ last'[x] = now)
  <2>1. CASE Allow(r)
    <3>1. Held(b) \in 0 .. Capacity /\ Held(b) >= Price
      BY <1>1, <2>1, HeldRange DEF Allow
    <3>2. Held(b) - Price \in 0 .. Capacity
      BY <3>1, Constants
    <3> QED
      BY <1>1, <2>1, <3>2 DEF Allow, Types
  <2>2. CASE TooManyRequests(r)
    BY <1>1, <2>2 DEF TooManyRequests, bucketVars, Types
  <2> QED
    BY <2>1, <2>2
<1>5. Types'
  BY <1>1, <1>3, <1>4 DEF Types
<1>6. Past'
  BY <1>1, <1>3, <1>4 DEF Past, Types
<1>7. ASSUME NEW d \in Clients PROVE BucketOK(d)'
  <2> SUFFICES ASSUME Known(d) PROVE BucketOK(d)'
    BY <1>3 DEF BucketOK, Known
  <2> DEFINE x == limiter[d]
  <2>1. x \in Requests /\ ClientOf[x] = d /\ pc[x] # "arriving" /\ last[x] <= lastSeen[d] + Stall
    BY <1>1 DEF RInv, BucketOK, Known, Types
  <2>2. pc'[x] # "arriving"
    BY <1>1, <1>3, <2>1 DEF Types
  <2>3. last'[x] <= lastSeen[d] + Stall
    <3>1. CASE last'[x] = last[x]
      BY <2>1, <3>1
    <3>2. CASE x = b /\ last'[x] = now
      <4>1. d = c
        BY <1>1, <2>1, <3>2 DEF RInv, BucketOK
      <4>2. at[r] \in Nat /\ lastSeen[c] \in Nat
        BY <1>1 DEF Types
      <4> QED
        BY <1>1, <3>2, <4>1, <4>2, Constants
    <3> QED
      BY <1>4, <2>1, <3>1, <3>2
  <2> QED
    BY <1>3, <2>1, <2>2, <2>3 DEF BucketOK
<1>8. ASSUME NEW x \in Requests PROVE HoldOK(x)'
  <2> SUFFICES ASSUME pc'[x] = "limited" PROVE HoldOK(x)'
    BY DEF HoldOK
  <2>1. x # r /\ pc[x] = "limited" /\ held'[x] = held[x] /\ at'[x] = at[x] /\ HoldOK(x)
    BY <1>1, <1>3 DEF Types, RInv
  <2> QED
    BY <1>3, <2>1 DEF HoldOK, Known
<1> QED
  BY <1>5, <1>6, <1>7, <1>8 DEF RInv

LEMMA CleanupRInv ==
  ASSUME RInv, Cleanup
  PROVE  RInv'
<1>1. Types /\ Past /\ UNCHANGED <<now, tokens, last, pc, held, at>> /\ due' = FALSE
  BY DEF RInv, Cleanup, bucketVars, requestVars
<1>2. /\ limiter' = [c \in Clients |-> IF Idle(c) THEN None ELSE limiter[c]]
      /\ lastSeen' = [c \in Clients |-> IF Idle(c) THEN 0 ELSE lastSeen[c]]
  BY DEF Cleanup
<1>3. Types'
  BY <1>1, <1>2 DEF Types
<1>4. Past'
  BY <1>1, <1>2 DEF Past, Types
<1>5. ASSUME NEW c \in Clients PROVE BucketOK(c)'
  BY <1>1, <1>2 DEF RInv, BucketOK, Known
<1>6. ASSUME NEW r \in Requests PROVE HoldOK(r)'
  <2> SUFFICES ASSUME pc[r] = "limited" PROVE HoldOK(r)'
    BY <1>1 DEF HoldOK
  <2>1. ~Idle(ClientOf[r]) /\ ClientOf[r] \in Clients /\ HoldOK(r)
    BY HolderIsKept, RateLimiterAssumption DEF RInv
  <2> QED
    BY <1>1, <1>2, <2>1 DEF HoldOK, Known
<1> QED
  BY <1>3, <1>4, <1>5, <1>6 DEF RInv

LEMMA TickRInv ==
  ASSUME RInv, Tick
  PROVE  RInv'
<1>1. /\ Types /\ Past /\ UNCHANGED <<limiter, lastSeen, tokens, last, pc, held, at>>
      /\ now' = now + 1 /\ due' \in BOOLEAN /\ Prompt
  BY DEF RInv, Tick, mapVars, bucketVars, requestVars, Types
<1>2. Types'
  BY <1>1 DEF Types
<1>3. Past'
  BY <1>1 DEF Past, Types
<1>4. \A c \in Clients : BucketOK(c)'
  BY <1>1 DEF RInv, BucketOK, Known
<1>5. ASSUME NEW r \in Requests PROVE HoldOK(r)'
  <2> SUFFICES ASSUME pc[r] = "limited" PROVE HoldOK(r)'
    BY <1>1 DEF HoldOK
  <2>1. now - at[r] < Stall /\ HoldOK(r) /\ now \in Nat /\ at[r] \in Nat
    BY <1>1 DEF RInv, Prompt, Types
  <2>2. now' - at[r] <= Stall
    BY <1>1, <2>1, Constants
  <2> QED
    BY <1>1, <2>1, <2>2 DEF HoldOK, Known
<1> QED
  BY <1>2, <1>3, <1>4, <1>5 DEF RInv

LEMMA StutterRInv == RInv /\ UNCHANGED vars => RInv'
<1> SUFFICES ASSUME RInv, UNCHANGED vars PROVE RInv'
  OBVIOUS
<1>1. Types' /\ Past'
  BY DEF RInv, vars, Types, Past
<1>2. (\A c \in Clients : BucketOK(c)') /\ (\A r \in Requests : HoldOK(r)')
  BY DEF RInv, vars, BucketOK, HoldOK, Known
<1> QED
  BY <1>1, <1>2 DEF RInv

LEMMA NextRInv == RInv /\ [Next]_vars => RInv'
BY TakeRInv, DecideRInv, CleanupRInv, TickRInv, StutterRInv DEF Next, Stopped

LEMMA RateLimiterInvariant == Spec => []RInv
BY InitRInv, NextRInv, PTL DEF Spec

-----------------------------------------------------------------------------
(* Cleanup. *)

\* The last pass of cleanup left no client that had been away for a ttl; it
\* was the pass of this period, or of the one before when this one's is due.
Swept ==
  /\ due => now % Period <= Stall
  /\ \A c \in Clients : Known(c) =>
       lastSeen[c] >= now - (now % Period) - Ttl - (IF due THEN Period ELSE 0)

\* There is one quotient and remainder.
LEMMA Remainders ==
  ASSUME NEW p \in Nat, p > 0, NEW q \in Int, NEW k \in Int, NEW r \in 0 .. p - 1, NEW s \in 0 .. p - 1,
         p * q + r = p * k + s
  PROVE  r = s
<1>1. CASE q = k
  BY <1>1
<1>2. CASE q > k
  <2>1. PICK d \in Nat : q = k + 1 + d
    <3>1. q - k - 1 \in Nat /\ q = k + 1 + (q - k - 1)
      BY <1>2
    <3> QED
      BY <3>1
  <2>2. p * q = p * k + p + p * d /\ p * d \in Nat /\ p * k \in Int
    BY <2>1
  <2> QED
    BY <2>2
<1>3. CASE k > q
  <2>1. PICK d \in Nat : k = q + 1 + d
    <3>1. k - q - 1 \in Nat /\ k = q + 1 + (k - q - 1)
      BY <1>3
    <3> QED
      BY <3>1
  <2>2. p * k = p * q + p + p * d /\ p * d \in Nat /\ p * q \in Int
    BY <2>1
  <2> QED
    BY <2>2
<1> QED
  BY <1>1, <1>2, <1>3

LEMMA Division ==
  ASSUME NEW p \in Nat, p > 0, NEW n \in Nat
  PROVE  n \div p \in Int /\ n % p \in 0 .. p - 1 /\ n = p * (n \div p) + (n % p)
OBVIOUS

LEMMA PeriodStep ==
  ASSUME NEW n \in Nat
  PROVE  /\ n % Period \in 0 .. Period - 1
         /\ (n + 1) % Period = IF n % Period = Period - 1 THEN 0 ELSE (n % Period) + 1
<1>1. Period \in Nat /\ Period > 0
  BY Constants
<1>2. PICK q \in Int, m \in 0 .. Period - 1 : n = Period * q + m /\ n % Period = m
  BY <1>1, Division
<1>3. PICK k \in Int, s \in 0 .. Period - 1 : n + 1 = Period * k + s /\ (n + 1) % Period = s
  <2>1. n + 1 \in Nat
    OBVIOUS
  <2> QED
    BY <1>1, <2>1, Division
<1>4. CASE m = Period - 1
  <2>1. Period * (q + 1) = Period * q + Period /\ Period * q \in Int /\ Period * k \in Int
    BY <1>1
  <2>2. Period * (q + 1) + 0 = Period * k + s
    BY <1>1, <1>2, <1>3, <1>4, <2>1
  <2>3. s = 0
    BY <1>1, <2>2, Remainders
  <2> QED
    BY <1>2, <1>3, <1>4, <2>3
<1>5. CASE m # Period - 1
  <2>1. m + 1 \in 0 .. Period - 1
    BY <1>1, <1>5
  <2>2. Period * q \in Int /\ Period * k \in Int
    BY <1>1
  <2>3. Period * q + (m + 1) = Period * k + s
    BY <1>1, <1>2, <1>3, <2>2
  <2>4. s = m + 1
    BY <1>1, <2>1, <2>3, Remainders
  <2> QED
    BY <1>2, <1>3, <1>5, <2>4
<1> QED
  BY <1>2, <1>4, <1>5

LEMMA InitSwept == Init => Swept
BY DEF Init, Swept, Known

LEMMA NextSwept == RInv /\ Swept /\ [Next]_vars => Swept'
<1> SUFFICES ASSUME RInv, Swept, [Next]_vars PROVE Swept'
  OBVIOUS
<1> DEFINE m == now % Period
<1>1. /\ Types /\ Past /\ now \in Nat /\ m \in 0 .. Period - 1
      /\ \A c \in Clients : lastSeen[c] \in Nat /\ lastSeen[c] <= now
  BY PeriodStep DEF RInv, Types, Past
<1>2. CASE UNCHANGED vars
  BY <1>2 DEF vars, Swept, Known
<1>3. ASSUME NEW r \in Requests, GetLimiter(r) \/ NewLimiter(r) PROVE Swept'
  <2>1. /\ ClientOf[r] \in Clients /\ UNCHANGED <<now, due>>
        /\ lastSeen' = [lastSeen EXCEPT ![ClientOf[r]] = now]
        /\ \A c \in Clients : c # ClientOf[r] => limiter'[c] = limiter[c]
    BY <1>1, <1>3, RateLimiterAssumption DEF GetLimiter, NewLimiter, Take, Types
  <2>2. ASSUME NEW c \in Clients, Known(c)'
        PROVE  lastSeen'[c] >= now - m - Ttl - (IF due THEN Period ELSE 0)
    <3>1. CASE c = ClientOf[r]
      <4>1. lastSeen'[c] = now
        BY <1>1, <2>1, <3>1 DEF Types
      <4> QED
        BY <1>1, <4>1, Constants
    <3>2. CASE c # ClientOf[r]
      BY <1>1, <2>1, <2>2, <3>2 DEF Swept, Known, Types
    <3> QED
      BY <3>1, <3>2
  <2> QED
    BY <2>1, <2>2 DEF Swept
<1>4. ASSUME NEW r \in Requests, Allow(r) \/ TooManyRequests(r) PROVE Swept'
  BY <1>4 DEF Allow, TooManyRequests, Decide, mapVars, Swept, Known
<1>5. CASE Cleanup
  <2>1. due' = FALSE /\ now' = now
    BY <1>5 DEF Cleanup
  <2>2. ASSUME NEW c \in Clients, Known(c)'
        PROVE  lastSeen'[c] >= now - m - Ttl
    <3>1. ~Idle(c) /\ Known(c) /\ lastSeen'[c] = lastSeen[c]
      BY <1>5, <2>2 DEF Cleanup, Known, Idle
    <3>2. now - lastSeen[c] <= Ttl
      BY <1>1, <3>1, Constants DEF Idle
    <3> QED
      BY <1>1, <3>1, <3>2, Constants
  <2> QED
    BY <2>1, <2>2, Constants, <1>1 DEF Swept
<1>6. CASE Tick
  <2>1. /\ now' = now + 1 /\ due' = (due \/ now' % Period = 0) /\ UNCHANGED <<limiter, lastSeen>>
        /\ due => m < Stall
    BY <1>6 DEF Tick, mapVars, Prompt
  <2>2. now' % Period = IF m = Period - 1 THEN 0 ELSE m + 1
    BY <1>1, <2>1, PeriodStep
  <2>3. \A c \in Clients : Known(c)' = Known(c)
    BY <2>1 DEF Known
  <2>4. \A c \in Clients : Known(c) => lastSeen[c] >= now - m - Ttl - (IF due THEN Period ELSE 0)
    BY DEF Swept
  <2>5. CASE m = Period - 1
    <3>1. now' % Period = 0 /\ due' = TRUE /\ due = FALSE
      <4>1. now' % Period = 0
        BY <2>2, <2>5
      <4>2. ~due
        <5> HIDE DEF m
        <5> QED
          BY <1>1, <2>1, <2>5, Constants
      <4> QED
        BY <1>1, <2>1, <4>1, <4>2 DEF Types
    <3>2. \A c \in Clients : Known(c) => lastSeen'[c] >= now' - 0 - Ttl - Period
      BY <1>1, <2>1, <2>4, <2>5, <3>1, Constants
    <3> QED
      BY <2>3, <3>1, <3>2, Constants DEF Swept
  <2>6. CASE m # Period - 1
    <3>1. now' % Period = m + 1 /\ due' = due
      BY <1>1, <2>1, <2>2, <2>6, Constants DEF Types
    <3>2. \A c \in Clients : Known(c) => lastSeen'[c] >= now' - (m + 1) - Ttl - (IF due THEN Period ELSE 0)
      BY <1>1, <2>1, <2>4, Constants
    <3>3. due => m + 1 <= Stall
      BY <1>1, <2>1, Constants
    <3> QED
      BY <2>3, <3>1, <3>2, <3>3 DEF Swept
  <2> QED
    BY <2>5, <2>6
<1> QED
  BY <1>2, <1>3, <1>4, <1>5, <1>6 DEF Next, Stopped

\* The map is bounded by who was seen lately: a client that stays away is
\* gone a ttl, a period of cleanup and its delay later.
THEOREM IdleClientsGo == Spec => []IdleClientsForgotten
<1>1. ASSUME RInv, Swept PROVE IdleClientsForgotten
  <2> SUFFICES ASSUME NEW c \in Clients, Known(c) PROVE now - lastSeen[c] <= Ttl + Period + Stall
    BY DEF IdleClientsForgotten
  <2>1. now \in Nat /\ lastSeen[c] \in Nat /\ due \in BOOLEAN /\ now % Period \in 0 .. Period - 1
    BY <1>1, PeriodStep DEF RInv, Types
  <2>2. PICK m \in 0 .. Period - 1 :
          /\ due => m <= Stall
          /\ lastSeen[c] >= now - m - Ttl - (IF due THEN Period ELSE 0)
    BY <1>1, <2>1 DEF Swept
  <2>3. CASE due
    BY <2>1, <2>2, <2>3, Constants
  <2>4. CASE ~due
    BY <2>1, <2>2, <2>4, Constants
  <2> QED
    BY <2>3, <2>4
<1>2. Spec => []Swept
  BY InitSwept, NextSwept, RateLimiterInvariant, PTL DEF Spec
<1> QED
  BY <1>1, <1>2, RateLimiterInvariant, PTL

-----------------------------------------------------------------------------
(* Forgetting. *)

LEMMA LevelRange ==
  ASSUME RInv, NEW c \in Clients
  PROVE  Level(c) \in 0 .. Capacity
<1>1. CASE Known(c)
  <2>1. limiter[c] \in Requests
    BY <1>1 DEF RInv, Types, Known
  <2> QED
    BY <1>1, <2>1, HeldRange DEF Level
<1>2. CASE ~Known(c)
  BY <1>2, Constants DEF Level
<1> QED
  BY <1>1, <1>2

\* A full bucket that is put in the map is what a client without one has.
LEMMA TakeLevels ==
  ASSUME RInv, NEW r \in Requests, GetLimiter(r) \/ NewLimiter(r)
  PROVE  /\ \A c \in Clients : Level(c)' = Level(c)
         /\ \A x \in Requests : Verdict(x)' = Verdict(x)
<1>1. Types /\ ClientOf[r] \in Clients /\ pc[r] = "arriving" /\ pc' = [pc EXCEPT ![r] = "limited"] /\ now' = now
  BY RateLimiterAssumption DEF RInv, GetLimiter, NewLimiter, Take
<1>2. \A x \in Requests : Verdict(x)' = Verdict(x)
  BY <1>1 DEF Verdict, Types
<1>3. CASE GetLimiter(r)
  BY <1>1, <1>2, <1>3 DEF GetLimiter, bucketVars, Level, Held, Known
<1>4. CASE NewLimiter(r)
  <2>1. /\ ~Known(ClientOf[r]) /\ limiter' = [limiter EXCEPT ![ClientOf[r]] = r]
        /\ tokens' = [tokens EXCEPT ![r] = Capacity] /\ last' = [last EXCEPT ![r] = now]
    BY <1>4 DEF NewLimiter
  <2>2. ASSUME NEW c \in Clients PROVE Level(c)' = Level(c)
    <3>1. CASE c = ClientOf[r]
      <4>1. limiter'[c] = r /\ r # None /\ tokens'[r] = Capacity /\ last'[r] = now
        BY <1>1, <2>1, <3>1, RateLimiterAssumption DEF Types
      <4>2. Level(c)' = Capped(Capacity + now - now)
        BY <1>1, <4>1 DEF Level, Known, Held, Capped
      <4>3. Capped(Capacity + now - now) = Capacity
        BY <1>1, Constants DEF Capped, Types
      <4> QED
        BY <2>1, <3>1, <4>2, <4>3 DEF Level
    <3>2. CASE c # ClientOf[r]
      <4>1. limiter'[c] = limiter[c]
        BY <1>1, <2>1, <3>2 DEF Types
      <4>2. CASE Known(c)
        <5>1. limiter[c] \in Requests /\ limiter[c] # r
          BY <1>1, <4>2 DEF RInv, Types, Known, BucketOK
        <5>2. tokens'[limiter[c]] = tokens[limiter[c]] /\ last'[limiter[c]] = last[limiter[c]]
          BY <1>1, <2>1, <5>1 DEF Types
        <5> QED
          BY <1>1, <4>1, <4>2, <5>2 DEF Level, Known, Held, Capped
      <4>3. CASE ~Known(c)
        BY <4>1, <4>3 DEF Level, Known
      <4> QED
        BY <4>2, <4>3
    <3> QED
      BY <3>1, <3>2
  <2> QED
    BY <1>2, <2>2
<1> QED
  BY <1>3, <1>4

\* What cleanup removes is full.
LEMMA CleanupLevels ==
  ASSUME RInv, Cleanup
  PROVE  /\ \A c \in Clients : Level(c)' = Level(c)
         /\ \A x \in Requests : Verdict(x)' = Verdict(x)
<1>1. /\ UNCHANGED <<now, tokens, last, pc>>
      /\ limiter' = [c \in Clients |-> IF Idle(c) THEN None ELSE limiter[c]]
  BY DEF Cleanup, bucketVars, requestVars
<1>2. ASSUME NEW c \in Clients PROVE Level(c)' = Level(c)
  <2>1. CASE Idle(c)
    <3>1. Level(c) = Capacity
      BY <2>1, IdleIsFull DEF Level, Idle
    <3>2. Level(c)' = Capacity
      BY <1>1, <2>1 DEF Level, Known
    <3> QED
      BY <3>1, <3>2
  <2>2. CASE ~Idle(c)
    BY <1>1, <2>2 DEF Level, Known, Held, Capped
  <2> QED
    BY <2>1, <2>2
<1>3. \A x \in Requests : Verdict(x)' = Verdict(x)
  BY <1>1 DEF Verdict
<1> QED
  BY <1>2, <1>3

LEMMA TickLevels ==
  ASSUME RInv, Tick
  PROVE  /\ \A c \in Clients : Level(c)' = Capped(Level(c) + 1)
         /\ \A x \in Requests : Verdict(x)' = Verdict(x)
<1>1. now' = now + 1 /\ UNCHANGED <<limiter, tokens, last, pc>> /\ now \in Nat
  BY DEF Tick, mapVars, bucketVars, requestVars, RInv, Types
<1>2. ASSUME NEW c \in Clients PROVE Level(c)' = Capped(Level(c) + 1)
  <2>1. CASE Known(c)
    <3> DEFINE b == limiter[c]
    <3>1. b \in Requests
      BY <2>1 DEF RInv, Types, Known
    <3>2. /\ tokens[b] \in 0 .. Capacity /\ now - last[b] \in Nat /\ last[b] \in Nat
          /\ Held(b) = IF tokens[b] + (now - last[b]) > Capacity THEN Capacity
                       ELSE tokens[b] + (now - last[b])
      BY <3>1, HeldRange DEF RInv, Types
    <3>3. Level(c)' = Capped(tokens[b] + (now + 1) - last[b])
      BY <1>1, <2>1 DEF Level, Known, Held, Capped
    <3>4. Level(c) = Held(b)
      BY <2>1 DEF Level
    <3> HIDE DEF b
    <3> QED
      BY <1>1, <3>2, <3>3, <3>4, Constants DEF Capped
  <2>2. CASE ~Known(c)
    <3>1. Level(c)' = Capacity /\ Level(c) = Capacity
      BY <1>1, <2>2 DEF Level, Known
    <3> QED
      BY <3>1, Constants DEF Capped
  <2> QED
    BY <2>1, <2>2
<1>3. \A x \in Requests : Verdict(x)' = Verdict(x)
  BY <1>1 DEF Verdict
<1> QED
  BY <1>2, <1>3

LEMMA AllowLevels ==
  ASSUME RInv, NEW r \in Requests, Allow(r)
  PROVE  /\ ClientOf[r] \in Clients /\ Level(ClientOf[r]) >= Price
         /\ Level(ClientOf[r])' = Level(ClientOf[r]) - Price
         /\ \A c \in Clients : c # ClientOf[r] => Level(c)' = Level(c)
         /\ Verdict(r) = "pending" /\ Verdict(r)' = "admitted"
         /\ \A x \in Requests : x # r => Verdict(x)' = Verdict(x)
<1> DEFINE c == ClientOf[r]
           b == held[r]
<1>1. c \in Clients /\ Types /\ pc[r] = "limited" /\ Known(c) /\ b = limiter[c] /\ b \in Requests
  <2>1. c \in Clients /\ Types /\ pc[r] = "limited"
    BY RateLimiterAssumption DEF RInv, Allow
  <2>2. Known(c) /\ b = limiter[c]
    BY <2>1 DEF RInv, HoldOK
  <2> QED
    BY <2>1, <2>2 DEF Types, Known
<1>2. /\ tokens' = [tokens EXCEPT ![b] = Held(b) - Price] /\ last' = [last EXCEPT ![b] = now]
      /\ Held(b) >= Price /\ pc' = [pc EXCEPT ![r] = "admitted"] /\ UNCHANGED <<now, limiter>>
  BY DEF Allow, Decide, mapVars
<1>3. Level(c) = Held(b) /\ Held(b) \in 0 .. Capacity
  BY <1>1, HeldRange DEF Level
<1>4. Level(c)' = Held(b) - Price
  <2>1. tokens'[b] = Held(b) - Price /\ last'[b] = now
    BY <1>1, <1>2 DEF Types
  <2>2. Level(c)' = Capped(Held(b) - Price + now - now)
    BY <1>1, <1>2, <2>1 DEF Level, Known, Held, Capped
  <2>3. now \in Nat
    BY <1>1 DEF Types
  <2> HIDE DEF b
  <2>4. PICK h \in 0 .. Capacity : h = Held(b)
    BY <1>3
  <2>5. Capped(h - Price + now - now) = h - Price
    BY <2>3, Constants DEF Capped
  <2> QED
    BY <2>2, <2>4, <2>5
<1>5. ASSUME NEW d \in Clients, d # c PROVE Level(d)' = Level(d)
  <2>1. CASE Known(d)
    <3>1. limiter[d] \in Requests /\ limiter[d] # b
      BY <1>1, <1>5, <2>1 DEF RInv, Types, Known, BucketOK
    <3>2. tokens'[limiter[d]] = tokens[limiter[d]] /\ last'[limiter[d]] = last[limiter[d]]
      BY <1>1, <1>2, <3>1 DEF Types
    <3> QED
      BY <1>2, <2>1, <3>2 DEF Level, Known, Held, Capped
  <2>2. CASE ~Known(d)
    BY <1>2, <2>2 DEF Level, Known
  <2> QED
    BY <2>1, <2>2
<1>6. /\ Verdict(r) = "pending" /\ Verdict(r)' = "admitted"
      /\ \A x \in Requests : x # r => Verdict(x)' = Verdict(x)
  BY <1>1, <1>2 DEF Verdict, Types
<1> QED
  BY <1>1, <1>2, <1>3, <1>4, <1>5, <1>6

LEMMA RefuseLevels ==
  ASSUME RInv, NEW r \in Requests, TooManyRequests(r)
  PROVE  /\ Level(ClientOf[r]) < Price
         /\ \A c \in Clients : Level(c)' = Level(c)
         /\ Verdict(r) = "pending" /\ Verdict(r)' = "refused"
         /\ \A x \in Requests : x # r => Verdict(x)' = Verdict(x)
<1> DEFINE c == ClientOf[r]
<1>1. c \in Clients /\ Types /\ pc[r] = "limited" /\ Known(c) /\ held[r] = limiter[c]
  <2>1. c \in Clients /\ Types /\ pc[r] = "limited"
    BY RateLimiterAssumption DEF RInv, TooManyRequests
  <2> QED
    BY <2>1 DEF RInv, HoldOK
<1>2. /\ Held(held[r]) < Price /\ pc' = [pc EXCEPT ![r] = "refused"]
      /\ UNCHANGED <<now, limiter, tokens, last>>
  BY DEF TooManyRequests, Decide, mapVars, bucketVars
<1>3. Level(c) < Price
  BY <1>1, <1>2 DEF Level
<1>4. \A d \in Clients : Level(d)' = Level(d)
  BY <1>2 DEF Level, Known, Held, Capped
<1>5. /\ Verdict(r) = "pending" /\ Verdict(r)' = "refused"
      /\ \A x \in Requests : x # r => Verdict(x)' = Verdict(x)
  BY <1>1, <1>2 DEF Verdict, Types
<1> QED
  BY <1>3, <1>4, <1>5

LEMMA StutterLevels ==
  ASSUME UNCHANGED vars
  PROVE  /\ \A c \in Clients : Level(c)' = Level(c)
         /\ \A x \in Requests : Verdict(x)' = Verdict(x)
BY DEF vars, Level, Verdict, Known, Held, Capped

\* Every step of the limiter that forgets is one of the buckets that never
\* are, or changes nothing there.
LEMMA UnforgettingStep == RInv /\ [Next]_vars => [Unforgetting!Next]_(Unforgetting!vars)
<1> SUFFICES ASSUME RInv, [Next]_vars PROVE [Unforgetting!Next]_(Unforgetting!vars)
  OBVIOUS
<1> DEFINE lev == [c \in Clients |-> Level(c)]
           ver == [r \in Requests |-> Verdict(r)]
<1>1. ASSUME \A c \in Clients : Level(c)' = Level(c), \A x \in Requests : Verdict(x)' = Verdict(x)
      PROVE  [Unforgetting!Next]_(Unforgetting!vars)
  BY <1>1 DEF Unforgetting!vars
<1>2. CASE UNCHANGED vars
  BY <1>1, <1>2, StutterLevels
<1>3. ASSUME NEW r \in Requests, GetLimiter(r) \/ NewLimiter(r)
      PROVE  [Unforgetting!Next]_(Unforgetting!vars)
  BY <1>1, <1>3, TakeLevels
<1>4. CASE Cleanup
  BY <1>1, <1>4, CleanupLevels
<1>5. CASE Tick
  <2>1. lev' = [c \in Clients |-> Capped(lev[c] + 1)] /\ ver' = ver
    BY <1>5, TickLevels
  <2>2. Unforgetting!Tick
    BY <2>1 DEF Unforgetting!Tick, Unforgetting!Capped, Unforgetting!Capacity, Capped, Capacity
  <2> QED
    BY <2>2 DEF Unforgetting!Next
<1>6. ASSUME NEW r \in Requests, Allow(r) PROVE [Unforgetting!Next]_(Unforgetting!vars)
  <2>1. ver[r] = "pending" /\ ClientOf[r] \in Clients /\ lev[ClientOf[r]] >= Price
    BY <1>6, AllowLevels
  <2>2. ver' = [ver EXCEPT ![r] = "admitted"]
    BY <1>6, AllowLevels
  <2>3. lev' = [lev EXCEPT ![ClientOf[r]] = @ - Price]
    BY <1>6, AllowLevels
  <2>4. Unforgetting!Admit(r)
    BY <2>1, <2>2, <2>3 DEF Unforgetting!Admit
  <2> QED
    BY <2>4 DEF Unforgetting!Next
<1>7. ASSUME NEW r \in Requests, TooManyRequests(r) PROVE [Unforgetting!Next]_(Unforgetting!vars)
  <2>1. ver[r] = "pending" /\ lev[ClientOf[r]] < Price
    BY <1>7, RefuseLevels, RateLimiterAssumption
  <2>2. ver' = [ver EXCEPT ![r] = "refused"] /\ lev' = lev
    BY <1>7, RefuseLevels
  <2>3. Unforgetting!Refuse(r)
    BY <2>1, <2>2 DEF Unforgetting!Refuse
  <2> QED
    BY <2>3 DEF Unforgetting!Next
<1> QED
  BY <1>2, <1>3, <1>4, <1>5, <1>6, <1>7 DEF Next, Stopped

\* The limiter that forgets idle clients and lets requests use their buckets
\* outside the mutex implements one bucket per client, never forgotten.
THEOREM ForgettingUnseen == Spec => ForgettingIsInvisible
<1>1. Init => Unforgetting!Init
  BY DEF Init, Unforgetting!Init, Level, Verdict, Known, Capacity, Unforgetting!Capacity
<1> QED
  BY <1>1, UnforgettingStep, RateLimiterInvariant, PTL DEF Spec, ForgettingIsInvisible, Unforgetting!Spec

-----------------------------------------------------------------------------
(* The limit. *)

\* What a client's requests have taken since some time, and what is left in
\* its bucket, were in the bucket then or came in since.
Spent(c, from) ==
  Cardinality(AdmittedIn(c, from, now)) * Price + Level(c) <= Capacity + (now - from)

WInv ==
  /\ \A c \in Clients : \A from \in 0 .. now : Spent(c, from)
  /\ WindowBound

LEMMA AdmittedFinite ==
  ASSUME NEW c, NEW from, NEW to
  PROVE  /\ IsFiniteSet(AdmittedIn(c, from, to)) /\ Cardinality(AdmittedIn(c, from, to)) \in Nat
         /\ Cardinality(AdmittedIn(c, from, to)) * Price \in Nat
<1>1. AdmittedIn(c, from, to) \in SUBSET Requests
  BY DEF AdmittedIn
<1>2. IsFiniteSet(AdmittedIn(c, from, to))
  BY <1>1, RateLimiterAssumption, FS_Subset
<1>3. Cardinality(AdmittedIn(c, from, to)) \in Nat
  BY <1>2, FS_CardinalityType
<1> QED
  BY <1>2, <1>3, Constants

\* The past is not rewritten: a step admits at its own time only.
LEMMA PastAdmissionsKept ==
  ASSUME RInv, [Next]_vars, NEW c \in Clients, NEW from \in Nat, NEW to \in Nat, to < now'
  PROVE  AdmittedIn(c, from, to)' = AdmittedIn(c, from, to)
<1> SUFFICES ASSUME NEW x \in Requests
             PROVE  (pc'[x] = "admitted" /\ at'[x] \in from .. to) <=> (pc[x] = "admitted" /\ at[x] \in from .. to)
  BY DEF AdmittedIn
<1>1. Types /\ now \in Nat
  BY DEF RInv, Types
<1>2. CASE UNCHANGED <<pc, at>>
  BY <1>2
<1>3. ASSUME NEW r \in Requests, GetLimiter(r) \/ NewLimiter(r)
      PROVE  (pc'[x] = "admitted" /\ at'[x] \in from .. to) <=> (pc[x] = "admitted" /\ at[x] \in from .. to)
  <2>1. pc[r] = "arriving" /\ pc' = [pc EXCEPT ![r] = "limited"] /\ at' = [at EXCEPT ![r] = now]
    BY <1>3 DEF GetLimiter, NewLimiter, Take
  <2>2. CASE x = r
    BY <1>1, <2>1, <2>2 DEF Types
  <2>3. CASE x # r
    BY <1>1, <2>1, <2>3 DEF Types
  <2> QED
    BY <2>2, <2>3
<1>4. ASSUME NEW r \in Requests, Allow(r) \/ TooManyRequests(r)
      PROVE  (pc'[x] = "admitted" /\ at'[x] \in from .. to) <=> (pc[x] = "admitted" /\ at[x] \in from .. to)
  <2>1. PICK v : pc[r] = "limited" /\ pc' = [pc EXCEPT ![r] = v] /\ at' = [at EXCEPT ![r] = now] /\ now' = now
    BY <1>4 DEF Allow, TooManyRequests, Decide
  <2>2. CASE x = r
    <3>1. at'[x] = now /\ at'[x] \notin from .. to /\ pc[x] # "admitted"
      BY <1>1, <2>1, <2>2 DEF Types
    <3> QED
      BY <3>1
  <2>3. CASE x # r
    BY <1>1, <2>1, <2>3 DEF Types
  <2> QED
    BY <2>2, <2>3
<1> QED
  BY <1>2, <1>3, <1>4 DEF Next, Cleanup, Tick, Stopped, requestVars, vars

\* Steps that admit nobody and leave the clock alone.
LEMMA QuietSpent ==
  ASSUME RInv, NEW c \in Clients, NEW from \in 0 .. now, Spent(c, from), now' = now, Level(c)' = Level(c),
         \A x \in Requests : Verdict(x)' = "admitted" => Verdict(x) = "admitted" /\ at'[x] = at[x],
         \A x \in Requests : Verdict(x) = "admitted" => Verdict(x)' = "admitted"
  PROVE  Spent(c, from)'
<1>1. \A x \in Requests : (pc[x] = "admitted") <=> (Verdict(x) = "admitted")
  BY DEF Verdict
<1>2. \A x \in Requests : (pc'[x] = "admitted") <=> (Verdict(x)' = "admitted")
  BY DEF Verdict
<1>3. AdmittedIn(c, from, now)' = AdmittedIn(c, from, now)
  BY <1>1, <1>2 DEF AdmittedIn
<1> QED
  BY <1>3 DEF Spent

LEMMA TickSpent ==
  ASSUME RInv, Tick, NEW c \in Clients, NEW from \in 0 .. now',
         \A f \in 0 .. now : Spent(c, f)
  PROVE  Spent(c, from)'
<1>1. Types /\ Past /\ now \in Nat /\ now' = now + 1 /\ UNCHANGED <<pc, at>>
  BY DEF RInv, Types, Tick, requestVars
<1>2. Level(c) \in 0 .. Capacity /\ Level(c)' = Capped(Level(c) + 1)
  BY LevelRange, TickLevels
<1>3. PICK l \in 0 .. Capacity : l = Level(c)
  BY <1>2
<1>4. Level(c)' \in 0 .. Capacity /\ Level(c)' <= l + 1
  BY <1>2, <1>3, Constants DEF Capped
<1>5. CASE from = now + 1
  <2>1. AdmittedIn(c, from, now)' = {}
    BY <1>1, <1>5 DEF AdmittedIn, Types, Past
  <2>2. Cardinality(AdmittedIn(c, from, now)') * Price = 0
    BY <2>1, FS_EmptySet, Constants
  <2>3. PICK k \in 0 .. Capacity : k = Level(c)'
    BY <1>4
  <2>4. 0 + k <= Capacity + (now' - from)
    BY <1>1, <1>5, Constants
  <2> QED
    BY <2>2, <2>3, <2>4 DEF Spent
<1>6. CASE from # now + 1
  <2>1. from \in 0 .. now
    BY <1>1, <1>6
  <2>2. AdmittedIn(c, from, now)' = AdmittedIn(c, from, now)
    BY <1>1, <2>1 DEF AdmittedIn, Types, Past
  <2>3. PICK n \in Nat : n = Cardinality(AdmittedIn(c, from, now)) * Price
    BY AdmittedFinite
  <2>4. PICK k \in 0 .. Capacity : k = Level(c)'
    BY <1>4
  <2>5. n + l <= Capacity + (now - from)
    BY <1>3, <2>1, <2>3 DEF Spent
  <2>6. n + k <= Capacity + (now' - from)
    BY <1>1, <1>3, <1>4, <2>1, <2>4, <2>5, Constants
  <2>7. Cardinality(AdmittedIn(c, from, now)') * Price = n
    BY <2>2, <2>3
  <2> QED
    BY <2>4, <2>6, <2>7 DEF Spent
<1> QED
  BY <1>5, <1>6

LEMMA AllowSpent ==
  ASSUME RInv, NEW r \in Requests, Allow(r), NEW c \in Clients, NEW from \in 0 .. now, Spent(c, from)
  PROVE  Spent(c, from)'
<1> DEFINE A == AdmittedIn(c, from, now)
<1>1. /\ Types /\ Past /\ now \in Nat /\ pc[r] = "limited" /\ pc' = [pc EXCEPT ![r] = "admitted"]
      /\ at' = [at EXCEPT ![r] = now] /\ now' = now
  BY DEF RInv, Types, Allow, Decide
<1>2. CASE c # ClientOf[r]
  <2>1. A' = A /\ Level(c)' = Level(c)
    BY <1>1, <1>2, AllowLevels DEF AdmittedIn, Types
  <2> QED
    BY <1>1, <2>1 DEF Spent
<1>3. CASE c = ClientOf[r]
  <2>1. A' = A \cup {r} /\ r \notin A
    BY <1>1, <1>3 DEF AdmittedIn, Types
  <2>2. IsFiniteSet(A) /\ Cardinality(A) \in Nat
    BY AdmittedFinite
  <2>3. Cardinality(A') = Cardinality(A) + 1
    BY <2>1, <2>2, FS_AddElement
  <2>4. PICK n \in Nat : n = Cardinality(A)
    BY <2>2
  <2>5. PICK l \in 0 .. Capacity : l = Level(c)
    BY LevelRange
  <2>6. Level(c)' = l - Price
    BY <1>3, <2>5, AllowLevels
  <2>7. (n + 1) * Price = n * Price + Price /\ n * Price \in Nat
    BY Constants
  <2>8. n * Price + l <= Capacity + (now - from)
    BY <2>4, <2>5 DEF Spent
  <2>9. (n + 1) * Price + (l - Price) <= Capacity + (now - from)
    BY <1>1, <2>7, <2>8, Constants
  <2> QED
    BY <1>1, <2>3, <2>4, <2>6, <2>9 DEF Spent
<1> QED
  BY <1>2, <1>3

LEMMA InitWInv == Init => WInv
<1> SUFFICES ASSUME Init PROVE WInv
  OBVIOUS
<1>1. \A c, from, to : AdmittedIn(c, from, to) = {}
  BY DEF Init, AdmittedIn
<1>2. \A c, from, to : Cardinality(AdmittedIn(c, from, to)) * Price = 0
  BY <1>1, FS_EmptySet, Constants
<1>3. \A c \in Clients : Level(c) = Capacity
  BY DEF Init, Level, Known
<1>4. now = 0 /\ 0 .. now = {0}
  BY DEF Init
<1>5. \A c \in Clients : \A from \in 0 .. now : Spent(c, from)
  BY <1>2, <1>3, <1>4, Constants DEF Spent
<1>6. WindowBound
  BY <1>2, <1>4, Constants DEF WindowBound
<1> QED
  BY <1>5, <1>6 DEF WInv

\* The same of the next state.
LevelsInRange == \A c \in Clients : Level(c) \in 0 .. Capacity

LEMMA NextLevels == RInv' => LevelsInRange'
<1>1. RInv => LevelsInRange
  BY LevelRange DEF LevelsInRange
<1> QED
  BY <1>1, PTL

LEMMA NextWInv == RInv /\ RInv' /\ WInv /\ [Next]_vars => WInv'
<1> SUFFICES ASSUME RInv, RInv', WInv, [Next]_vars PROVE WInv'
  OBVIOUS
<1>1. Types /\ now \in Nat /\ now' \in Nat /\ (now' = now \/ now' = now + 1)
  <2>1. now \in Nat /\ now' \in Nat /\ Types
    BY DEF RInv, Types
  <2> QED
    BY <2>1 DEF Next, GetLimiter, NewLimiter, Take, Allow, TooManyRequests, Decide, Cleanup, Tick, Stopped, vars
<1>2. ASSUME NEW c \in Clients, NEW from \in 0 .. now' PROVE Spent(c, from)'
  <2>1. \A f \in 0 .. now : Spent(c, f)
    BY DEF WInv
  <2>2. CASE Tick
    BY <2>1, <2>2, TickSpent
  <2>3. ASSUME NEW r \in Requests, Allow(r) PROVE Spent(c, from)'
    <3>1. now' = now
      BY <2>3 DEF Allow, Decide
    <3> QED
      BY <2>1, <2>3, <3>1, AllowSpent
  <2>4. ASSUME NEW r \in Requests, TooManyRequests(r) PROVE Spent(c, from)'
    <3>1. /\ now' = now /\ at' = [at EXCEPT ![r] = now] /\ Level(c)' = Level(c) /\ Verdict(r)' = "refused"
          /\ Verdict(r) = "pending" /\ \A x \in Requests : x # r => Verdict(x)' = Verdict(x)
      BY <2>4, RefuseLevels DEF TooManyRequests, Decide
    <3>2. \A x \in Requests : x # r => at'[x] = at[x]
      BY <1>1, <3>1 DEF Types
    <3>3. /\ \A x \in Requests : Verdict(x)' = "admitted" => Verdict(x) = "admitted" /\ at'[x] = at[x]
          /\ \A x \in Requests : Verdict(x) = "admitted" => Verdict(x)' = "admitted"
      BY <3>1, <3>2
    <3> QED
      BY <2>1, <3>1, <3>3, QuietSpent
  <2>5. ASSUME NEW r \in Requests, GetLimiter(r) \/ NewLimiter(r) PROVE Spent(c, from)'
    <3>1. now' = now /\ at' = [at EXCEPT ![r] = now] /\ Level(c)' = Level(c) /\ pc[r] = "arriving"
      BY <2>5, TakeLevels DEF GetLimiter, NewLimiter, Take
    <3>2. \A x \in Requests : x # r => at'[x] = at[x]
      BY <1>1, <3>1 DEF Types
    <3>3. \A x \in Requests : Verdict(x)' = Verdict(x)
      BY <2>5, TakeLevels
    <3>4. Verdict(r) = "pending"
      BY <3>1 DEF Verdict
    <3>5. /\ \A x \in Requests : Verdict(x)' = "admitted" => Verdict(x) = "admitted" /\ at'[x] = at[x]
          /\ \A x \in Requests : Verdict(x) = "admitted" => Verdict(x)' = "admitted"
      BY <3>2, <3>3, <3>4
    <3> QED
      BY <2>1, <3>1, <3>5, QuietSpent
  <2>6. CASE Cleanup
    <3>1. now' = now /\ at' = at /\ Level(c)' = Level(c) /\ \A x \in Requests : Verdict(x)' = Verdict(x)
      BY <2>6, CleanupLevels DEF Cleanup, requestVars
    <3> QED
      BY <2>1, <3>1, QuietSpent
  <2>7. CASE UNCHANGED vars
    <3>1. now' = now /\ at' = at /\ Level(c)' = Level(c) /\ \A x \in Requests : Verdict(x)' = Verdict(x)
      BY <2>7, StutterLevels DEF vars
    <3> QED
      BY <2>1, <3>1, QuietSpent
  <2> QED
    BY <2>2, <2>3, <2>4, <2>5, <2>6, <2>7 DEF Next, Stopped
<1>3. ASSUME NEW c \in Clients, NEW from \in 0 .. now', NEW to \in 0 .. now', from <= to
      PROVE  Cardinality(AdmittedIn(c, from, to)') * Price <= Capacity + (to - from)
  <2>1. CASE to = now'
    <3>1. PICK n \in Int, l \in Int :
            n = Cardinality(AdmittedIn(c, from, now)') * Price /\ l = Level(c)' /\ l >= 0
      <4>1. Level(c)' \in 0 .. Capacity
        BY NextLevels DEF LevelsInRange
      <4>2. Cardinality(AdmittedIn(c, from, now)') * Price \in Nat
        <5>1. AdmittedIn(c, from, now)' \in SUBSET Requests
          BY DEF AdmittedIn
        <5>2. IsFiniteSet(AdmittedIn(c, from, now)')
          BY <5>1, RateLimiterAssumption, FS_Subset
        <5>3. Cardinality(AdmittedIn(c, from, now)') \in Nat
          BY <5>2, FS_CardinalityType
        <5> QED
          BY <5>3, Constants
      <4> QED
        BY <4>1, <4>2, Constants
    <3>2. n + l <= Capacity + (now' - from)
      BY <1>2, <3>1 DEF Spent
    <3>3. AdmittedIn(c, from, to)' = AdmittedIn(c, from, now)'
      BY <2>1 DEF AdmittedIn
    <3> QED
      BY <1>1, <2>1, <3>1, <3>2, <3>3, Constants
  <2>2. CASE to # now'
    <3>1. to < now' /\ from \in 0 .. now /\ to \in 0 .. now
      BY <1>1, <1>3, <2>2
    <3>2. AdmittedIn(c, from, to)' = AdmittedIn(c, from, to)
      BY <3>1, PastAdmissionsKept
    <3> QED
      BY <1>3, <3>1, <3>2 DEF WInv, WindowBound
  <2> QED
    BY <2>1, <2>2
<1> QED
  BY <1>2, <1>3 DEF WInv, WindowBound

\* The limit: in no interval of time are more requests of a client admitted
\* than a burst and what the rate adds, whatever cleanup removes.
THEOREM LimitHolds == Spec => []WindowBound
<1>1. WInv => WindowBound
  BY DEF WInv
<1> QED
  BY <1>1, InitWInv, NextWInv, RateLimiterInvariant, PTL DEF Spec
=============================================================================
