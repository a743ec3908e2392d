---------------------------- MODULE ListingProofs ----------------------------
(***************************************************************************)
(* What a client that reads page after page may rely on, for any number of *)
(* entries, any limits and offsets and any width of the integer.           *)
(*                                                                         *)
(* Entries are only added, so the number of entries in front of one        *)
(* (Ahead) only grows.  An entry not yet seen therefore stays behind the   *)
(* offset (Skipping), and one that was seen can come back behind it only   *)
(* by a commit in front of it, one entry for each commit (Moved).          *)
(***************************************************************************)
EXTENDS Listing, FiniteSetTheorems, TLAPS

Types ==
  /\ clock \in Nat
  /\ at \in [Entries -> Nat]
  /\ stage \in [Entries -> {"none", "open", "committed"}]
  /\ phase \in {"idle", "reading", "done", "failed"}
  /\ {limit, from, offset, added} \subseteq Nat
  /\ seen \in [Entries -> Nat]

\* What the phase of the client says.
Started ==
  /\ phase = "idle" => offset = 0 /\ from = 0 /\ \A e \in Entries : seen[e] = 0
  /\ present \subseteq Committed
  /\ \A e \in Entries : seen[e] > 0 => e \in Committed

\* The entries listed before e, ties aside.
Ahead(e) == {d \in Committed : at[d] > at[e]}

\* What the client has not seen is not behind it.
Skipping ==
  phase = "reading" /\ from = 0 =>
    \A e \in present \cap Untied :
      seen[e] > 0 \/ Cardinality(Ahead(e)) >= offset % (2 * Half)

\* Who starts beyond the last entry stays there.
Beyond == from >= Cardinality(Entries) /\ from < 2 * Half => offset = from

\* The entries the client has seen and is about to be sent again.
Moved == {e \in Entries : seen[e] > 0 /\ Cardinality(Ahead(e)) >= offset}

\* Entries sent again, and those about to be, are no more than the commits.
Repeating ==
  /\ IsFiniteSet(Repeats)
  /\ Committed = Untied /\ offset < Half =>
       /\ Cardinality(Repeats) <= added
       /\ phase = "reading" => Cardinality(Repeats) + Cardinality(Moved) <= added

LInv ==
  /\ Types /\ Started
  /\ Skipping /\ NothingMissed
  /\ Beyond /\ TruncationOnlyBeyond
  /\ Repeating

-----------------------------------------------------------------------------
(* Numbers. *)

LEMMA MinOfTwo ==
  ASSUME NEW a \in Nat, NEW b \in Nat
  PROVE  Min({a, b}) = IF a <= b THEN a ELSE b
<1>1. \E x \in {a, b} : \A y \in {a, b} : x <= y
  OBVIOUS
<1>2. Min({a, b}) \in {a, b} /\ \A y \in {a, b} : Min({a, b}) <= y
  BY <1>1 DEF Min
<1> QED
  BY <1>2

\* A page has room for a row, whatever the client asks for.
LEMMA LimitPositive ==
  ASSUME NEW v \in Nat
  PROVE  EffectiveLimit(v) \in Nat \ {0}
<1>1. MaxLimit \in Nat \ {0} /\ DefaultLimit \in Nat \ {0}
  BY ListingAssumption
<1>2. Min({v, MaxLimit}) = IF v <= MaxLimit THEN v ELSE MaxLimit
  BY <1>1, MinOfTwo
<1> QED
  BY <1>1, <1>2 DEF EffectiveLimit

\* What is known of a remainder.
LEMMA Remainder ==
  ASSUME NEW v \in Nat, NEW m \in Nat \ {0}
  PROVE  /\ v % m \in Nat /\ v % m < m /\ v % m <= v
         /\ v < m => v % m = v
<1>1. v % m \in 0 .. m - 1 /\ v \div m \in Nat /\ v = m * (v \div m) + (v % m)
  OBVIOUS
<1>2. v \div m >= 1 => m * (v \div m) >= m
  BY <1>1
<1>3. m * (v \div m) >= 0
  BY <1>1
<1>4. v < m => v \div m = 0
  BY <1>1, <1>2
<1> QED
  BY <1>1, <1>3, <1>4

\* Counting on adds at most what is counted.
LEMMA RemainderOfSum ==
  ASSUME NEW v \in Nat, NEW p \in Nat, NEW m \in Nat \ {0}
  PROVE  ((v + p) % m) <= (v % m) + p
<1> DEFINE q == v \div m
           s == (v + p) \div m
           r == v % m
           t == (v + p) % m
<1>1. q \in Nat /\ r \in 0 .. m - 1 /\ v = m * q + r
  OBVIOUS
<1>2. s \in Nat /\ t \in 0 .. m - 1 /\ v + p = m * s + t
  OBVIOUS
<1> HIDE DEF q, s, r, t
<1>3. CASE s >= q
  <2>1. m * s >= m * q
    BY <1>1, <1>2, <1>3
  <2>2. m * s \in Int /\ m * q \in Int
    BY <1>1, <1>2
  <2> QED
    BY <1>1, <1>2, <2>1, <2>2 DEF r, t
<1>4. CASE s < q
  <2>1. s + 1 <= q
    BY <1>1, <1>2, <1>4
  <2>2. m * (s + 1) <= m * q
    BY <1>1, <1>2, <2>1
  <2>3. m * (s + 1) = m * s + m
    BY <1>2
  <2>4. m * s \in Int /\ m * q \in Int
    BY <1>1, <1>2
  <2> QED
    BY <1>1, <1>2, <2>2, <2>3, <2>4
<1> QED
  BY <1>1, <1>2, <1>3, <1>4

\* The offset the query gets.
LEMMA Truncated ==
  ASSUME NEW v \in Nat
  PROVE  /\ ToInt32(v) \in Int
         /\ ToInt32(v) >= 0 => ToInt32(v) = v % (2 * Half)
         /\ ToInt32(v) < 0 => v >= Half
         /\ v < Half => ToInt32(v) = v
         /\ v < 2 * Half /\ ToInt32(v) >= 0 => ToInt32(v) = v
<1>1. Half \in Nat \ {0} /\ 2 * Half \in Nat \ {0}
  BY ListingAssumption
<1> DEFINE low == v % (2 * Half)
<1>2. /\ low \in Nat /\ low < 2 * Half /\ low <= v
      /\ v < 2 * Half => low = v
  BY <1>1, Remainder
<1>3. ToInt32(v) = IF low < Half THEN low ELSE low - 2 * Half
  BY DEF ToInt32
<1> HIDE DEF low
<1>4. /\ ToInt32(v) \in Int
      /\ ToInt32(v) >= 0 => ToInt32(v) = low
      /\ ToInt32(v) < 0 => v >= Half
      /\ v < Half => ToInt32(v) = v
      /\ v < 2 * Half /\ ToInt32(v) >= 0 => ToInt32(v) = v
  BY <1>1, <1>2, <1>3
<1> QED
  BY <1>4 DEF low

-----------------------------------------------------------------------------
(* The query. *)

LEMMA CommittedFinite ==
  /\ IsFiniteSet(Committed) /\ Cardinality(Committed) \in Nat
  /\ Cardinality(Entries) \in Nat /\ Cardinality(Committed) <= Cardinality(Entries)
<1>1. Committed \in SUBSET Entries
  BY DEF Committed
<1> QED
  BY <1>1, ListingAssumption, FS_Subset, FS_CardinalityType

\* Every set of committed entries is finite.
LEMMA FiniteRows ==
  ASSUME NEW S \in SUBSET Committed
  PROVE  IsFiniteSet(S) /\ Cardinality(S) \in Nat
BY CommittedFinite, FS_Subset, FS_CardinalityType

\* S is what OFFSET k skipped to get page P.
Cut(S, P, k) ==
  /\ S \in SUBSET Committed /\ P \in SUBSET (Committed \ S)
  /\ Cardinality(S) <= k
  /\ S # Committed => Cardinality(S) = k
  /\ P = {} => S = Committed
  /\ \A d \in S, e \in Committed \ S : at[d] >= at[e]
  /\ \A d \in P, e \in Committed \ (S \cup P) : at[d] >= at[e]

LEMMA PageIsCut ==
  ASSUME NEW k \in Nat, NEW n \in Nat \ {0}, NEW P \in Pages(k, n)
  PROVE  \E S : Cut(S, P, k)
<1>1. PICK S \in Heads(Committed, k) : P \in Heads(Committed \ S, n)
  BY DEF Pages
<1>2. /\ S \in SUBSET Committed /\ Cardinality(S) = Min({k, Cardinality(Committed)})
      /\ \A d \in S, e \in Committed \ S : at[d] >= at[e]
  BY <1>1 DEF Heads, Precedes
<1>3. /\ P \in SUBSET (Committed \ S) /\ Cardinality(P) = Min({n, Cardinality(Committed \ S)})
      /\ \A d \in P, e \in (Committed \ S) \ P : at[d] >= at[e]
  BY <1>1 DEF Heads, Precedes
<1>4. Cardinality(S) <= k /\ (Cardinality(S) = k \/ Cardinality(S) = Cardinality(Committed))
  BY <1>2, CommittedFinite, MinOfTwo
<1>5. S # Committed => Cardinality(S) = k
  BY <1>2, <1>4, CommittedFinite, FS_Subset
<1>6. P = {} => S = Committed
  <2>1. IsFiniteSet(Committed \ S) /\ Cardinality(Committed \ S) \in Nat
    BY <1>2, FiniteRows
  <2>2. P = {} => Cardinality(P) = 0
    BY FS_EmptySet
  <2>3. P = {} => Cardinality(Committed \ S) = 0
    BY <1>3, <2>1, <2>2, MinOfTwo
  <2>4. P = {} => Committed \ S = {}
    BY <2>1, <2>3, FS_EmptySet
  <2> QED
    BY <1>2, <2>4
<1>7. \A d \in P, e \in Committed \ (S \cup P) : at[d] >= at[e]
  BY <1>3
<1> QED
  BY <1>2, <1>3, <1>4, <1>5, <1>6, <1>7 DEF Cut

LEMMA AheadFinite ==
  ASSUME NEW e
  PROVE  Ahead(e) \in SUBSET Committed /\ IsFiniteSet(Ahead(e)) /\ Cardinality(Ahead(e)) \in Nat
<1>1. Ahead(e) \in SUBSET Committed
  BY DEF Ahead
<1> QED
  BY <1>1, FiniteRows

\* An untied entry that is not skipped has all that were in front of it, k of
\* them; one that is skipped has less than k.
LEMMA SkippedAreAhead ==
  ASSUME Types, NEW S, NEW P, NEW k \in Nat, Cut(S, P, k), NEW e \in Untied
  PROVE  /\ e \notin S => S \subseteq Ahead(e) /\ Cardinality(S) = k /\ Cardinality(Ahead(e)) >= k
         /\ e \in S => Cardinality(Ahead(e)) < k
<1>1. e \in Committed /\ \A d \in Committed \ {e} : at[d] # at[e]
  BY DEF Untied
<1>2. \A d \in Committed : at[d] \in Nat
  BY DEF Types, Committed
<1>3. S \in SUBSET Committed /\ IsFiniteSet(S) /\ Cardinality(S) \in Nat
  BY FiniteRows DEF Cut
<1>4. ASSUME e \notin S PROVE S \subseteq Ahead(e) /\ Cardinality(S) = k /\ Cardinality(Ahead(e)) >= k
  <2>1. S \subseteq Ahead(e)
    BY <1>1, <1>2, <1>3, <1>4 DEF Ahead, Cut
  <2>2. Cardinality(S) = k
    BY <1>1, <1>4 DEF Cut
  <2>3. Cardinality(S) <= Cardinality(Ahead(e))
    BY <2>1, AheadFinite, FS_Subset
  <2> QED
    BY <2>1, <2>2, <2>3, AheadFinite
<1>5. ASSUME e \in S PROVE Cardinality(Ahead(e)) < k
  <2>1. Ahead(e) \subseteq S \ {e}
    BY <1>1, <1>2, <1>3, <1>5 DEF Ahead, Cut
  <2>2. IsFiniteSet(S \ {e}) /\ Cardinality(S \ {e}) = Cardinality(S) - 1
    BY <1>3, <1>5, FS_RemoveElement
  <2>3. Cardinality(Ahead(e)) <= Cardinality(S \ {e})
    BY <2>1, <2>2, FS_Subset
  <2>4. Cardinality(S) <= k
    BY DEF Cut
  <2> QED
    BY <1>3, <2>2, <2>3, <2>4, AheadFinite
<1> QED
  BY <1>4, <1>5

\* The rows skipped and the rows of the page together.
LEMMA CutSizes ==
  ASSUME NEW S, NEW P, NEW k \in Nat, Cut(S, P, k)
  PROVE  /\ IsFiniteSet(S \cup P) /\ IsFiniteSet(P) /\ Cardinality(P) \in Nat /\ Cardinality(S) \in Nat
         /\ Cardinality(S \cup P) = Cardinality(S) + Cardinality(P)
<1>1. /\ IsFiniteSet(S) /\ Cardinality(S) \in Nat /\ IsFiniteSet(P) /\ Cardinality(P) \in Nat
      /\ S \cap P = {}
  BY FiniteRows DEF Cut
<1> QED
  BY <1>1, FS_Union, FS_EmptySet

\* An untied entry behind the page has the page in front of it too.
LEMMA PageIsAhead ==
  ASSUME Types, NEW S, NEW P, NEW k \in Nat, Cut(S, P, k), NEW e \in Untied, e \notin S \cup P
  PROVE  Cardinality(Ahead(e)) >= k + Cardinality(P)
<1>1. e \in Committed /\ \A d \in Committed \ {e} : at[d] # at[e]
  BY DEF Untied
<1>2. \A d \in Committed : at[d] \in Nat
  BY DEF Types, Committed
<1>3. S \subseteq Ahead(e) /\ Cardinality(S) = k
  BY SkippedAreAhead
<1>4. P \subseteq Ahead(e)
  BY <1>1, <1>2 DEF Cut, Ahead
<1>5. Cardinality(S \cup P) <= Cardinality(Ahead(e))
  BY <1>3, <1>4, AheadFinite, FS_Subset
<1> QED
  BY <1>3, <1>5, CutSizes, AheadFinite

\* An untied entry of the page has no others in front of it than the rows
\* skipped and the rest of the page.
LEMMA PageIsNext ==
  ASSUME Types, NEW S, NEW P, NEW k \in Nat, Cut(S, P, k), NEW e \in Untied, e \in P
  PROVE  Cardinality(Ahead(e)) < k + Cardinality(P)
<1>1. e \in Committed /\ \A d \in Committed : at[d] \in Nat
  BY DEF Types, Committed, Untied
<1>2. Ahead(e) \subseteq (S \cup P) \ {e}
  BY <1>1 DEF Cut, Ahead
<1>3. /\ IsFiniteSet((S \cup P) \ {e})
      /\ Cardinality((S \cup P) \ {e}) = Cardinality(S \cup P) - 1
  BY CutSizes, FS_RemoveElement
<1>4. Cardinality(Ahead(e)) <= Cardinality((S \cup P) \ {e})
  BY <1>2, <1>3, FS_Subset
<1>5. Cardinality(S) <= k
  BY DEF Cut
<1>6. /\ Cardinality(S) \in Nat /\ Cardinality(P) \in Nat /\ Cardinality(Ahead(e)) \in Nat
      /\ Cardinality(S \cup P) = Cardinality(S) + Cardinality(P)
  BY CutSizes, AheadFinite
<1> QED
  BY <1>3, <1>4, <1>5, <1>6

-----------------------------------------------------------------------------
(* Steps. *)

LEMMA InitLInv == Init => LInv
<1> SUFFICES ASSUME Init PROVE LInv
  OBVIOUS
<1>1. Types /\ Started
  BY DEF Init, Types, Started, Committed
<1>2. Skipping /\ NothingMissed /\ Beyond /\ TruncationOnlyBeyond
  BY DEF Init, Skipping, NothingMissed, Beyond, TruncationOnlyBeyond
<1>3. Repeats = {}
  BY DEF Init, Repeats
<1>4. Repeating
  BY <1>3, FS_EmptySet DEF Repeating, Init
<1> QED
  BY <1>1, <1>2, <1>4 DEF LInv

\* Without a commit the listing stays as it is.
LEMMA RowsFixed ==
  ASSUME UNCHANGED <<at, stage>>
  PROVE  Committed' = Committed /\ Untied' = Untied /\ \A e : Ahead(e)' = Ahead(e)
<1>1. Committed' = Committed
  BY DEF Committed
<1> QED
  BY <1>1 DEF Untied, Ahead

\* Neither does a step of another transaction concern the client.
LEMMA SameListing ==
  ASSUME LInv, Types', UNCHANGED clientVars, Committed' = Committed, Untied' = Untied,
         \A e \in Committed : Ahead(e)' = Ahead(e)
  PROVE  LInv'
<1> USE DEF clientVars
<1>1. Started'
  BY DEF LInv, Started
<1>2. Skipping' /\ NothingMissed'
  BY DEF LInv, Started, Skipping, NothingMissed
<1>3. Beyond' /\ TruncationOnlyBeyond'
  BY DEF LInv, Beyond, TruncationOnlyBeyond
<1>4. Moved' = Moved /\ Repeats' = Repeats
  BY DEF LInv, Started, Moved, Repeats
<1>5. Repeating'
  BY <1>4 DEF LInv, Repeating
<1> QED
  BY <1>1, <1>2, <1>3, <1>5 DEF LInv

LEMMA BeginLInv ==
  ASSUME LInv, NEW e \in Entries, Begin(e)
  PROVE  LInv'
<1>1. Types'
  BY DEF LInv, Types, Begin, clientVars
<1>2. e \notin Committed
  BY DEF Begin, Committed
<1>3. Committed' = Committed
  BY DEF LInv, Types, Begin, Committed
<1>4. \A x \in Committed : at'[x] = at[x]
  BY <1>2 DEF LInv, Types, Begin, Committed
<1>5. Untied' = Untied
  BY <1>3, <1>4 DEF Untied
<1>6. \A x \in Committed : Ahead(x)' = Ahead(x)
  BY <1>3, <1>4 DEF Ahead
<1>7. UNCHANGED clientVars
  BY DEF Begin
<1> QED
  BY <1>1, <1>3, <1>5, <1>6, <1>7, SameListing

\* A commit puts at most one entry in front of another, and makes no tie go.
LEMMA CommitRows ==
  ASSUME LInv, NEW d \in Entries, Commit(d)
  PROVE  /\ d \notin Committed /\ Committed' = Committed \cup {d}
         /\ \A e \in Untied' : e = d \/ e \in Untied
         /\ \A e \in Committed :
              /\ Ahead(e)' = IF at[d] > at[e] THEN Ahead(e) \cup {d} ELSE Ahead(e)
              /\ Cardinality(Ahead(e)') = Cardinality(Ahead(e)) + IF at[d] > at[e] THEN 1 ELSE 0
<1>1. d \notin Committed /\ Committed' = Committed \cup {d} /\ at' = at
  BY DEF LInv, Types, Commit, Committed
<1>2. \A e \in Untied' : e = d \/ e \in Untied
  BY <1>1 DEF Untied
<1>3. ASSUME NEW e \in Committed
      PROVE  /\ Ahead(e)' = IF at[d] > at[e] THEN Ahead(e) \cup {d} ELSE Ahead(e)
             /\ Cardinality(Ahead(e)') = Cardinality(Ahead(e)) + IF at[d] > at[e] THEN 1 ELSE 0
  <2>1. Ahead(e)' = IF at[d] > at[e] THEN Ahead(e) \cup {d} ELSE Ahead(e)
    BY <1>1 DEF Ahead
  <2>2. d \notin Ahead(e) /\ IsFiniteSet(Ahead(e)) /\ Cardinality(Ahead(e)) \in Nat
    BY <1>1, AheadFinite DEF Ahead
  <2>3. Cardinality(Ahead(e) \cup {d}) = Cardinality(Ahead(e)) + 1
    BY <2>2, FS_AddElement
  <2> QED
    BY <2>1, <2>2, <2>3
<1> QED
  BY <1>1, <1>2, <1>3

LEMMA MovedFinite == IsFiniteSet(Moved) /\ Cardinality(Moved) \in Nat
<1>1. Moved \in SUBSET Entries
  BY DEF Moved
<1> QED
  BY <1>1, ListingAssumption, FS_Subset, FS_CardinalityType

\* Of two untied entries one has the other in front of it.
LEMMA RanksDiffer ==
  ASSUME Types, Committed = Untied, NEW x \in Committed, NEW y \in Committed, x # y
  PROVE  Cardinality(Ahead(x)) # Cardinality(Ahead(y))
<1>1. \A e \in Committed : at[e] \in Nat
  BY DEF Types, Committed
<1>2. at[x] # at[y]
  BY DEF Untied
<1>3. ASSUME NEW a \in Committed, NEW b \in Committed, at[a] > at[b]
      PROVE  Cardinality(Ahead(a)) < Cardinality(Ahead(b))
  <2>1. Ahead(a) \cup {a} \subseteq Ahead(b) /\ a \notin Ahead(a)
    BY <1>1, <1>3 DEF Ahead
  <2>2. Cardinality(Ahead(a) \cup {a}) = Cardinality(Ahead(a)) + 1
    BY <2>1, AheadFinite, FS_AddElement
  <2>3. Cardinality(Ahead(a) \cup {a}) <= Cardinality(Ahead(b))
    BY <2>1, AheadFinite, FS_Subset
  <2>4. Cardinality(Ahead(a)) \in Nat /\ Cardinality(Ahead(b)) \in Nat
    BY AheadFinite
  <2> QED
    BY <2>2, <2>3, <2>4
<1>4. at[x] > at[y] \/ at[y] > at[x]
  BY <1>1, <1>2
<1>5. Cardinality(Ahead(x)) \in Nat /\ Cardinality(Ahead(y)) \in Nat
  BY AheadFinite
<1> QED
  BY <1>3, <1>4, <1>5

\* A commit moves at most one entry from before the offset to behind it.
LEMMA CommitMoves ==
  ASSUME LInv, NEW d \in Entries, Commit(d), Committed = Untied
  PROVE  Cardinality(Moved') <= Cardinality(Moved) + 1
<1> DEFINE new == Moved' \ Moved
<1>1. seen' = seen /\ offset' = offset /\ offset \in Nat
  BY DEF Commit, LInv, Types
<1>2. ASSUME NEW e \in new PROVE e \in Committed /\ Cardinality(Ahead(e)) = offset - 1
  <2>1. e \in Entries /\ seen[e] > 0 /\ Cardinality(Ahead(e)') >= offset
    BY <1>1, <1>2 DEF Moved
  <2>2. e \in Committed
    BY <2>1 DEF LInv, Started
  <2>3. ~(Cardinality(Ahead(e)) >= offset)
    BY <1>2, <2>1 DEF Moved
  <2>4. Cardinality(Ahead(e)) \in Nat
    BY AheadFinite
  <2>5. Cardinality(Ahead(e)') = Cardinality(Ahead(e)) \/ Cardinality(Ahead(e)') = Cardinality(Ahead(e)) + 1
    BY <2>2, <2>4, CommitRows
  <2> QED
    BY <1>1, <2>1, <2>2, <2>3, <2>4, <2>5
<1>3. \A x, y \in new : x = y
  <2>1. Types
    BY DEF LInv
  <2> QED
    BY <1>2, <2>1, RanksDiffer
<1> HIDE DEF new
<1>4. CASE new = {}
  <2>1. Moved' \in SUBSET Moved
    BY <1>4 DEF new
  <2>2. Cardinality(Moved') <= Cardinality(Moved) /\ Cardinality(Moved') \in Nat
    BY <2>1, MovedFinite, FS_Subset, FS_CardinalityType
  <2> QED
    BY <2>2, MovedFinite
<1>5. CASE new # {}
  <2>1. PICK x \in new : TRUE
    BY <1>5
  <2>2. Moved' \in SUBSET (Moved \cup {x})
    BY <1>3, <2>1 DEF new
  <2>3. IsFiniteSet(Moved \cup {x}) /\ Cardinality(Moved \cup {x}) <= Cardinality(Moved) + 1
    BY MovedFinite, FS_AddElement
  <2>4. Cardinality(Moved') <= Cardinality(Moved \cup {x}) /\ Cardinality(Moved') \in Nat
    BY <2>2, <2>3, FS_Subset, FS_CardinalityType
  <2>5. Cardinality(Moved \cup {x}) \in Nat
    BY <2>3, FS_CardinalityType
  <2> QED
    BY <2>3, <2>4, <2>5, MovedFinite
<1> QED
  BY <1>4, <1>5

LEMMA CommitLInv ==
  ASSUME LInv, NEW d \in Entries, Commit(d)
  PROVE  LInv'
<1>1. /\ at' = at /\ UNCHANGED <<clock, phase, limit, from, offset, seen, page, present>>
      /\ added' = IF phase = "reading" THEN added + 1 ELSE added
  BY DEF Commit
<1>2. Types'
  BY <1>1 DEF LInv, Types, Commit
<1>3. Started'
  BY <1>1, CommitRows DEF LInv, Started
<1>4. \A e \in present : e \in Committed /\ (e \in Untied' => e \in Untied)
  BY CommitRows DEF LInv, Started
<1>5. \A e \in Committed : Cardinality(Ahead(e)) \in Nat /\ Cardinality(Ahead(e)') >= Cardinality(Ahead(e))
  BY CommitRows, AheadFinite
<1>6. offset % (2 * Half) \in Nat
  <2>1. offset \in Nat /\ 2 * Half \in Nat \ {0}
    BY ListingAssumption DEF LInv, Types
  <2> QED
    BY <2>1, Remainder
<1>7. Skipping'
  <2> SUFFICES ASSUME phase = "reading", from = 0, NEW e \in present, e \in Untied', ~(seen[e] > 0)
               PROVE  Cardinality(Ahead(e)') >= offset % (2 * Half)
    BY <1>1 DEF Skipping
  <2>1. e \in Committed /\ Cardinality(Ahead(e)) >= offset % (2 * Half)
    BY <1>4 DEF LInv, Skipping
  <2>2. Cardinality(Ahead(e)') \in Nat
    BY <2>1, CommitRows, AheadFinite
  <2> QED
    BY <1>5, <1>6, <2>1, <2>2
<1>8. NothingMissed'
  BY <1>1, <1>4 DEF LInv, NothingMissed
<1>9. Beyond' /\ TruncationOnlyBeyond'
  BY <1>1 DEF LInv, Beyond, TruncationOnlyBeyond
<1>10. Repeats' = Repeats
  BY <1>1 DEF Repeats
<1>11. Repeating'
  <2>1. IsFiniteSet(Repeats) /\ Cardinality(Repeats) \in Nat /\ added \in Nat
    BY FS_CardinalityType DEF LInv, Repeating, Types
  <2> SUFFICES ASSUME Committed' = Untied', offset < Half
               PROVE  /\ Cardinality(Repeats) <= added'
                      /\ phase = "reading" => Cardinality(Repeats) + Cardinality(Moved') <= added'
    BY <1>1, <1>10, <2>1 DEF Repeating
  <2>2. Committed = Untied
    BY CommitRows DEF Untied
  <2>3. /\ Cardinality(Repeats) <= added
        /\ phase = "reading" => Cardinality(Repeats) + Cardinality(Moved) <= added
    BY <2>2 DEF LInv, Repeating
  <2>4. Cardinality(Moved') <= Cardinality(Moved) + 1 /\ Cardinality(Moved) \in Nat
    BY <2>2, CommitMoves, MovedFinite
  <2>5. Cardinality(Moved') \in Nat
    <3>1. Moved' \in SUBSET Entries
      BY DEF Moved
    <3> QED
      BY <3>1, ListingAssumption, FS_Subset, FS_CardinalityType
  <2> QED
    BY <1>1, <2>1, <2>3, <2>4, <2>5
<1> QED
  BY <1>2, <1>3, <1>7, <1>8, <1>9, <1>11 DEF LInv

LEMMA StartLInv ==
  ASSUME LInv, NEW l \in Limits, NEW o \in Offsets, Start(l, o)
  PROVE  LInv'
<1>1. /\ phase = "idle" /\ phase' = "reading" /\ limit' = l /\ from' = o /\ offset' = o
      /\ present' = Committed /\ UNCHANGED <<clock, at, stage, seen, page, added>>
  BY DEF Start, rowVars
<1>2. l \in Nat /\ o \in Nat /\ Half \in Nat \ {0}
  BY ListingAssumption
<1>3. /\ Committed' = Committed /\ Untied' = Untied /\ \A e : Ahead(e)' = Ahead(e)
  BY <1>1, RowsFixed
<1>4. \A e \in Entries : seen[e] = 0
  BY <1>1 DEF LInv, Started
<1>5. Types'
  BY <1>1, <1>2 DEF LInv, Types
<1>6. Started'
  BY <1>1, <1>3, <1>4 DEF Started
<1>7. Skipping'
  <2>1. 0 % (2 * Half) = 0
    BY <1>2, Remainder
  <2>2. \A e : Cardinality(Ahead(e)') \in Nat
    BY <1>3, AheadFinite
  <2> QED
    BY <1>1, <2>1, <2>2 DEF Skipping
<1>8. NothingMissed' /\ Beyond' /\ TruncationOnlyBeyond'
  BY <1>1, <1>4 DEF NothingMissed, Beyond, TruncationOnlyBeyond
<1>9. Repeats' = Repeats /\ Moved' = {}
  BY <1>1, <1>4 DEF Repeats, Moved
<1>10. Repeating'
  <2>1. IsFiniteSet(Repeats) /\ Cardinality(Repeats) \in Nat
    BY FS_CardinalityType DEF LInv, Repeating
  <2>2. offset < Half
    BY <1>1, <1>2 DEF LInv, Started
  <2> QED
    BY <1>1, <1>3, <1>9, <2>1, <2>2, FS_EmptySet DEF LInv, Repeating
<1> QED
  BY <1>5, <1>6, <1>7, <1>8, <1>10 DEF LInv

LEMMA FetchFailsLInv ==
  ASSUME LInv, FetchFails
  PROVE  LInv'
<1>1. /\ ToInt32(offset) < 0 /\ phase' = "failed"
      /\ UNCHANGED <<clock, at, stage, limit, from, offset, seen, page, present, added>>
  BY DEF FetchFails, rowVars
<1>2. /\ Committed' = Committed /\ Untied' = Untied
  BY <1>1, RowsFixed
<1>3. Types' /\ Started'
  BY <1>1, <1>2 DEF LInv, Types, Started
<1>4. Skipping' /\ NothingMissed' /\ Beyond'
  BY <1>1 DEF LInv, Skipping, NothingMissed, Beyond
<1>5. offset >= Half
  BY <1>1, Truncated DEF LInv, Types
<1>6. TruncationOnlyBeyond'
  BY <1>1, <1>5 DEF LInv, TruncationOnlyBeyond
<1>7. Repeats' = Repeats
  BY <1>1 DEF Repeats
<1>8. Repeating'
  BY <1>1, <1>2, <1>7 DEF LInv, Repeating
<1> QED
  BY <1>3, <1>4, <1>6, <1>8 DEF LInv

\* A page sends again the entries of it that were seen, once each.
LEMMA PageRepeats ==
  ASSUME Types, IsFiniteSet(Repeats), NEW P \in SUBSET Committed,
         seen' = [e \in Entries |-> IF e \in P THEN seen[e] + 1 ELSE seen[e]]
  PROVE  LET again == {e \in P : seen[e] > 0}
         IN /\ IsFiniteSet(Repeats') /\ Cardinality(Repeats') \in Nat
            /\ Cardinality(Repeats') <= Cardinality(Repeats) + Cardinality(again)
<1> DEFINE again == {e \in P : seen[e] > 0}
           f == [e \in again |-> <<e, seen[e]>>]
           T == {f[e] : e \in again}
<1>1. again \in SUBSET Committed
  OBVIOUS
<1>2. IsFiniteSet(again) /\ Cardinality(again) \in Nat
  BY <1>1, FiniteRows
<1>3. f \in Surjection(again, T)
  BY DEF Surjection
<1>4. IsFiniteSet(T) /\ Cardinality(T) <= Cardinality(again) /\ Cardinality(T) \in Nat
  BY <1>2, <1>3, FS_Surjection, FS_CardinalityType
<1>5. Repeats' \in SUBSET (Repeats \cup T)
  <2> SUFFICES ASSUME NEW x \in Repeats', x \notin Repeats PROVE x \in T
    OBVIOUS
  <2>1. PICK e \in Entries : x \in {e} \X (1 .. seen'[e] - 1)
    BY DEF Repeats
  <2>2. PICK i \in 1 .. seen'[e] - 1 : x = <<e, i>>
    BY <2>1
  <2>3. seen[e] \in Nat /\ seen'[e] \in Nat
    BY DEF Types
  <2>4. ~(i \in 1 .. seen[e] - 1)
    BY <2>2 DEF Repeats
  <2>5. e \in P /\ i = seen[e] /\ seen[e] > 0
    BY <2>3, <2>4
  <2> QED
    BY <2>5, <2>2
<1> HIDE DEF T, again
<1>6. Cardinality(Repeats) \in Nat /\ Cardinality(Repeats \cap T) \in Nat
  BY FS_Intersection, FS_CardinalityType
<1>7. IsFiniteSet(Repeats \cup T) /\ Cardinality(Repeats \cup T) = Cardinality(Repeats) + Cardinality(T) - Cardinality(Repeats \cap T)
  BY <1>4, FS_Union
<1>8. IsFiniteSet(Repeats') /\ Cardinality(Repeats') <= Cardinality(Repeats \cup T) /\ Cardinality(Repeats') \in Nat
  BY <1>5, <1>7, FS_Subset, FS_CardinalityType
<1>9. Cardinality(Repeats') <= Cardinality(Repeats) + Cardinality(again)
  BY <1>2, <1>4, <1>6, <1>7, <1>8
<1> QED
  BY <1>8, <1>9 DEF again

LEMMA GetEntriesLInv ==
  ASSUME LInv, GetEntries
  PROVE  LInv'
<1> DEFINE k == ToInt32(offset)
           n == EffectiveLimit(limit)
<1>1. PICK P \in Pages(k, n) :
        /\ page' = P
        /\ seen' = [e \in Entries |-> IF e \in P THEN seen[e] + 1 ELSE seen[e]]
        /\ offset' = offset + Cardinality(P)
        /\ phase' = IF P = {} THEN "done" ELSE "reading"
  BY DEF GetEntries
<1>2. /\ phase = "reading" /\ k >= 0
      /\ UNCHANGED <<clock, at, stage, limit, from, present, added>>
  BY DEF GetEntries, rowVars
<1>3. Types /\ {limit, from, offset, added} \subseteq Nat /\ Half \in Nat \ {0}
  BY ListingAssumption DEF LInv, Types
<1>4. /\ k \in Nat /\ k = offset % (2 * Half)
      /\ offset < Half => k = offset
      /\ offset < 2 * Half => k = offset
  BY <1>2, <1>3, Truncated
<1>5. n \in Nat \ {0}
  BY <1>3, LimitPositive
<1> HIDE DEF k, n
<1>6. PICK S : Cut(S, P, k)
  BY <1>4, <1>5, PageIsCut
<1>7. S \in SUBSET Committed /\ P \in SUBSET Committed /\ P \cap S = {}
  BY <1>6 DEF Cut
<1>8. IsFiniteSet(P) /\ Cardinality(P) \in Nat
  BY <1>7, FiniteRows
<1>9. /\ Committed' = Committed /\ Untied' = Untied /\ \A e : Ahead(e)' = Ahead(e)
  BY <1>2, RowsFixed
<1>10. Committed \in SUBSET Entries
  BY DEF Committed
<1>11. \A e \in Entries : seen[e] \in Nat /\ seen'[e] = IF e \in P THEN seen[e] + 1 ELSE seen[e]
  BY <1>1, <1>3 DEF Types
<1>12. Types'
  BY <1>1, <1>2, <1>3, <1>8 DEF Types
<1>13. Started'
  BY <1>1, <1>2, <1>7, <1>9, <1>11 DEF LInv, Started
<1>14. ASSUME from = 0, NEW e \in present \cap Untied, ~(seen[e] > 0)
       PROVE  e \notin S
  <2>1. Cardinality(Ahead(e)) >= k
    BY <1>2, <1>4, <1>14 DEF LInv, Skipping
  <2>2. e \in S => Cardinality(Ahead(e)) < k
    BY <1>3, <1>4, <1>6, <1>14, SkippedAreAhead
  <2> QED
    BY <1>4, <2>1, <2>2, AheadFinite
<1>15. Skipping'
  <2> SUFFICES ASSUME from = 0, NEW e \in present \cap Untied, ~(seen'[e] > 0)
               PROVE  Cardinality(Ahead(e)) >= offset' % (2 * Half)
    BY <1>2, <1>9 DEF Skipping
  <2>1. e \in Entries
    BY <1>10 DEF Untied
  <2>2. e \notin P /\ ~(seen[e] > 0)
    BY <1>11, <2>1
  <2>3. e \notin S \cup P
    BY <1>14, <2>2
  <2>4. Cardinality(Ahead(e)) >= k + Cardinality(P)
    BY <1>3, <1>4, <1>6, <2>3, PageIsAhead
  <2>5. 2 * Half \in Nat \ {0}
    BY <1>3
  <2>6. (offset' % (2 * Half)) <= k + Cardinality(P)
    BY <1>1, <1>3, <1>4, <1>8, <2>5, RemainderOfSum
  <2>7. offset' \in Nat
    BY <1>1, <1>3, <1>8
  <2>8. offset' % (2 * Half) \in Nat
    BY <2>5, <2>7, Remainder
  <2> QED
    BY <1>4, <1>8, <2>4, <2>6, <2>8, AheadFinite
<1>16. NothingMissed'
  <2> SUFFICES ASSUME phase' = "done", from = 0, NEW e \in present \cap Untied, ~(seen'[e] > 0)
               PROVE  FALSE
    BY <1>2, <1>9 DEF NothingMissed
  <2>1. P = {} /\ S = Committed
    BY <1>1, <1>6 DEF Cut
  <2>2. e \in Entries /\ e \in S
    BY <1>10, <2>1 DEF Untied
  <2>3. ~(seen[e] > 0)
    BY <1>11, <2>1, <2>2
  <2> QED
    BY <1>14, <2>2, <2>3
<1>17. ASSUME from >= Cardinality(Entries), from < 2 * Half
       PROVE  P = {}
  <2>1. offset = from /\ k = from
    BY <1>3, <1>4, <1>17 DEF LInv, Beyond
  <2>2. ASSUME S # Committed PROVE FALSE
    <3>1. Cardinality(S) = from
      BY <1>6, <2>1, <2>2 DEF Cut
    <3>2. Cardinality(S) <= Cardinality(Committed) /\ (Cardinality(Committed) = Cardinality(S) => Committed = S)
      BY <1>7, CommittedFinite, FS_Subset
    <3> QED
      BY <1>3, <1>17, <2>2, <3>1, <3>2, CommittedFinite
  <2> QED
    BY <1>6, <2>2 DEF Cut
<1>18. Beyond' /\ TruncationOnlyBeyond'
  <2>1. P = {} => offset' = offset /\ \A e \in Entries : seen'[e] = seen[e]
    BY <1>1, <1>3, <1>11, FS_EmptySet
  <2>2. phase' # "failed"
    BY <1>1
  <2> QED
    BY <1>2, <1>17, <2>1, <2>2 DEF LInv, Beyond, TruncationOnlyBeyond
<1>19. Repeating'
  <2> DEFINE again == {e \in P : seen[e] > 0}
  <2>1. /\ IsFiniteSet(Repeats) /\ Cardinality(Repeats) \in Nat
        /\ again \in SUBSET Committed /\ IsFiniteSet(again) /\ Cardinality(again) \in Nat
    BY <1>7, FiniteRows, FS_CardinalityType DEF LInv, Repeating
  <2>2. /\ IsFiniteSet(Repeats') /\ Cardinality(Repeats') \in Nat
        /\ Cardinality(Repeats') <= Cardinality(Repeats) + Cardinality(again)
    BY <1>1, <1>3, <1>7, <2>1, PageRepeats
  <2> SUFFICES ASSUME Committed = Untied, offset' < Half
               PROVE  Cardinality(Repeats') + Cardinality(Moved') <= added /\ Cardinality(Moved') \in Nat
    BY <1>2, <1>3, <1>9, <2>2 DEF Repeating
  <2>3. offset < Half /\ k = offset
    BY <1>1, <1>3, <1>4, <1>8
  <2>4. again \in SUBSET Moved
    <3> SUFFICES ASSUME NEW e \in again PROVE e \in Moved
      OBVIOUS
    <3>1. e \in Entries /\ e \in Untied /\ e \notin S
      BY <1>7, <1>10
    <3>2. Cardinality(Ahead(e)) >= offset
      BY <1>3, <1>4, <1>6, <2>3, <3>1, SkippedAreAhead
    <3> QED
      BY <3>1, <3>2 DEF Moved
  <2>5. Moved' \in SUBSET (Moved \ again)
    <3> SUFFICES ASSUME NEW e \in Moved' PROVE e \in Moved /\ e \notin P
      OBVIOUS
    <3>1. e \in Entries /\ seen'[e] > 0 /\ Cardinality(Ahead(e)) >= offset + Cardinality(P)
      BY <1>1, <1>9 DEF Moved
    <3>2. Cardinality(Ahead(e)) \in Nat
      BY AheadFinite
    <3>3. e \notin P
      <4>1. e \in P => e \in Untied
        BY <1>7
      <4>2. e \in P => Cardinality(Ahead(e)) < offset + Cardinality(P)
        BY <1>3, <1>4, <1>6, <2>3, <4>1, PageIsNext
      <4> QED
        BY <1>3, <1>8, <3>1, <3>2, <4>2
    <3>4. seen[e] > 0 /\ Cardinality(Ahead(e)) >= offset
      BY <1>3, <1>8, <1>11, <3>1, <3>2, <3>3
    <3> QED
      BY <3>1, <3>3, <3>4 DEF Moved
  <2> HIDE DEF again
  <2>6. /\ IsFiniteSet(Moved \ again) /\ Cardinality(Moved) \in Nat
        /\ Cardinality(Moved \ again) = Cardinality(Moved) - Cardinality(Moved \cap again)
    BY MovedFinite, FS_Difference
  <2>7. Cardinality(Moved \ again) = Cardinality(Moved) - Cardinality(again)
    <3>1. Moved \cap again = again
      BY <2>4
    <3> QED
      BY <2>6, <3>1
  <2>8. Cardinality(Moved') <= Cardinality(Moved \ again) /\ Cardinality(Moved') \in Nat
    BY <2>5, <2>6, FS_Subset, FS_CardinalityType
  <2>9. Cardinality(Repeats) + Cardinality(Moved) <= added
    BY <1>2, <2>3 DEF LInv, Repeating
  <2> QED
    BY <1>3, <2>1, <2>2, <2>6, <2>7, <2>8, <2>9
<1> QED
  BY <1>12, <1>13, <1>15, <1>16, <1>18, <1>19 DEF LInv

LEMMA NextLInv == LInv /\ [Next]_vars => LInv'
<1> SUFFICES ASSUME LInv, [Next]_vars PROVE LInv'
  OBVIOUS
<1>1. CASE UNCHANGED vars
  <2>1. UNCHANGED clientVars /\ UNCHANGED <<clock, at, stage>>
    BY <1>1 DEF vars, clientVars
  <2>2. Types'
    BY <1>1 DEF LInv, Types, vars
  <2> QED
    BY <2>1, <2>2, RowsFixed, SameListing
<1>2. CASE Idle
  BY <1>1, <1>2 DEF Idle
<1> QED
  BY <1>1, <1>2, BeginLInv, CommitLInv, StartLInv, GetEntriesLInv, FetchFailsLInv DEF Next

LEMMA ListingInvariant == Spec => []LInv
BY InitLInv, NextLInv, PTL DEF Spec

-----------------------------------------------------------------------------
(* What the listing guarantees. *)

\* Whoever reads to the end from offset 0 has been sent every untied entry
\* that was there at the start, whatever was committed meanwhile.
THEOREM ReadersMissNothing == Spec => []NothingMissed
<1>1. LInv => NothingMissed
  BY DEF LInv
<1> QED
  BY <1>1, ListingInvariant, PTL

\* Without ties, GetEntries sends entries again no more often than entries were
\* committed while the client was reading.
THEOREM RepeatsBounded == Spec => []RepeatsAreCommits
<1>1. LInv => RepeatsAreCommits
  BY DEF LInv, Repeating, RepeatsAreCommits
<1> QED
  BY <1>1, ListingInvariant, PTL

\* The conversion of the offset to int32 shows only from offsets the listing
\* does not reach.
THEOREM TruncationHarmless == Spec => []TruncationOnlyBeyond
<1>1. LInv => TruncationOnlyBeyond
  BY DEF LInv
<1> QED
  BY <1>1, ListingInvariant, PTL
=============================================================================
