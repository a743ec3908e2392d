------------------------------- MODULE Listing -------------------------------
(***************************************************************************)
(* GetEntries: the entries of one account, newest first, in pages chosen   *)
(* by limit and offset, read by a client while transactions go on adding   *)
(* entries.                                                                *)
(*                                                                         *)
(* created_at is the time the transaction of an entry began, so entries    *)
(* become visible in another order than the one they are listed in, and    *)
(* entries may share it; PostgreSQL returns those in any order, and in     *)
(* another one for the next page.                                          *)
(***************************************************************************)
EXTENDS Integers, FiniteSets, FiniteSetsExt

CONSTANTS
  Entries,       \* entries the transactions add
  Limits,        \* values of the query parameter limit; 0 for none or a wrong one
  Offsets,       \* values of the query parameter offset a client starts from
  DefaultLimit,  \* 20
  MaxLimit,      \* 100
  Half           \* 2^31: the int32 an offset is converted to is below it, and at least -Half

ASSUME ListingAssumption ==
  /\ IsFiniteSet(Entries)
  /\ Limits \subseteq Nat /\ Offsets \subseteq Nat
  /\ {DefaultLimit, MaxLimit, Half} \subseteq Nat \ {0}

VARIABLES
  clock,    \* the latest created_at handed out
  at,       \* created_at of each entry
  stage,    \* "none", "open" (in a transaction) or "committed"
  phase,    \* of the client: "idle", "reading", "done" or "failed"
  limit,    \* its limit
  from,     \* the offset it started from
  offset,   \* the offset of its next page
  seen,     \* how often it was sent each entry
  page,     \* the page it was sent last
  present,  \* the entries committed when it started
  added     \* entries committed since

rowVars == <<clock, at, stage>>
clientVars == <<phase, limit, from, offset, seen, page, present, added>>
vars == <<clock, at, stage, phase, limit, from, offset, seen, page, present, added>>

Committed == {e \in Entries : stage[e] = "committed"}

Init ==
  /\ clock = 0
  /\ at = [e \in Entries |-> 0]
  /\ stage = [e \in Entries |-> "none"]
  /\ phase = "idle"
  /\ limit = 0 /\ from = 0 /\ offset = 0 /\ added = 0
  /\ seen = [e \in Entries |-> 0]
  /\ page = {} /\ present = {}

-----------------------------------------------------------------------------
(* Writers. *)

\* BEGIN: the timestamp of everything the transaction inserts.
Begin(e) ==
  /\ stage[e] = "none"
  /\ stage' = [stage EXCEPT ![e] = "open"]
  /\ clock' \in {clock, clock + 1}
  /\ at' = [at EXCEPT ![e] = clock']
  /\ UNCHANGED clientVars

Commit(e) ==
  /\ stage[e] = "open"
  /\ stage' = [stage EXCEPT ![e] = "committed"]
  /\ added' = IF phase = "reading" THEN added + 1 ELSE added
  /\ UNCHANGED <<clock, at, phase, limit, from, offset, seen, page, present>>

-----------------------------------------------------------------------------
(* The query. *)

EffectiveLimit(v) == IF v > 0 THEN Min({v, MaxLimit}) ELSE DefaultLimit

\* Variant: a narrower conversion.
ToInt32_Narrow(v) == v % Half

\* Variant: the first entry has number 1.
ToInt32_OneBased(v) == Max({v - 1, 0})

\* int32(v): the low bits, as a signed number.
ToInt32(v) ==
  LET low == v % (2 * Half)
  IN IF low < Half THEN low ELSE low - 2 * Half

\* Variant: no ORDER BY.
Precedes_Unordered(d, e) == TRUE

\* ORDER BY created_at DESC.
Precedes(d, e) == at[d] >= at[e]

\* The first n of R, in some order that respects created_at.
Heads(R, n) ==
  {H \in SUBSET R : /\ Cardinality(H) = Min({n, Cardinality(R)})
                    /\ \A d \in H, e \in R \ H : Precedes(d, e)}

\* The pages of n rows that OFFSET k may yield.
Pages(k, n) ==
  UNION {Heads(Committed \ skipped, n) : skipped \in Heads(Committed, k)}

-----------------------------------------------------------------------------
(* The client: from an offset of its choice, page after page, each at the   *)
(* offset of the last and the rows it had, until a page is empty.           *)

Start(l, o) ==
  /\ phase = "idle"
  /\ phase' = "reading"
  /\ limit' = l /\ from' = o /\ offset' = o
  /\ present' = Committed
  /\ UNCHANGED <<rowVars, seen, page, added>>

GetEntries ==
  /\ phase = "reading"
  /\ ToInt32(offset) >= 0
  /\ \E P \in Pages(ToInt32(offset), EffectiveLimit(limit)) :
       /\ page' = P
       /\ seen' = [e \in Entries |-> IF e \in P THEN seen[e] + 1 ELSE seen[e]]
       /\ offset' = offset + Cardinality(P)
       /\ phase' = IF P = {} THEN "done" ELSE "reading"
  /\ UNCHANGED <<rowVars, limit, from, present, added>>

\* OFFSET must not be negative: the query fails, a 500.
FetchFails ==
  /\ phase = "reading"
  /\ ToInt32(offset) < 0
  /\ phase' = "failed"
  /\ UNCHANGED <<rowVars, limit, from, offset, seen, page, present, added>>

Idle ==
  /\ phase \in {"done", "failed"}
  /\ UNCHANGED vars

Next ==
  \/ \E e \in Entries : Begin(e) \/ Commit(e)
  \/ \E l \in Limits, o \in Offsets : Start(l, o)
  \/ GetEntries
  \/ FetchFails
  \/ Idle

Spec == Init /\ [][Next]_vars

-----------------------------------------------------------------------------
(* Properties. *)

Untied == {e \in Committed : \A d \in Committed \ {e} : at[d] # at[e]}

\* A client that reads page after page to the end has seen every entry that
\* was there when it started, however many were committed meanwhile, unless
\* the entry shares its timestamp with another one.
NothingMissed ==
  phase = "done" /\ from = 0 => \A e \in present \cap Untied : seen[e] > 0

\* Every time an entry was sent but the last.
Repeats == UNION {{e} \X (1 .. seen[e] - 1) : e \in Entries}

\* Without ties an entry is sent again only because another one was committed
\* in front of it: the repetitions are no more than the commits.
RepeatsAreCommits ==
  Committed = Untied /\ offset < Half => Cardinality(Repeats) <= added

\* The truncation of the offset shows only far out: from an offset below half
\* the range of the integer the client never fails, and a page sent for an
\* offset beyond the last entry is empty until the offset has wrapped round.
TruncationOnlyBeyond ==
  /\ phase = "failed" => offset >= Half
  /\ from >= Cardinality(Entries) /\ from < 2 * Half => \A e \in Entries : seen[e] = 0
=============================================================================
