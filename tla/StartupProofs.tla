----------------------------- MODULE StartupProofs -----------------------------
(***************************************************************************)
(* What the start of the containers guarantees, for any number of          *)
(* containers and migrations, any environment, and any kills and outages.  *)
(*                                                                         *)
(* A container that migrates holds the advisory lock of its database       *)
(* (Place), so what it has read of schema_migrations is still true when it *)
(* goes on; a database's table of versions describes the migrations that   *)
(* took effect there, one by one (Sequential).                             *)
(***************************************************************************)
EXTENDS Startup, WellFoundedInduction, NaturalsInduction, TLAPS

\* The migrations that took effect on d are those up to its version; of the
\* last one nothing is known while the version is dirty.
Sequential(d) ==
  /\ version[d] = 0 => ~dirty[d]
  /\ \A n \in 1 .. Latest :
       /\ n < version[d] => applied[d][n] = 1
       /\ n > version[d] => applied[d][n] = 0
       /\ n = version[d] => applied[d][n] \in {0, 1} /\ (~dirty[d] => applied[d][n] = 1)

\* What the place of a container says about its variables and its database.
Place(i) ==
  LET d == Migrating(i)
      p == phase[i]
  IN /\ p \in InMigration \cup {"migrate"} => target[i] # "unset"
     /\ p \in InMigration => target[i] # "blank" /\ lock[d] = i
     /\ p = "running" => seen[i] = version[d] /\ ~dirty[d]
     /\ p \in {"applying", "applied"} => seen[i] = version[d] /\ dirty[d]
     /\ p = "applying" => applied[d][seen[i]] = 0
     /\ p = "applied" => applied[d][seen[i]] = 1
     /\ p \in {"main", "serving"} /\ target[i] # "unset" =>
          target[i] # "blank" /\ version[d] = Latest /\ ~dirty[d] /\ migrated[i] = d
     /\ p \in {"main", "serving"} /\ target[i] = "unset" => migrated[i] = None
     /\ p \notin {"main", "serving", "exited"} => migrated[i] = None
     /\ p \notin {"none", "entry", "exited"} => target[i] = Resolved
     /\ p = "serving" => ServerUrl(i) # "fatal" /\ serves[i] = DatabaseAt(ServerUrl(i))

SInv ==
  /\ TypeOK /\ env \in Deployments
  /\ \A d \in Databases : Sequential(d)
  /\ \A i \in Containers : Place(i)

-----------------------------------------------------------------------------
(* The two resolutions of the URL. *)

\* The first of the fallbacks that are set is one of them.
LEMMA MinIn ==
  ASSUME NEW S, S \subseteq Nat, S # {}
  PROVE  Min(S) \in S /\ \A y \in S : Min(S) <= y
<1> DEFINE R == {ss \in Nat \X Nat : ss[1] < ss[2]}
<1>1. IsWellFoundedOn(R, Nat)
  BY NatLessThanWellFounded, Zenon DEF OpToRel
<1>2. PICK x \in S : \A y \in S : ~(<<y, x>> \in R)
  BY <1>1, WFMin
<1>3. ASSUME NEW y \in S PROVE x <= y
  <2>1. x \in Nat /\ y \in Nat /\ <<y, x>> \in Nat \X Nat
    OBVIOUS
  <2>2. ~(<<y, x>>[1] < <<y, x>>[2])
    BY <1>2, <2>1, Zenon
  <2> QED
    BY <2>1, <2>2
<1> QED
  BY <1>3 DEF Min

\* The shell and Go agree on the fallback where the shell finds one that is
\* not blank.
LEMMA Fallbacks ==
  ASSUME env \in Deployments
  PROVE  /\ ShellFallback \in Values /\ GoFallback \in Values \ {"blank"}
         /\ ShellFallback = "unset" => GoFallback = "unset"
         /\ ShellFallback \notin {"unset", "blank"} => GoFallback = ShellFallback
<1> DEFINE f == env.fallback
           S == {k \in DOMAIN f : f[k] # "unset"}
           T == {k \in DOMAIN f : f[k] \notin {"unset", "blank"}}
<1>1. f \in [DOMAIN f -> Values] /\ DOMAIN f \subseteq Nat
  BY StartupAssumption
<1>2. T \subseteq S /\ S \subseteq Nat /\ T \subseteq Nat
  BY <1>1
<1>3. ShellFallback = FirstOf(S) /\ GoFallback = FirstOf(T)
  BY DEF ShellFallback, GoFallback
<1>4. /\ FirstOf(S) = IF S = {} THEN "unset" ELSE f[Min(S)]
      /\ FirstOf(T) = IF T = {} THEN "unset" ELSE f[Min(T)]
  BY DEF FirstOf
<1>5. /\ S # {} => Min(S) \in S /\ \A y \in S : Min(S) <= y
      /\ T # {} => Min(T) \in T /\ \A y \in T : Min(T) <= y
  BY <1>2, MinIn
<1>6. ShellFallback \in Values /\ GoFallback \in Values \ {"blank"}
  BY <1>1, <1>3, <1>4, <1>5 DEF Values
<1>7. ASSUME ShellFallback = "unset" PROVE GoFallback = "unset"
  <2>1. S = {}
    BY <1>3, <1>4, <1>5, <1>7
  <2> QED
    BY <1>2, <1>3, <1>4, <2>1
<1>8. ASSUME ShellFallback \notin {"unset", "blank"} PROVE GoFallback = ShellFallback
  <2>1. S # {} /\ Min(S) \in T
    BY <1>3, <1>4, <1>5, <1>8
  <2>2. Min(T) \in S /\ Min(S) <= Min(T) /\ Min(T) <= Min(S)
    BY <1>2, <1>5, <2>1
  <2>3. Min(T) = Min(S)
    BY <1>2, <1>5, <2>1, <2>2
  <2> QED
    BY <1>3, <1>4, <2>1, <2>3
<1> QED
  BY <1>6, <1>7, <1>8

\* Both take a request for a database to the same one, unless DB_URL is a local
\* URL in upper case and there is another fallback.
LEMMA UrlsAgree ==
  ASSUME env \in Deployments, ShellUrl \notin {"unset", "blank"},
         GoUrl(Exported(ShellUrl)) # "fatal", ~Differ
  PROVE  DatabaseAt(GoUrl(Exported(ShellUrl))) = DatabaseAt(ShellUrl)
<1>1. env.dbUrl \in Values
  BY StartupAssumption
<1>2. CASE env.dbUrl = "unset"
  BY <1>2, Fallbacks DEF ShellUrl, Exported, GoUrl, DatabaseAt, Values
<1>3. CASE env.dbUrl = "local"
  BY <1>3, Fallbacks DEF ShellUrl, Exported, GoUrl, DatabaseAt, Values
<1>4. CASE env.dbUrl \in {"a", "b", "blank"}
  BY <1>4 DEF ShellUrl, Exported, GoUrl, DatabaseAt
<1>5. CASE env.dbUrl = "LOCAL"
  BY <1>5, Fallbacks DEF ShellUrl, Exported, GoUrl, DatabaseAt, Values, Differ
<1> QED
  BY <1>1, <1>2, <1>3, <1>4, <1>5 DEF Values

\* The URLs are of the expected kinds.
LEMMA UrlTypes ==
  ASSUME env \in Deployments
  PROVE  /\ Resolved \in Values
         /\ \A url \in Values : GoUrl(Exported(url)) # "fatal" =>
              DatabaseAt(GoUrl(Exported(url))) \in Databases
         /\ \A url \in Values \ {"unset", "blank"} : DatabaseAt(url) \in Databases
<1>1. env.dbUrl \in Values
  BY StartupAssumption
<1>2. Resolved \in Values
  BY <1>1, Fallbacks DEF Resolved, ShellUrl, Values
<1>3. \A url \in Values : Exported(url) \in Values
  BY <1>1 DEF Exported
<1>4. \A url \in Values : GoUrl(url) # "fatal" => GoUrl(url) \in Values \ {"unset", "blank"}
  BY Fallbacks DEF GoUrl, Values
<1>5. \A url \in Values \ {"unset", "blank"} : DatabaseAt(url) \in Databases
  BY DEF DatabaseAt, Values, Databases
<1> QED
  BY <1>2, <1>3, <1>4, <1>5

-----------------------------------------------------------------------------
(* What a step leaves of the other containers. *)

\* The lock a migrating container holds, and what the steps of others leave of
\* the database it migrates or has migrated.
Undisturbed(j) ==
  LET d == Migrating(j)
  IN /\ phase[j] \in InMigration =>
          /\ lock'[d] = j
          /\ version'[d] = version[d] /\ dirty'[d] = dirty[d] /\ applied'[d] = applied[d]
     /\ phase[j] \in {"main", "serving"} /\ target[j] # "unset" =>
          version'[d] = version[d] /\ dirty'[d] = dirty[d]

LEMMA PlaceKept ==
  ASSUME NEW j \in Containers, Place(j), env' = env, Undisturbed(j),
         phase'[j] = phase[j], target'[j] = target[j], migrated'[j] = migrated[j],
         serves'[j] = serves[j], seen'[j] = seen[j]
  PROVE  Place(j)'
<1>1. Migrating(j)' = Migrating(j)
  BY DEF Migrating, DatabaseAt
<1>2. Resolved' = Resolved /\ ServerUrl(j)' = ServerUrl(j)
  BY DEF Resolved, ShellUrl, ShellFallback, FirstOf, ServerUrl, GoUrl, GoFallback, Exported
<1>3. DatabaseAt(ServerUrl(j))' = DatabaseAt(ServerUrl(j))
  BY <1>2 DEF DatabaseAt
<1>4. CASE phase[j] \in InMigration
  BY <1>1, <1>2, <1>4 DEF Place, Undisturbed, InMigration
<1>5. CASE phase[j] \in {"main", "serving"}
  BY <1>1, <1>2, <1>3, <1>5 DEF Place, Undisturbed, InMigration
<1>6. CASE phase[j] \notin InMigration \cup {"main", "serving"}
  BY <1>1, <1>2, <1>6 DEF Place, InMigration
<1> QED
  BY <1>4, <1>5, <1>6

\* A container that migrates, or has migrated, a database names one.
LEMMA MigratingType ==
  ASSUME SInv, NEW i \in Containers,
         \/ phase[i] \in InMigration
         \/ phase[i] \in {"main", "serving"} /\ target[i] # "unset"
  PROVE  Migrating(i) \in Databases
<1>1. target[i] \in Values \ {"unset", "blank"}
  BY DEF SInv, TypeOK, Place
<1> QED
  BY <1>1, UrlTypes DEF SInv, Migrating

\* One container migrates a database at a time.
LEMMA OneMigrates ==
  ASSUME SInv, NEW i \in Containers, NEW j \in Containers, phase[i] \in InMigration,
         phase[j] \in InMigration, Migrating(i) = Migrating(j)
  PROVE  i = j
<1>1. lock[Migrating(i)] = i /\ lock[Migrating(j)] = j
  BY DEF SInv, Place
<1> QED
  BY <1>1

LEMMA InitSInv == Init => SInv
<1> SUFFICES ASSUME Init PROVE SInv
  OBVIOUS
<1>1. TypeOK
  BY StartupAssumption DEF Init, TypeOK, Values
<1>2. \A d \in Databases : Sequential(d)
  BY DEF Init, Sequential
<1>3. ASSUME NEW i \in Containers PROVE Place(i)
  <2>1. phase[i] \in {"entry", "none"} /\ migrated[i] = None
    BY DEF Init
  <2> QED
    BY <2>1 DEF Place, InMigration
<1> QED
  BY <1>1, <1>2, <1>3 DEF Init, SInv

-----------------------------------------------------------------------------
(* Steps of one container. *)

\* Steps that leave the databases alone, and of the locks at most release or
\* acquire one of the container's own.
LEMMA OwnStep ==
  ASSUME SInv, TypeOK', NEW i \in Containers, UNCHANGED <<env, version, dirty, applied>>,
         \A d \in Databases : lock[d] \in Containers \ {i} => lock'[d] = lock[d],
         \A j \in Containers \ {i} :
           /\ phase'[j] = phase[j] /\ target'[j] = target[j] /\ migrated'[j] = migrated[j]
           /\ serves'[j] = serves[j] /\ seen'[j] = seen[j],
         Place(i)'
  PROVE  SInv'
<1>1. \A d \in Databases : Sequential(d)'
  BY DEF SInv, Sequential
<1>2. ASSUME NEW j \in Containers \ {i} PROVE Place(j)'
  <2>1. Place(j)
    BY DEF SInv
  <2>2. phase[j] \in InMigration => lock[Migrating(j)] = j /\ Migrating(j) \in Databases
    BY <2>1, MigratingType DEF Place
  <2>3. Undisturbed(j)
    BY <2>2 DEF Undisturbed
  <2> QED
    BY <2>1, <2>3, PlaceKept
<1> QED
  BY <1>1, <1>2 DEF SInv

\* Nothing the URLs are worked out from changes.
LEMMA UrlsStable ==
  ASSUME env' = env, NEW i \in Containers, target'[i] = target[i]
  PROVE  /\ Migrating(i)' = Migrating(i) /\ Resolved' = Resolved
         /\ ServerUrl(i)' = ServerUrl(i)
         /\ DatabaseAt(ServerUrl(i))' = DatabaseAt(ServerUrl(i))
<1>1. Migrating(i)' = Migrating(i) /\ Resolved' = Resolved /\ ServerUrl(i)' = ServerUrl(i)
  BY DEF Migrating, DatabaseAt, Resolved, ShellUrl, ShellFallback, FirstOf, ServerUrl,
         GoUrl, GoFallback, Exported
<1> QED
  BY <1>1 DEF DatabaseAt

\* Leaving the entrypoint, one way or another.
LEMMA ExitStep ==
  ASSUME SInv, NEW i \in Containers, UNCHANGED <<env, target, migrated, serves, up, version, dirty, applied, seen>>,
         phase' = [phase EXCEPT ![i] = "exited"], attempt' = attempt, lock' = lock \/ Release(i)
  PROVE  SInv'
<1>1. lock' \in [Databases -> Containers \cup {None}]
  BY DEF SInv, TypeOK, Release
<1>2. TypeOK'
  BY <1>1 DEF SInv, TypeOK
<1>3. /\ \A d \in Databases : lock[d] \in Containers \ {i} => lock'[d] = lock[d]
      /\ \A j \in Containers \ {i} : phase'[j] = phase[j]
      /\ phase'[i] = "exited"
  BY DEF SInv, TypeOK, Release
<1>4. Place(i)'
  BY <1>3 DEF Place, InMigration
<1> QED
  BY <1>2, <1>3, <1>4, OwnStep

\* Retry from a failed attempt.
LEMMA RetryType ==
  ASSUME TypeOK, NEW i \in Containers, Retry(i)
  PROVE  /\ attempt' \in [Containers -> 0 .. MaxAttempts]
         /\ phase'[i] \in {"migrate", "exited"}
         /\ \A j \in Containers \ {i} : phase'[j] = phase[j]
         /\ phase' \in [Containers -> InMigration \cup {"none", "entry", "migrate", "main", "serving", "exited"}]
BY StartupAssumption DEF TypeOK, Retry, Goto

LEMMA ResolveStep ==
  ASSUME SInv, NEW i \in Containers, Resolve(i)
  PROVE  SInv'
<1>1. /\ phase[i] = "entry" /\ target' = [target EXCEPT ![i] = Resolved]
      /\ UNCHANGED <<env, migrated, serves, up, version, dirty, lock, applied, seen>>
  BY DEF Resolve, databaseVars
<1>2. Resolved \in Values /\ Resolved' = Resolved
  BY <1>1, UrlTypes, UrlsStable DEF SInv, Resolved, ShellUrl, ShellFallback, FirstOf
<1>3. target'[i] = Resolved
  BY <1>1 DEF SInv, TypeOK
<1>4. /\ phase' = [phase EXCEPT ![i] = IF Resolved = "unset" THEN "main" ELSE "migrate"]
      /\ attempt' = [attempt EXCEPT ![i] = IF Resolved = "unset" THEN 0 ELSE 1]
  BY <1>3 DEF Resolve, Goto
<1>5. TypeOK'
  BY <1>1, <1>2, <1>4, StartupAssumption DEF SInv, TypeOK
<1>6. migrated[i] = None
  BY <1>1 DEF SInv, Place
<1>7. Place(i)'
  <2>1. phase'[i] = IF Resolved = "unset" THEN "main" ELSE "migrate"
    BY <1>4 DEF SInv, TypeOK
  <2> QED
    BY <1>1, <1>2, <1>3, <1>6, <2>1 DEF Place, InMigration
<1>8. \A j \in Containers \ {i} : phase'[j] = phase[j] /\ target'[j] = target[j]
  BY <1>1, <1>4 DEF SInv, TypeOK
<1> QED
  BY <1>1, <1>5, <1>7, <1>8, OwnStep

LEMMA NotReadyStep ==
  ASSUME SInv, NEW i \in Containers, NotReady(i)
  PROVE  SInv'
<1>1. /\ phase[i] = "migrate" /\ Retry(i)
      /\ UNCHANGED <<env, target, migrated, serves, up, version, dirty, lock, applied, seen>>
  BY DEF NotReady, databaseVars
<1>2. TypeOK'
  BY <1>1, RetryType DEF SInv, TypeOK
<1>3. /\ phase'[i] \in {"migrate", "exited"}
      /\ \A j \in Containers \ {i} : phase'[j] = phase[j]
  BY <1>1, RetryType DEF SInv
<1>4. Place(i)'
  <2>1. Resolved' = Resolved
    BY <1>1, UrlsStable
  <2> QED
    BY <1>1, <1>3, <2>1 DEF SInv, Place, InMigration
<1> QED
  BY <1>1, <1>2, <1>3, <1>4, OwnStep

LEMMA AcquireStep ==
  ASSUME SInv, NEW i \in Containers, Acquire(i)
  PROVE  SInv'
<1> DEFINE d == Migrating(i)
<1>1. /\ phase[i] = "migrate" /\ target[i] # "blank" /\ lock[d] = None
      /\ lock' = [lock EXCEPT ![d] = i] /\ phase' = [phase EXCEPT ![i] = "locked"]
      /\ UNCHANGED <<env, attempt, target, migrated, serves, up, version, dirty, applied, seen>>
  BY DEF Acquire, Goto
<1>2. target[i] \in Values \ {"unset", "blank"} /\ d \in Databases
  <2>1. target[i] \in Values \ {"unset", "blank"}
    BY <1>1 DEF SInv, TypeOK, Place
  <2> QED
    BY <2>1, UrlTypes DEF SInv, Migrating
<1>3. TypeOK'
  BY <1>1, <1>2 DEF SInv, TypeOK, InMigration
<1>4. /\ \A e \in Databases : lock[e] \in Containers \ {i} => lock'[e] = lock[e]
      /\ \A j \in Containers \ {i} : phase'[j] = phase[j]
      /\ phase'[i] = "locked" /\ lock'[d] = i
  BY <1>1, <1>2, StartupAssumption DEF SInv, TypeOK
<1>5. Place(i)'
  BY <1>1, <1>2, <1>4, UrlsStable DEF SInv, Place, InMigration
<1> QED
  BY <1>1, <1>3, <1>4, <1>5, OwnStep

LEMMA ReadVersionStep ==
  ASSUME SInv, NEW i \in Containers, ReadVersion(i)
  PROVE  SInv'
<1> DEFINE d == Migrating(i)
<1>1. /\ phase[i] = "locked"
      /\ UNCHANGED <<env, attempt, target, migrated, serves, up, version, dirty, applied>>
  BY DEF ReadVersion
<1>2. CASE dirty[d]
  <2>1. Release(i) /\ phase' = [phase EXCEPT ![i] = "exited"] /\ seen' = seen
    BY <1>2 DEF ReadVersion, Goto
  <2> QED
    BY <1>1, <2>1, ExitStep
<1>3. CASE ~dirty[d]
  <2>1. /\ seen' = [seen EXCEPT ![i] = version[d]] /\ lock' = lock
        /\ phase' = [phase EXCEPT ![i] = "running"]
    BY <1>3 DEF ReadVersion, Goto
  <2>2. d \in Databases
    BY <1>1, MigratingType DEF InMigration
  <2>3. TypeOK'
    BY <1>1, <2>1, <2>2 DEF SInv, TypeOK, InMigration
  <2>4. /\ \A j \in Containers \ {i} : phase'[j] = phase[j] /\ seen'[j] = seen[j]
        /\ phase'[i] = "running" /\ seen'[i] = version[d]
    BY <2>1 DEF SInv, TypeOK
  <2>5. Place(i)
    BY DEF SInv
  <2>6. Place(i)'
    BY <1>1, <1>3, <2>1, <2>4, <2>5, UrlsStable DEF Place, InMigration
  <2> QED
    BY <1>1, <2>1, <2>3, <2>4, <2>6, OwnStep
<1> QED
  BY <1>2, <1>3

LEMMA MigratedStep ==
  ASSUME SInv, NEW i \in Containers, Migrated(i)
  PROVE  SInv'
<1> DEFINE d == Migrating(i)
<1>1. /\ phase[i] = "running" /\ seen[i] = Latest /\ Release(i)
      /\ migrated' = [migrated EXCEPT ![i] = d] /\ phase' = [phase EXCEPT ![i] = "main"]
      /\ UNCHANGED <<env, attempt, target, serves, up, version, dirty, applied, seen>>
  BY DEF Migrated, Goto
<1>2. d \in Databases
  BY <1>1, MigratingType DEF InMigration
<1>3. TypeOK'
  <2>1. lock' \in [Databases -> Containers \cup {None}]
    BY <1>1 DEF SInv, TypeOK, Release
  <2>2. migrated' \in [Containers -> Databases \cup {None}]
    BY <1>1, <1>2 DEF SInv, TypeOK
  <2> QED
    BY <1>1, <2>1, <2>2 DEF SInv, TypeOK
<1>4. /\ \A e \in Databases : lock[e] \in Containers \ {i} => lock'[e] = lock[e]
      /\ \A j \in Containers \ {i} : phase'[j] = phase[j] /\ migrated'[j] = migrated[j]
      /\ phase'[i] = "main" /\ migrated'[i] = d
  BY <1>1 DEF SInv, TypeOK, Release
<1>5. Place(i)
  BY DEF SInv
<1>6. Place(i)'
  BY <1>1, <1>4, <1>5, UrlsStable DEF Place, InMigration
<1> QED
  BY <1>1, <1>3, <1>4, <1>6, OwnStep

LEMMA MainStep ==
  ASSUME SInv, NEW i \in Containers, Main(i)
  PROVE  SInv'
<1>1. /\ phase[i] = "main"
      /\ UNCHANGED <<env, attempt, target, migrated, up, version, dirty, lock, applied, seen>>
  BY DEF Main, databaseVars
<1>2. CASE ~Ready(i)
  <2>1. phase' = [phase EXCEPT ![i] = "exited"] /\ serves' = serves
    BY <1>2 DEF Main, Goto
  <2> QED
    BY <1>1, <2>1, ExitStep
<1>3. CASE Ready(i)
  <2>1. /\ serves' = [serves EXCEPT ![i] = DatabaseAt(ServerUrl(i))]
        /\ phase' = [phase EXCEPT ![i] = "serving"]
    BY <1>3 DEF Main, Goto
  <2>2. ServerUrl(i) # "fatal"
    BY <1>3 DEF Ready
  <2>3. DatabaseAt(ServerUrl(i)) \in Databases
    <3>1. target[i] \in Values
      BY DEF SInv, TypeOK
    <3> QED
      BY <2>2, <3>1, UrlTypes DEF SInv, ServerUrl
  <2>4. TypeOK'
    <3>1. serves' \in [Containers -> Databases \cup {None}]
      BY <2>1, <2>3 DEF SInv, TypeOK
    <3> QED
      BY <1>1, <2>1, <3>1 DEF SInv, TypeOK
  <2>5. /\ \A j \in Containers \ {i} : phase'[j] = phase[j] /\ serves'[j] = serves[j]
        /\ phase'[i] = "serving" /\ serves'[i] = DatabaseAt(ServerUrl(i))
    BY <2>1 DEF SInv, TypeOK
  <2>6. Place(i)
    BY DEF SInv
  <2>7. Place(i)'
    <3>1. /\ Migrating(i)' = Migrating(i) /\ Resolved' = Resolved
          /\ ServerUrl(i)' = ServerUrl(i)
          /\ DatabaseAt(ServerUrl(i))' = DatabaseAt(ServerUrl(i))
      BY <1>1, UrlsStable
    <3> QED
      BY <1>1, <2>2, <2>5, <2>6, <3>1 DEF Place, InMigration
  <2> QED
    BY <1>1, <2>4, <2>5, <2>7, OwnStep
<1> QED
  BY <1>2, <1>3

LEMMA RestartStep ==
  ASSUME SInv, NEW i \in Containers, Restart(i)
  PROVE  SInv'
<1>1. /\ phase' = [phase EXCEPT ![i] = "entry"]
      /\ target' = [target EXCEPT ![i] = "unset"]
      /\ migrated' = [migrated EXCEPT ![i] = None]
      /\ attempt' = [attempt EXCEPT ![i] = 0]
      /\ UNCHANGED <<env, serves, up, version, dirty, lock, applied, seen>>
  BY DEF Restart, Goto, databaseVars
<1>2. TypeOK'
  <2>1. attempt' \in [Containers -> 0 .. MaxAttempts]
    BY <1>1, StartupAssumption DEF SInv, TypeOK
  <2>2. target' \in [Containers -> Values] /\ migrated' \in [Containers -> Databases \cup {None}]
    BY <1>1 DEF SInv, TypeOK, Values
  <2> QED
    BY <1>1, <2>1, <2>2 DEF SInv, TypeOK
<1>3. /\ \A j \in Containers \ {i} :
           phase'[j] = phase[j] /\ target'[j] = target[j] /\ migrated'[j] = migrated[j]
      /\ phase'[i] = "entry" /\ migrated'[i] = None
  BY <1>1 DEF SInv, TypeOK
<1>4. Place(i)'
  BY <1>3 DEF Place, InMigration
<1> QED
  BY <1>1, <1>2, <1>3, <1>4, OwnStep

-----------------------------------------------------------------------------
(* Steps on a database. *)

\* A step of the container that migrates a database: the others migrate other
\* databases, and none of them has come to its server, for the database is not
\* at its latest version yet.
LEMMA MigrationStep ==
  ASSUME SInv, TypeOK', NEW i \in Containers, phase[i] \in InMigration,
         version[Migrating(i)] < Latest \/ dirty[Migrating(i)],
         UNCHANGED <<env, target, migrated, serves, lock>>,
         \A e \in Databases \ {Migrating(i)} :
           version'[e] = version[e] /\ dirty'[e] = dirty[e] /\ applied'[e] = applied[e],
         \A j \in Containers \ {i} : phase'[j] = phase[j] /\ seen'[j] = seen[j],
         Sequential(Migrating(i))', Place(i)'
  PROVE  SInv'
<1> DEFINE d == Migrating(i)
<1>1. \A e \in Databases : Sequential(e)'
  <2>1. \A e \in Databases \ {d} : Sequential(e)'
    BY DEF SInv, Sequential
  <2>2. Migrating(i)' = Migrating(i)
    BY UrlsStable
  <2>3. \A e \in Databases : e = d => Sequential(e)'
    BY <2>2 DEF Sequential
  <2> QED
    BY <2>1, <2>3
<1>2. d \in Databases
  BY MigratingType
<1>3. version[d] # Latest \/ dirty[d]
  BY <1>2, StartupAssumption DEF SInv, TypeOK
<1>4. ASSUME NEW j \in Containers \ {i} PROVE Place(j)'
  <2>1. Place(j)
    BY DEF SInv
  <2>2. phase[j] \in InMigration =>
          lock[Migrating(j)] = j /\ Migrating(j) \in Databases \ {d}
    BY <2>1, MigratingType, OneMigrates DEF Place
  <2>3. phase[j] \in {"main", "serving"} /\ target[j] # "unset" =>
          Migrating(j) \in Databases \ {d}
    BY <1>3, <2>1, MigratingType DEF Place
  <2>4. Undisturbed(j)
    BY <2>2, <2>3 DEF Undisturbed
  <2> QED
    BY <2>1, <2>4, PlaceKept
<1> QED
  BY <1>1, <1>4 DEF SInv

\* Marking the next migration: it has not run yet.
LEMMA MarkStep ==
  ASSUME SInv, NEW i \in Containers, Mark(i)
  PROVE  SInv'
<1> DEFINE d == Migrating(i)
<1>1. /\ phase[i] = "running" /\ seen[i] < Latest
      /\ seen' = [seen EXCEPT ![i] = @ + 1] /\ version' = [version EXCEPT ![d] = seen[i] + 1]
      /\ dirty' = [dirty EXCEPT ![d] = TRUE] /\ phase' = [phase EXCEPT ![i] = "applying"]
      /\ UNCHANGED <<env, attempt, target, migrated, serves, up, lock, applied>>
  BY DEF Mark, Goto
<1>2. d \in Databases
  BY <1>1, MigratingType DEF InMigration
<1>3. Place(i)
  BY DEF SInv
<1>4. seen[i] = version[d] /\ ~dirty[d]
  BY <1>1, <1>3 DEF Place
<1>5. TypeOK /\ Sequential(d)
  BY <1>2 DEF SInv
<1>6. PICK v \in 0 .. Latest : v = version[d] /\ v < Latest /\ seen[i] = v /\ v + 1 \in 1 .. Latest
  BY <1>1, <1>2, <1>4, <1>5, StartupAssumption DEF TypeOK
<1>7. TypeOK'
  <2>1. seen' \in [Containers -> 0 .. Latest] /\ version' \in [Databases -> 0 .. Latest]
    <3>1. v + 1 \in 0 .. Latest
      BY <1>6, StartupAssumption
    <3>2. seen' = [seen EXCEPT ![i] = v + 1] /\ version' = [version EXCEPT ![d] = v + 1]
      BY <1>1, <1>6
    <3> QED
      BY <1>5, <3>1, <3>2 DEF TypeOK
  <2>2. dirty' \in [Databases -> BOOLEAN]
    BY <1>1, <1>5 DEF TypeOK
  <2> QED
    BY <1>1, <1>5, <2>1, <2>2 DEF TypeOK, InMigration
<1>8. /\ version'[d] = v + 1 /\ dirty'[d] /\ seen'[i] = v + 1 /\ phase'[i] = "applying"
      /\ \A e \in Databases \ {d} : version'[e] = version[e] /\ dirty'[e] = dirty[e]
      /\ \A j \in Containers \ {i} : phase'[j] = phase[j] /\ seen'[j] = seen[j]
  BY <1>1, <1>2, <1>5, <1>6 DEF TypeOK
<1>9. Migrating(i)' = d
  BY <1>1, UrlsStable
<1>10. Sequential(d)'
  <2>1. \A n \in 1 .. Latest : /\ n <= v => applied[d][n] = 1
                               /\ n > v => applied[d][n] = 0
    BY <1>4, <1>5, <1>6 DEF Sequential
  <2> QED
    BY <1>1, <1>6, <1>8, <1>9, <2>1, StartupAssumption DEF Sequential
<1>11. applied[d][v + 1] = 0
  BY <1>5, <1>6 DEF Sequential
<1>12. Place(i)'
  BY <1>1, <1>3, <1>8, <1>9, <1>11, UrlsStable DEF Place, InMigration
<1> QED
  BY <1>1, <1>6, <1>7, <1>8, <1>10, <1>12, MigrationStep DEF InMigration

LEMMA ApplyStep ==
  ASSUME SInv, NEW i \in Containers, Apply(i)
  PROVE  SInv'
<1> DEFINE d == Migrating(i)
<1>1. /\ phase[i] = "applying" /\ phase' = [phase EXCEPT ![i] = "applied"]
      /\ applied' = [applied EXCEPT ![d][seen[i]] = @ + 1]
      /\ UNCHANGED <<env, attempt, target, migrated, serves, up, version, dirty, lock, seen>>
  BY DEF Apply, Goto
<1>2. d \in Databases
  BY <1>1, MigratingType DEF InMigration
<1>3. Place(i)
  BY DEF SInv
<1>4. seen[i] = version[d] /\ dirty[d] /\ applied[d][seen[i]] = 0
  BY <1>1, <1>3 DEF Place
<1>5. TypeOK /\ Sequential(d)
  BY <1>2 DEF SInv
<1>6. PICK v \in 1 .. Latest : v = version[d] /\ v = seen[i]
  BY <1>2, <1>4, <1>5, StartupAssumption DEF TypeOK, Sequential
<1>7. /\ applied' \in [Databases -> [1 .. Latest -> Nat]]
      /\ applied'[d] = [applied[d] EXCEPT ![v] = 1]
      /\ \A e \in Databases \ {d} : applied'[e] = applied[e]
  <2>1. applied[d] \in [1 .. Latest -> Nat]
    BY <1>2, <1>5 DEF TypeOK
  <2>2. applied' = [applied EXCEPT ![d] = [applied[d] EXCEPT ![v] = 1]]
    BY <1>1, <1>4, <1>6
  <2> QED
    BY <1>2, <1>5, <2>1, <2>2 DEF TypeOK
<1>8. TypeOK'
  BY <1>1, <1>5, <1>7 DEF TypeOK, InMigration
<1>9. /\ phase'[i] = "applied" /\ \A j \in Containers \ {i} : phase'[j] = phase[j]
  BY <1>1, <1>5 DEF TypeOK
<1>10. Migrating(i)' = d
  BY <1>1, UrlsStable
<1>11. /\ applied'[d][v] = 1
       /\ \A n \in 1 .. Latest : n # v => applied'[d][n] = applied[d][n]
  <2>1. applied[d] \in [1 .. Latest -> Nat]
    BY <1>2, <1>5 DEF TypeOK
  <2> QED
    BY <1>7, <2>1
<1>12. Sequential(d)'
  BY <1>1, <1>5, <1>6, <1>10, <1>11, StartupAssumption DEF Sequential
<1>13. Place(i)'
  BY <1>1, <1>3, <1>4, <1>6, <1>9, <1>10, <1>11, UrlsStable DEF Place, InMigration
<1> QED
  BY <1>1, <1>4, <1>7, <1>8, <1>9, <1>12, <1>13, MigrationStep DEF InMigration

LEMMA UnmarkStep ==
  ASSUME SInv, NEW i \in Containers, Unmark(i)
  PROVE  SInv'
<1> DEFINE d == Migrating(i)
<1>1. /\ phase[i] = "applied" /\ phase' = [phase EXCEPT ![i] = "running"]
      /\ dirty' = [dirty EXCEPT ![d] = FALSE]
      /\ UNCHANGED <<env, attempt, target, migrated, serves, up, version, lock, applied, seen>>
  BY DEF Unmark, Goto
<1>2. d \in Databases
  BY <1>1, MigratingType DEF InMigration
<1>3. Place(i)
  BY DEF SInv
<1>4. seen[i] = version[d] /\ dirty[d] /\ applied[d][seen[i]] = 1
  BY <1>1, <1>3 DEF Place
<1>5. TypeOK /\ Sequential(d)
  BY <1>2 DEF SInv
<1>6. TypeOK'
  <2>1. dirty' \in [Databases -> BOOLEAN]
    BY <1>1, <1>5 DEF TypeOK
  <2> QED
    BY <1>1, <1>5, <2>1 DEF TypeOK, InMigration
<1>7. /\ phase'[i] = "running" /\ ~dirty'[d]
      /\ \A e \in Databases \ {d} : dirty'[e] = dirty[e]
      /\ \A j \in Containers \ {i} : phase'[j] = phase[j]
  BY <1>1, <1>2, <1>5 DEF TypeOK
<1>8. Migrating(i)' = d
  BY <1>1, UrlsStable
<1>9. Sequential(d)'
  BY <1>1, <1>4, <1>5, <1>7, <1>8 DEF Sequential
<1>10. Place(i)'
  BY <1>1, <1>3, <1>4, <1>7, <1>8, UrlsStable DEF Place, InMigration
<1> QED
  BY <1>1, <1>4, <1>6, <1>7, <1>9, <1>10, MigrationStep DEF InMigration

\* A database goes down: only the container that migrated it notices.
LEMMA GoDownStep ==
  ASSUME SInv, NEW d \in Databases, GoDown(d)
  PROVE  SInv'
<1> DEFINE victims == {i \in Containers : phase[i] \in InMigration /\ Migrating(i) = d}
<1>1. /\ up' = [up EXCEPT ![d] = FALSE] /\ lock' = [lock EXCEPT ![d] = None]
      /\ UNCHANGED <<env, target, migrated, serves, version, dirty, applied, seen>>
  BY DEF GoDown
<1>2. /\ up' \in [Databases -> BOOLEAN] /\ lock' \in [Databases -> Containers \cup {None}]
      /\ \A e \in Databases \ {d} : lock'[e] = lock[e]
  BY <1>1 DEF SInv, TypeOK
<1>3. \A e \in Databases : Sequential(e)'
  BY <1>1 DEF SInv, Sequential
<1>4. ASSUME NEW j \in Containers \ victims, phase'[j] = phase[j] PROVE Place(j)'
  <2>1. Place(j)
    BY DEF SInv
  <2>2. phase[j] \in InMigration => lock'[Migrating(j)] = j
    BY <1>2, <2>1, MigratingType DEF Place
  <2>3. Undisturbed(j)
    BY <1>1, <2>2 DEF Undisturbed
  <2> QED
    BY <1>1, <1>4, <2>1, <2>3, PlaceKept
<1>5. CASE \E i \in victims : Retry(i)
  <2>1. PICK i \in victims : Retry(i)
    BY <1>5
  <2>2. TypeOK'
    BY <1>1, <1>2, <2>1, RetryType DEF SInv, TypeOK
  <2>3. /\ phase'[i] \in {"migrate", "exited"}
        /\ \A j \in Containers \ {i} : phase'[j] = phase[j]
    BY <2>1, RetryType DEF SInv
  <2>4. Place(i)'
    <3>1. Place(i) /\ Resolved' = Resolved
      BY <1>1, <2>1, UrlsStable DEF SInv
    <3>2. phase[i] \in InMigration
      BY <2>1
    <3> QED
      BY <1>1, <2>3, <3>1, <3>2 DEF Place, InMigration
  <2>5. \A j \in victims : j = i
    BY <2>1, OneMigrates
  <2> QED
    BY <1>1, <1>3, <1>4, <2>2, <2>3, <2>4, <2>5 DEF SInv
<1>6. CASE /\ phase' = [i \in Containers |-> IF i \in victims THEN "exited" ELSE phase[i]]
           /\ attempt' = attempt
  <2>1. TypeOK'
    BY <1>1, <1>2, <1>6 DEF SInv, TypeOK
  <2>2. ASSUME NEW i \in victims PROVE Place(i)'
    <3>1. phase'[i] = "exited"
      BY <1>6
    <3> QED
      BY <3>1 DEF Place, InMigration
  <2>3. \A j \in Containers \ victims : phase'[j] = phase[j]
    BY <1>6
  <2> QED
    BY <1>1, <1>3, <1>4, <2>1, <2>2, <2>3 DEF SInv
<1> QED
  BY <1>5, <1>6 DEF GoDown

\* No step looks at whether a database answers once it is migrated.
LEMMA ComeUpStep ==
  ASSUME SInv, NEW d \in Databases, ComeUp(d)
  PROVE  SInv'
<1>1. /\ up' = [up EXCEPT ![d] = TRUE]
      /\ UNCHANGED <<env, phase, attempt, target, migrated, serves, version, dirty, lock, applied, seen>>
  BY DEF ComeUp
<1>2. TypeOK' /\ \A e \in Databases : Sequential(e)'
  BY <1>1 DEF SInv, TypeOK, Sequential
<1>3. ASSUME NEW j \in Containers PROVE Place(j)'
  <2>1. Place(j)
    BY DEF SInv
  <2>2. Undisturbed(j)
    BY <1>1, <2>1 DEF Undisturbed, Place
  <2> QED
    BY <1>1, <2>1, <2>2, PlaceKept
<1> QED
  BY <1>1, <1>2, <1>3 DEF SInv

LEMMA StutterStep ==
  ASSUME SInv, UNCHANGED vars
  PROVE  SInv'
<1>1. UNCHANGED <<env, phase, attempt, target, migrated, serves, up, version, dirty, lock, applied, seen>>
  BY DEF vars
<1>2. TypeOK' /\ \A e \in Databases : Sequential(e)'
  BY <1>1 DEF SInv, TypeOK, Sequential
<1>3. ASSUME NEW j \in Containers PROVE Place(j)'
  <2>1. Place(j)
    BY DEF SInv
  <2>2. Undisturbed(j)
    BY <1>1, <2>1 DEF Undisturbed, Place
  <2> QED
    BY <1>1, <2>1, <2>2, PlaceKept
<1> QED
  BY <1>1, <1>2, <1>3 DEF SInv

LEMMA NextSInv == SInv /\ [Next]_vars => SInv'
<1> SUFFICES ASSUME SInv, [Next]_vars PROVE SInv'
  OBVIOUS
<1>1. ASSUME NEW i \in Containers, Entrypoint(i) PROVE SInv'
  <2>1. CASE BadUrl(i) \/ Unrecognised(i)
    BY <2>1, ExitStep DEF BadUrl, Unrecognised, Goto, databaseVars
  <2>2. CASE Resolve(i) \/ NotReady(i) \/ Acquire(i) \/ ReadVersion(i)
    BY <2>2, ResolveStep, NotReadyStep, AcquireStep, ReadVersionStep
  <2>3. CASE Mark(i) \/ Apply(i) \/ Unmark(i) \/ Migrated(i)
    BY <2>3, MarkStep, ApplyStep, UnmarkStep, MigratedStep
  <2> QED
    BY <1>1, <2>1, <2>2, <2>3 DEF Entrypoint
<1>2. ASSUME NEW i \in Containers, Kill(i) PROVE SInv'
  BY <1>2, ExitStep DEF Kill, Goto
<1>3. ASSUME NEW i \in Containers, Main(i) \/ Restart(i) PROVE SInv'
  BY <1>3, MainStep, RestartStep
<1>4. ASSUME NEW d \in Databases, GoDown(d) \/ ComeUp(d) PROVE SInv'
  BY <1>4, GoDownStep, ComeUpStep
<1>5. CASE Serving \/ UNCHANGED vars
  BY <1>5, StutterStep DEF Serving
<1> QED
  BY <1>1, <1>2, <1>3, <1>4, <1>5 DEF Next

LEMMA StartupInvariant == Spec => []SInv
BY InitSInv, NextSInv, PTL DEF Spec

-----------------------------------------------------------------------------
(* What follows. *)

\* The variables keep their types: no attempt is counted beyond MaxAttempts,
\* and no version beyond the latest migration is ever recorded.
THEOREM TypeCorrect == Spec => []TypeOK
<1>1. SInv => TypeOK
  BY DEF SInv
<1> QED
  BY <1>1, StartupInvariant, PTL

\* However many containers start together, are killed or lose their database,
\* each migration takes effect at most once, and only after the one before it.
THEOREM MigrationsAppliedOnce == Spec => []AppliedOnce
<1>1. ASSUME SInv PROVE AppliedOnce
  <2> SUFFICES ASSUME NEW d \in Databases, NEW n \in 1 .. Latest
               PROVE  applied[d][n] <= 1 /\ (n > 1 /\ applied[d][n] = 1 => applied[d][n - 1] = 1)
    BY DEF AppliedOnce
  <2>1. Sequential(d) /\ Latest \in Nat
    BY <1>1, StartupAssumption DEF SInv
  <2>2. PICK v \in 0 .. Latest : v = version[d]
    BY <1>1 DEF SInv, TypeOK
  <2>3. applied[d][n] \in {0, 1} /\ (applied[d][n] = 1 => n <= v)
    BY <2>1, <2>2 DEF Sequential
  <2>4. ASSUME n > 1, applied[d][n] = 1 PROVE applied[d][n - 1] = 1
    <3>1. n - 1 \in 1 .. Latest /\ n - 1 < v
      BY <2>1, <2>2, <2>3, <2>4
    <3> QED
      BY <2>1, <2>2, <3>1 DEF Sequential
  <2> QED
    BY <2>3, <2>4
<1> QED
  BY <1>1, StartupInvariant, PTL

\* A server uses the database its entrypoint migrated.
LEMMA ServedDatabase ==
  ASSUME SInv, NEW i \in Containers, phase[i] = "serving", target[i] # "unset", ~Differ
  PROVE  serves[i] = Migrating(i) /\ migrated[i] = Migrating(i)
<1>1. Place(i)
  BY DEF SInv
<1>2. /\ target[i] # "blank" /\ migrated[i] = DatabaseAt(target[i])
      /\ target[i] = Resolved /\ ServerUrl(i) # "fatal"
      /\ serves[i] = DatabaseAt(ServerUrl(i))
  BY <1>1 DEF Place, Migrating
<1>3. target[i] = ShellUrl
  BY <1>2 DEF Resolved
<1> QED
  BY <1>2, <1>3, UrlsAgree DEF SInv, ServerUrl, Migrating

\* The shell's and the server's readings of the environment lead to the same
\* database, for every environment in which they do not differ.
THEOREM ServesTheMigrated == Spec => []ServesWhatWasMigrated
<1>1. ASSUME SInv PROVE ServesWhatWasMigrated
  <2> SUFFICES ASSUME NEW i \in Containers, phase[i] = "serving", migrated[i] # None, ~Differ
               PROVE  serves[i] = migrated[i]
    BY DEF ServesWhatWasMigrated
  <2>1. target[i] # "unset"
    BY <1>1 DEF SInv, Place
  <2> QED
    BY <1>1, <2>1, ServedDatabase
<1> QED
  BY <1>1, StartupInvariant, PTL

\* A server whose entrypoint had a URL to migrate uses a database with every
\* migration applied and none half done, where the readings do not differ.
THEOREM SchemaIsCurrent == Spec => []ServesCurrentSchema
<1>1. ASSUME SInv PROVE ServesCurrentSchema
  <2> SUFFICES ASSUME NEW i \in Containers, phase[i] = "serving", target[i] # "unset", ~Differ
               PROVE  LET d == serves[i]
                      IN version[d] = Latest /\ ~dirty[d] /\ applied[d][Latest] = 1
    BY DEF ServesCurrentSchema
  <2>1. Migrating(i) \in Databases /\ serves[i] = Migrating(i)
    BY <1>1, MigratingType, ServedDatabase
  <2>2. version[Migrating(i)] = Latest /\ ~dirty[Migrating(i)]
    BY <1>1 DEF SInv, Place
  <2>3. Latest \in 1 .. Latest
    BY StartupAssumption
  <2>4. applied[Migrating(i)][Latest] = 1
    BY <1>1, <2>1, <2>2, <2>3 DEF SInv, Sequential
  <2> QED
    BY <2>1, <2>2, <2>4
<1> QED
  BY <1>1, StartupInvariant, PTL
=============================================================================
