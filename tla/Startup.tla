------------------------------- MODULE Startup -------------------------------
(***************************************************************************)
(* Containers starting: docker-entrypoint works out a database URL, runs   *)
(* the migrations with retries and starts the server; main checks its      *)
(* environment, works out the URL again in its own way, and serves once    *)
(* the database answers.  A container that exits is started again          *)
(* (docker-compose.yml: restart: unless-stopped).  Several containers of   *)
(* one deployment share the environment and the databases.                 *)
(***************************************************************************)
EXTENDS Integers, FiniteSets, FiniteSetsExt

CONSTANTS
  Containers,
  Deployments,   \* environments, containers and faults a deployment may have
  Latest,        \* number of the last migration
  MaxAttempts,   \* max_attempts
  None

\* Values of a URL variable: LOCAL is a local URL spelled in upper case.
Values == {"unset", "blank", "local", "LOCAL", "a", "b"}
Databases == {"local", "a", "b"}

ASSUME StartupAssumption ==
  /\ {Latest, MaxAttempts} \subseteq Nat \ {0}
  /\ None \notin Containers
  /\ \A e \in Deployments :
       /\ e.containers \subseteq Containers
       /\ {e.outages, e.kills, e.secretLength} \subseteq Nat
       /\ e.dbUrl \in Values /\ e.fallback \in [DOMAIN e.fallback -> Values]
       /\ DOMAIN e.fallback \subseteq Nat
       /\ {e.render, e.migrate} \subseteq BOOLEAN

VARIABLES
  env,       \* the deployment: its environment, containers and faults
  phase,     \* where each container is
  attempt,   \* its attempt at the migrations
  target,    \* the URL its entrypoint worked out
  migrated,  \* the database its entrypoint migrated
  serves,    \* the database its server uses
  up,        \* databases that answer
  version,   \* schema_migrations.version
  dirty,     \* schema_migrations.dirty
  seen,      \* the version a migration run goes on from
  lock,      \* who holds the advisory lock of the migrations
  applied,   \* how often each migration took effect
  budget     \* outages and kills still to come

databaseVars == <<up, version, dirty, lock, applied, seen>>
vars == <<env, phase, attempt, target, migrated, serves, up, version, dirty, lock, applied, seen, budget>>

-----------------------------------------------------------------------------
(* The two resolutions of the database URL. *)

FirstOf(S) == IF S = {} THEN "unset" ELSE env.fallback[Min(S)]

\* The shell takes any value that is not empty, blanks included.
ShellFallback == FirstOf({k \in DOMAIN env.fallback : env.fallback[k] # "unset"})
\* Go trims first.
GoFallback == FirstOf({k \in DOMAIN env.fallback : env.fallback[k] \notin {"unset", "blank"}})

\* Variant: a local URL is not replaced.
ShellUrl_KeepsLocal == IF env.dbUrl = "unset" THEN ShellFallback ELSE env.dbUrl

\* resolve_db_url: a local URL gives way to a fallback, if it is in lower case.
ShellUrl ==
  LET first == IF env.dbUrl = "unset" THEN ShellFallback ELSE env.dbUrl
  IN IF first = "local" /\ ShellFallback # "unset" THEN ShellFallback ELSE first

\* DB_URL as the server finds it: the entrypoint exports its own result only
\* where there was none.
Exported(url) == IF env.dbUrl = "unset" THEN url ELSE env.dbUrl

\* resolveDBURL: a local URL gives way to a fallback in any spelling; on
\* Render a local URL, or none, is fatal.
GoUrl(url) ==
  LET local == url \in {"unset", "blank", "local", "LOCAL"}
  IN IF ~local THEN url
     ELSE IF GoFallback # "unset" THEN GoFallback
     ELSE IF env.render THEN "fatal" ELSE "local"

DatabaseAt(url) == IF url = "LOCAL" THEN "local" ELSE url

-----------------------------------------------------------------------------
(* The entrypoint. *)

Init ==
  /\ env \in Deployments
  /\ phase = [i \in Containers |-> IF i \in env.containers THEN "entry" ELSE "none"]
  /\ attempt = [i \in Containers |-> 0]
  /\ target = [i \in Containers |-> "unset"]
  /\ migrated = [i \in Containers |-> None]
  /\ serves = [i \in Containers |-> None]
  /\ up \in [Databases -> BOOLEAN]
  /\ version = [d \in Databases |-> 0]
  /\ dirty = [d \in Databases |-> FALSE]
  /\ seen = [i \in Containers |-> 0]
  /\ lock = [d \in Databases |-> None]
  /\ applied = [d \in Databases |-> [n \in 1 .. Latest |-> 0]]
  /\ budget = [outages |-> env.outages, kills |-> env.kills]

Goto(i, next) == phase' = [phase EXCEPT ![i] = next]
Release(i) == lock' = [d \in Databases |-> IF lock[d] = i THEN None ELSE lock[d]]

Resolved == IF env.migrate THEN ShellUrl ELSE "unset"
Resolve(i) ==
  /\ phase[i] = "entry"
  /\ target' = [target EXCEPT ![i] = Resolved]
  /\ Goto(i, IF target'[i] = "unset" THEN "main" ELSE "migrate")
  /\ attempt' = [attempt EXCEPT ![i] = IF target'[i] = "unset" THEN 0 ELSE 1]
  /\ UNCHANGED <<env, migrated, serves, databaseVars, budget>>

\* Variant: after the last attempt the server is started all the same.
Retry_FallsThrough(i) ==
  /\ Goto(i, IF attempt[i] < MaxAttempts THEN "migrate" ELSE "main")
  /\ attempt' = [attempt EXCEPT ![i] = IF attempt[i] < MaxAttempts THEN @ + 1 ELSE @]

\* Variant: one attempt too many.
Retry_OffByOne(i) ==
  /\ Goto(i, IF attempt[i] <= MaxAttempts THEN "migrate" ELSE "exited")
  /\ attempt' = [attempt EXCEPT ![i] = IF attempt[i] <= MaxAttempts THEN @ + 1 ELSE @]

\* The output names a connection problem: again, or exit after the last one.
Retry(i) ==
  /\ Goto(i, IF attempt[i] < MaxAttempts THEN "migrate" ELSE "exited")
  /\ attempt' = [attempt EXCEPT ![i] = IF attempt[i] < MaxAttempts THEN @ + 1 ELSE @]

Migrating(i) == DatabaseAt(target[i])

\* migrate up fails, and its output decides: the texts of a connection problem
\* mean another attempt, any other text the end.  A value that is no URL is the
\* end; a lock that another container keeps for 15 seconds ("timeout") is not; a
\* database that does not answer is either, by the text: "connection refused"
\* is on the list, "the database system is starting up" and "no such host" are not.
BadUrl(i) ==
  /\ phase[i] = "migrate" /\ target[i] = "blank"
  /\ Goto(i, "exited")
  /\ UNCHANGED <<env, attempt, target, migrated, serves, databaseVars, budget>>

NotReady(i) ==
  /\ phase[i] = "migrate" /\ target[i] # "blank"
  /\ ~up[Migrating(i)] \/ lock[Migrating(i)] # None
  /\ Retry(i)
  /\ UNCHANGED <<env, target, migrated, serves, databaseVars, budget>>

Unrecognised(i) ==
  /\ phase[i] = "migrate" /\ target[i] # "blank"
  /\ ~up[Migrating(i)]
  /\ Goto(i, "exited")
  /\ UNCHANGED <<env, attempt, target, migrated, serves, databaseVars, budget>>

\* Variant: no lock is taken.
Acquire_Unlocked(i) ==
  /\ phase[i] = "migrate" /\ target[i] # "blank"
  /\ up[Migrating(i)]
  /\ Goto(i, "locked")
  /\ UNCHANGED <<env, attempt, target, migrated, serves, databaseVars, budget>>

Acquire(i) ==
  /\ phase[i] = "migrate" /\ target[i] # "blank"
  /\ up[Migrating(i)] /\ lock[Migrating(i)] = None
  /\ lock' = [lock EXCEPT ![Migrating(i)] = i]
  /\ Goto(i, "locked")
  /\ UNCHANGED <<env, attempt, target, migrated, serves, up, version, dirty, applied, seen, budget>>

\* The version is read once, after the lock; a dirty one is a final error.
ReadVersion(i) ==
  LET d == Migrating(i)
  IN /\ phase[i] = "locked"
     /\ IF dirty[d]
        THEN Release(i) /\ Goto(i, "exited") /\ UNCHANGED seen
        ELSE seen' = [seen EXCEPT ![i] = version[d]] /\ Goto(i, "running") /\ UNCHANGED lock
     /\ UNCHANGED <<env, attempt, target, migrated, serves, up, version, dirty, applied, budget>>

\* The next migration is marked before it runs.
Mark(i) ==
  /\ phase[i] = "running" /\ seen[i] < Latest
  /\ seen' = [seen EXCEPT ![i] = @ + 1]
  /\ version' = [version EXCEPT ![Migrating(i)] = seen[i] + 1]
  /\ dirty' = [dirty EXCEPT ![Migrating(i)] = TRUE]
  /\ Goto(i, "applying")
  /\ UNCHANGED <<env, attempt, target, migrated, serves, up, lock, applied, budget>>

Apply(i) ==
  /\ phase[i] = "applying"
  /\ applied' = [applied EXCEPT ![Migrating(i)][seen[i]] = @ + 1]
  /\ Goto(i, "applied")
  /\ UNCHANGED <<env, attempt, target, migrated, serves, up, version, dirty, lock, seen, budget>>

Unmark(i) ==
  /\ phase[i] = "applied"
  /\ dirty' = [dirty EXCEPT ![Migrating(i)] = FALSE]
  /\ Goto(i, "running")
  /\ UNCHANGED <<env, attempt, target, migrated, serves, up, version, lock, applied, seen, budget>>

\* Variant: "no change" is taken for a failure.
Migrated_NoChangeFails(i) ==
  /\ phase[i] = "running" /\ seen[i] = Latest
  /\ Release(i)
  /\ Goto(i, "exited")
  /\ UNCHANGED <<env, attempt, target, migrated, serves, up, version, dirty, applied, seen, budget>>

\* Nothing is left to do, at once ("no change") or after the last migration.
Migrated(i) ==
  /\ phase[i] = "running" /\ seen[i] = Latest
  /\ Release(i)
  /\ migrated' = [migrated EXCEPT ![i] = Migrating(i)]
  /\ Goto(i, "main")
  /\ UNCHANGED <<env, attempt, target, serves, up, version, dirty, applied, seen, budget>>

-----------------------------------------------------------------------------
(* The server. *)

validateEnvironment == env.missing = {}
InitTokenAuth == env.secretLength >= 32
Ping(url) == up[DatabaseAt(url)]

ServerUrl(i) == GoUrl(Exported(target[i]))

\* The checks of main in their order, each of them fatal.
Ready(i) ==
  /\ validateEnvironment
  /\ InitTokenAuth
  /\ ServerUrl(i) # "fatal"
  /\ Ping(ServerUrl(i))

Main(i) ==
  /\ phase[i] = "main"
  /\ IF Ready(i)
     THEN /\ serves' = [serves EXCEPT ![i] = DatabaseAt(ServerUrl(i))]
          /\ Goto(i, "serving")
     ELSE /\ Goto(i, "exited")
          /\ UNCHANGED serves
  /\ UNCHANGED <<env, attempt, target, migrated, databaseVars, budget>>

-----------------------------------------------------------------------------
(* The environment. *)

InMigration == {"locked", "running", "applying", "applied"}

Restart(i) ==
  /\ phase[i] = "exited"
  /\ Goto(i, "entry")
  /\ target' = [target EXCEPT ![i] = "unset"]
  /\ migrated' = [migrated EXCEPT ![i] = None]
  /\ attempt' = [attempt EXCEPT ![i] = 0]
  /\ UNCHANGED <<env, serves, databaseVars, budget>>

\* A container that starts is killed; its session and its lock are gone.
Kill(i) ==
  /\ budget.kills > 0
  /\ phase[i] \in InMigration \cup {"migrate", "main"}
  /\ budget' = [budget EXCEPT !.kills = @ - 1]
  /\ Release(i)
  /\ Goto(i, "exited")
  /\ UNCHANGED <<env, attempt, target, migrated, serves, up, version, dirty, applied, seen>>

\* A database goes down: who migrates it loses its session, with an error the
\* entrypoint may or may not take for a connection problem.
GoDown(d) ==
  LET victims == {i \in Containers : phase[i] \in InMigration /\ Migrating(i) = d}
  IN /\ budget.outages > 0 /\ up[d]
     /\ budget' = [budget EXCEPT !.outages = @ - 1]
     /\ up' = [up EXCEPT ![d] = FALSE]
     /\ lock' = [lock EXCEPT ![d] = None]
     /\ \/ /\ victims # {}
           /\ \E i \in victims : Retry(i)
        \/ /\ phase' = [i \in Containers |-> IF i \in victims THEN "exited" ELSE phase[i]]
           /\ UNCHANGED attempt
     /\ UNCHANGED <<env, target, migrated, serves, version, dirty, applied, seen>>

ComeUp(d) ==
  /\ ~up[d]
  /\ up' = [up EXCEPT ![d] = TRUE]
  /\ UNCHANGED <<env, phase, attempt, target, migrated, serves, version, dirty, lock, applied, seen, budget>>

Serving ==
  /\ \A i \in env.containers : phase[i] = "serving"
  /\ UNCHANGED vars

Entrypoint(i) ==
  \/ Resolve(i) \/ BadUrl(i) \/ NotReady(i) \/ Unrecognised(i)
  \/ Acquire(i) \/ ReadVersion(i) \/ Mark(i) \/ Apply(i) \/ Unmark(i) \/ Migrated(i)

Next ==
  \/ \E i \in Containers : Entrypoint(i) \/ Main(i) \/ Restart(i) \/ Kill(i)
  \/ \E d \in Databases : GoDown(d) \/ ComeUp(d)
  \/ Serving

\* Containers run, docker starts them again, databases come back.
Fairness ==
  /\ \A i \in Containers :
       /\ WF_vars(Entrypoint(i))
       /\ WF_vars(Main(i)) /\ WF_vars(Restart(i))
  /\ \A d \in Databases : WF_vars(ComeUp(d))

Spec == Init /\ [][Next]_vars
FairSpec == Spec /\ Fairness

-----------------------------------------------------------------------------
(* Properties. *)

\* Types.
TypeOK ==
  /\ phase \in [Containers -> InMigration \cup {"none", "entry", "migrate", "main", "serving", "exited"}]
  /\ attempt \in [Containers -> 0 .. MaxAttempts]
  /\ target \in [Containers -> Values]
  /\ {migrated, serves} \subseteq [Containers -> Databases \cup {None}]
  /\ up \in [Databases -> BOOLEAN]
  /\ version \in [Databases -> 0 .. Latest]
  /\ dirty \in [Databases -> BOOLEAN]
  /\ lock \in [Databases -> Containers \cup {None}]
  /\ seen \in [Containers -> 0 .. Latest]
  /\ applied \in [Databases -> [1 .. Latest -> Nat]]

\* The one case in which the two resolutions lead to different databases: a
\* local DB_URL in upper case, which the server replaces by a fallback and the
\* entrypoint does not.
Differ == env.dbUrl = "LOCAL" /\ GoFallback \notin {"unset", "local", "LOCAL"}

\* The server uses the database its entrypoint migrated, though the two work
\* it out separately.
ServesWhatWasMigrated ==
  \A i \in Containers :
    phase[i] = "serving" /\ migrated[i] # None /\ ~Differ => serves[i] = migrated[i]

\* Where the entrypoint had a URL to migrate, every migration is complete in
\* the database the server uses, whoever applied it and whatever was killed or
\* lost meanwhile; except where the resolutions differ.
ServesCurrentSchema ==
  \A i \in Containers :
    phase[i] = "serving" /\ target[i] # "unset" /\ ~Differ =>
      LET d == serves[i] IN version[d] = Latest /\ ~dirty[d] /\ applied[d][Latest] = 1

\* Containers that start together, or again, apply each migration once and in
\* order.  (The first four tolerate being run again, one after the other; at the
\* same time two runs could both insert the Settlement Account.  The CREATE
\* TABLE of the fifth fails when it is run again.)
AppliedOnce ==
  \A d \in Databases : \A n \in 1 .. Latest :
    applied[d][n] <= 1 /\ (n > 1 /\ applied[d][n] = 1 => applied[d][n - 1] = 1)

\* A migration was interrupted: the version stays dirty until someone repairs it.
Interrupted == \E d \in Databases : dirty[d] /\ lock[d] = None

\* A deployment with a sound environment comes up, whatever is down or killed
\* at first, unless a migration was interrupted.
Sound ==
  /\ validateEnvironment /\ InitTokenAuth
  /\ Resolved # "blank" /\ GoUrl(Exported(Resolved)) # "fatal"
ComesUp ==
  \A i \in Containers :
    <>(Sound /\ i \in env.containers => phase[i] = "serving" \/ Interrupted)
=============================================================================
