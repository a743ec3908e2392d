------------------------------ MODULE Lifecycle ------------------------------
(***************************************************************************)
(* The server from the first connection to the end of the process: main    *)
(* waits for a failure of the listener or for a signal, drains the         *)
(* connections for at most the grace period, forces the rest closed,       *)
(* closes the limiters and the pool, and returns.  Handlers run meanwhile. *)
(* Connections follow net/http: one request at a time, an answer that is   *)
(* late for the write deadline is lost, idle connections are closed by     *)
(* Shutdown.  Time is counted in units of five seconds.                    *)
(***************************************************************************)
EXTENDS Integers

CONSTANTS
  Connections,
  ReadHeaderTimeout,  \* 5 s
  WriteTimeout,       \* 15 s
  Grace               \* 30 s

ASSUME LifecycleAssumption ==
  /\ {ReadHeaderTimeout, WriteTimeout, Grace} \subseteq Nat \ {0}
  /\ ReadHeaderTimeout <= WriteTimeout

VARIABLES
  main,      \* where the goroutine of main is
  listener,  \* "up", "failed" or "closed"
  pending,   \* signals in the channel, which holds one
  drained,   \* how long the grace period has lasted
  pool,      \* dbConn: "open" or "closed"
  conn,      \* each connection, "cut" when a request got no answer
  work,      \* the handler on each connection
  age        \* time since the connection, or the request on it, began

vars == <<main, listener, pending, drained, pool, conn, work, age>>
connVars == <<conn, work, age>>

Open == {"new", "active", "idle"}
InFlight(c) == work[c] # "none"

Init ==
  /\ main = "select"
  /\ listener = "up"
  /\ pending = 0
  /\ drained = 0
  /\ pool = "open"
  /\ conn = [c \in Connections |-> "none"]
  /\ work = [c \in Connections |-> "none"]
  /\ age = [c \in Connections |-> 0]

-----------------------------------------------------------------------------
(* Connections and handlers. *)

Set(c, state, doing) ==
  /\ conn' = [conn EXCEPT ![c] = state]
  /\ work' = [work EXCEPT ![c] = doing]

Accept(c) ==
  /\ listener = "up" /\ conn[c] = "none"
  /\ Set(c, "new", "none")
  /\ age' = [age EXCEPT ![c] = 0]
  /\ UNCHANGED <<main, listener, pending, drained, pool>>

\* The headers of a request are read, and the write deadline starts.
Read(c) ==
  /\ \/ conn[c] = "new" /\ age[c] < ReadHeaderTimeout
     \/ conn[c] = "idle"
  /\ Set(c, "active", "waiting")
  /\ age' = [age EXCEPT ![c] = 0]
  /\ UNCHANGED <<main, listener, pending, drained, pool>>

\* Closed without a request: the header deadline, Shutdown, or the client.
CloseUnused(c) ==
  /\ \/ conn[c] = "new" /\ age[c] >= ReadHeaderTimeout
     \/ conn[c] = "idle"
  /\ Set(c, "closed", "none")
  /\ UNCHANGED <<main, listener, pending, drained, pool, age>>

\* The handler starts a transaction.
BeginTx(c) ==
  /\ work[c] = "waiting" /\ pool = "open"
  /\ work' = [work EXCEPT ![c] = "running"]
  /\ UNCHANGED <<main, listener, pending, drained, pool, conn, age>>

Commit(c) ==
  /\ work[c] = "running"
  /\ work' = [work EXCEPT ![c] = "committed"]
  /\ UNCHANGED <<main, listener, pending, drained, pool, conn, age>>

\* A serialization conflict: rolled back, to be tried again.
Conflict(c) ==
  /\ work[c] = "running"
  /\ work' = [work EXCEPT ![c] = "waiting"]
  /\ UNCHANGED <<main, listener, pending, drained, pool, conn, age>>

\* Refused, rolled back, or denied by a pool that is closed.
Fail(c) ==
  /\ work[c] \in {"waiting", "running"}
  /\ work' = [work EXCEPT ![c] = "failed"]
  /\ UNCHANGED <<main, listener, pending, drained, pool, conn, age>>

\* The handler returns.  The answer arrives unless it is late or the
\* connection is gone; during Shutdown it closes the connection.
Answer(c) ==
  /\ work[c] \in {"committed", "failed"}
  /\ LET arrives == conn[c] = "active" /\ age[c] < WriteTimeout
     IN Set(c, IF ~arrives THEN "cut" ELSE IF listener = "closed" THEN "closed" ELSE "idle", "none")
  /\ UNCHANGED <<main, listener, pending, drained, pool, age>>

-----------------------------------------------------------------------------
(* main. *)

\* Variant: signals queue up.
Signal_Queued ==
  /\ main \notin {"stopped", "fatal"}
  /\ pending' = pending + 1
  /\ UNCHANGED <<main, listener, drained, pool, connVars>>

\* The channel has room for one signal; Notify drops the others.
Signal ==
  /\ main \notin {"stopped", "fatal"}
  /\ pending' = 1
  /\ UNCHANGED <<main, listener, drained, pool, connVars>>

ListenerFails ==
  /\ listener = "up"
  /\ listener' = "failed"
  /\ UNCHANGED <<main, pending, drained, pool, connVars>>

\* A connection closed by force, with a request on it or not.
Severed(c, busy) == IF busy THEN "cut" ELSE IF conn[c] \in Open THEN "closed" ELSE conn[c]

\* The process ends, and every handler with it.
Exit(how) ==
  /\ main' = how
  /\ conn' = [c \in Connections |-> Severed(c, InFlight(c))]
  /\ work' = [c \in Connections |-> "none"]

\* serverErrors is received: zlog.Fatal.
Fatal ==
  /\ main = "select" /\ listener = "failed"
  /\ Exit("fatal")
  /\ UNCHANGED <<listener, pending, drained, pool, age>>

\* Variant: the pool is closed first.
BeginShutdown_ClosesPool ==
  /\ main = "select" /\ pending = 1
  /\ pending' = 0
  /\ main' = "draining"
  /\ listener' = "closed"
  /\ pool' = "closed"
  /\ UNCHANGED <<drained, connVars>>

\* The signal is received; Shutdown closes the listener.
BeginShutdown ==
  /\ main = "select" /\ pending = 1
  /\ pending' = 0
  /\ main' = "draining"
  /\ listener' = "closed"
  /\ UNCHANGED <<drained, pool, connVars>>

\* Variant: the server does not wait for its connections.
Drained_AtOnce ==
  /\ main = "draining"
  /\ main' = "limiters"
  /\ UNCHANGED <<listener, pending, drained, pool, connVars>>

\* Shutdown finds no connection open.
Drained ==
  /\ main = "draining"
  /\ \A c \in Connections : conn[c] \notin Open
  /\ main' = "limiters"
  /\ UNCHANGED <<listener, pending, drained, pool, connVars>>

\* Variant: Shutdown is given a context without a deadline.
ForceClose_Never == FALSE /\ UNCHANGED vars

\* The grace period is over: srv.Close.  Handlers go on until the end.
ForceClose ==
  /\ main = "draining" /\ drained = Grace
  /\ main' = "limiters"
  /\ conn' = [c \in Connections |-> Severed(c, conn[c] = "active")]
  /\ UNCHANGED <<listener, pending, drained, pool, work, age>>

CloseLimiters ==
  /\ main = "limiters"
  /\ main' = "pool"
  /\ UNCHANGED <<listener, pending, drained, pool, connVars>>

ClosePool ==
  /\ main = "pool"
  /\ pool' = "closed"
  /\ main' = "return"
  /\ UNCHANGED <<listener, pending, drained, connVars>>

Return ==
  /\ main = "return"
  /\ Exit("stopped")
  /\ UNCHANGED <<listener, pending, drained, pool, age>>

-----------------------------------------------------------------------------

Tick ==
  /\ main \notin {"stopped", "fatal"}
  /\ drained' = IF main = "draining" /\ drained < Grace THEN drained + 1 ELSE drained
  /\ age' = [c \in Connections |->
               IF conn[c] \in {"new", "active"} /\ age[c] < WriteTimeout THEN age[c] + 1 ELSE age[c]]
  /\ UNCHANGED <<main, listener, pending, pool, conn, work>>

Ended ==
  /\ main \in {"stopped", "fatal"}
  /\ UNCHANGED vars

Main == Fatal \/ BeginShutdown \/ Drained \/ ForceClose \/ CloseLimiters \/ ClosePool \/ Return
Handler(c) == BeginTx(c) \/ Commit(c) \/ Conflict(c) \/ Fail(c) \/ Answer(c)

Next ==
  \/ \E c \in Connections : Accept(c) \/ Read(c) \/ CloseUnused(c) \/ Handler(c)
  \/ Signal \/ ListenerFails \/ Main \/ Tick \/ Ended

\* The goroutine of main runs and time passes; handlers may hang.
Spec == Init /\ [][Next]_vars
FairSpec == Spec /\ WF_vars(Main) /\ WF_vars(Tick)

-----------------------------------------------------------------------------
(* Properties. *)

\* Types; the signal channel never holds more than one.
TypeOK ==
  /\ main \in {"select", "draining", "limiters", "pool", "return", "stopped", "fatal"}
  /\ listener \in {"up", "failed", "closed"}
  /\ pending \in 0 .. 1
  /\ drained \in 0 .. Grace
  /\ pool \in {"open", "closed"}
  /\ conn \in [Connections -> Open \cup {"none", "closed", "cut"}]
  /\ work \in [Connections -> {"none", "waiting", "running", "committed", "failed"}]
  /\ age \in [Connections -> 0 .. WriteTimeout]

\* A client whose request was read hears of its outcome, whatever main does at
\* the same time, except after the write deadline, after the whole grace
\* period, or when the listener failed.
GraceProtects ==
  [][\A c \in Connections :
       conn[c] # "cut" /\ conn'[c] = "cut" =>
         age[c] >= WriteTimeout \/ drained = Grace \/ main' = "fatal"]_vars

\* The pool closes under a handler only after the whole grace period: until
\* then its writes may commit.
PoolOutlivesHandlers ==
  pool = "closed" => drained = Grace \/ \A c \in Connections : ~InFlight(c)

\* A signal ends the process, though handlers may hang and signals repeat.
SignalStops == pending = 1 ~> main \in {"stopped", "fatal"}
=============================================================================
