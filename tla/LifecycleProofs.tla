--------------------------- MODULE LifecycleProofs ---------------------------
(***************************************************************************)
(* Shutdown, for any number of connections and any deadlines.              *)
(***************************************************************************)
EXTENDS Lifecycle, TLAPS

USE LifecycleAssumption

-----------------------------------------------------------------------------
(* Types. *)

\* Types are an invariant; among them, that the signal channel never holds
\* more than one and that the grace period is never exceeded.
THEOREM TypeCorrect == Spec => []TypeOK
<1>1. Init => TypeOK
  BY DEF Init, TypeOK
<1>2. TypeOK /\ [Next]_vars => TypeOK'
  <2> SUFFICES ASSUME TypeOK, [Next]_vars PROVE TypeOK'
    OBVIOUS
  <2> USE DEF TypeOK, Open
  <2>1. ASSUME NEW c \in Connections, Accept(c) PROVE TypeOK'
    BY <2>1 DEF Accept, Set
  <2>2. ASSUME NEW c \in Connections, Read(c) PROVE TypeOK'
    BY <2>2 DEF Read, Set
  <2>3. ASSUME NEW c \in Connections, CloseUnused(c) PROVE TypeOK'
    BY <2>3 DEF CloseUnused, Set
  <2>4. ASSUME NEW c \in Connections, Handler(c) PROVE TypeOK'
    <3>1. CASE BeginTx(c)
      BY <3>1 DEF BeginTx
    <3>2. CASE Commit(c)
      BY <3>2 DEF Commit
    <3>3. CASE Conflict(c)
      BY <3>3 DEF Conflict
    <3>4. CASE Fail(c)
      BY <3>4 DEF Fail
    <3>5. CASE Answer(c)
      BY <3>5 DEF Answer, Set
    <3>6. QED
      BY <2>4, <3>1, <3>2, <3>3, <3>4, <3>5 DEF Handler
  <2>5. CASE Signal
    BY <2>5 DEF Signal, connVars
  <2>6. CASE ListenerFails
    BY <2>6 DEF ListenerFails, connVars
  <2>7. CASE Main
    <3>1. CASE Fatal
      BY <3>1 DEF Fatal, Exit, Severed
    <3>2. CASE BeginShutdown
      BY <3>2 DEF BeginShutdown, connVars
    <3>3. CASE Drained
      BY <3>3 DEF Drained, connVars
    <3>4. CASE ForceClose
      BY <3>4 DEF ForceClose, Severed
    <3>5. CASE CloseLimiters
      BY <3>5 DEF CloseLimiters, connVars
    <3>6. CASE ClosePool
      BY <3>6 DEF ClosePool, connVars
    <3>7. CASE Return
      BY <3>7 DEF Return, Exit, Severed
    <3>8. QED
      BY <2>7, <3>1, <3>2, <3>3, <3>4, <3>5, <3>6, <3>7 DEF Main
  <2>8. CASE Tick
    BY <2>8 DEF Tick
  <2>9. CASE UNCHANGED vars
    BY <2>9 DEF vars
  <2>10. QED
    BY <2>1, <2>2, <2>3, <2>4, <2>5, <2>6, <2>7, <2>8, <2>9 DEF Next, Ended
<1>3. QED
  BY <1>1, <1>2, PTL DEF Spec

-----------------------------------------------------------------------------
(* The order of shutdown.  TypeOK says nothing of it; the invariant relates *)
(* where main is to the listener, the connections, the handlers and the     *)
(* pool.                                                                    *)

\* Shutdown has closed the listener before anything else is closed.
NoneAccepted == main \notin {"select", "fatal"} => listener = "closed"

\* After the drain no connection is open, or the grace period was used up.
AfterDrain ==
  main \in {"limiters", "pool", "return", "stopped"} =>
    drained = Grace \/ \A c \in Connections : conn[c] \notin Open

\* A handler has its connection, until that is closed by force.
HandlerHasConnection ==
  \A c \in Connections : InFlight(c) => conn[c] = "active" \/ drained = Grace

PoolClosedLast == pool = "closed" => main \in {"return", "stopped"}

ShutdownInv == TypeOK /\ NoneAccepted /\ AfterDrain /\ HandlerHasConnection /\ PoolClosedLast

\* Every step keeps the order of shutdown.
LEMMA ShutdownInvStep ==
  ASSUME ShutdownInv, TypeOK', [Next]_vars
  PROVE  ShutdownInv'
<1> DEFINE Order == NoneAccepted /\ AfterDrain /\ HandlerHasConnection /\ PoolClosedLast
<1> SUFFICES Order'
  BY DEF ShutdownInv
<1> USE DEF ShutdownInv, TypeOK, NoneAccepted, AfterDrain, HandlerHasConnection,
            PoolClosedLast, InFlight, Open
<1>1. ASSUME NEW c \in Connections, Accept(c) PROVE Order'
  BY <1>1 DEF Accept, Set
<1>2. ASSUME NEW c \in Connections, Read(c) PROVE Order'
  BY <1>2 DEF Read, Set
<1>3. ASSUME NEW c \in Connections, CloseUnused(c) PROVE Order'
  BY <1>3 DEF CloseUnused, Set
<1>4. ASSUME NEW c \in Connections, BeginTx(c) PROVE Order'
  BY <1>4 DEF BeginTx
<1>5. ASSUME NEW c \in Connections, Commit(c) PROVE Order'
  BY <1>5 DEF Commit
<1>6. ASSUME NEW c \in Connections, Conflict(c) PROVE Order'
  BY <1>6 DEF Conflict
<1>7. ASSUME NEW c \in Connections, Fail(c) PROVE Order'
  BY <1>7 DEF Fail
<1>8. ASSUME NEW c \in Connections, Answer(c) PROVE Order'
  BY <1>8 DEF Answer, Set
<1>9. CASE Signal
  BY <1>9 DEF Signal, connVars
<1>10. CASE ListenerFails
  BY <1>10 DEF ListenerFails, connVars
<1>11. CASE Fatal
  BY <1>11 DEF Fatal, Exit, Severed
<1>12. CASE BeginShutdown
  BY <1>12 DEF BeginShutdown, connVars
<1>13. CASE Drained
  BY <1>13 DEF Drained, connVars
<1>14. CASE ForceClose
  BY <1>14 DEF ForceClose, Severed
<1>15. CASE CloseLimiters
  BY <1>15 DEF CloseLimiters, connVars
<1>16. CASE ClosePool
  BY <1>16 DEF ClosePool, connVars
<1>17. CASE Return
  BY <1>17 DEF Return, Exit, Severed
<1>18. CASE Tick
  BY <1>18 DEF Tick
<1>19. CASE UNCHANGED vars
  BY <1>19 DEF vars
<1>20. QED
  BY <1>1, <1>2, <1>3, <1>4, <1>5, <1>6, <1>7, <1>8, <1>9, <1>10,
     <1>11, <1>12, <1>13, <1>14, <1>15, <1>16, <1>17, <1>18, <1>19
  DEF Next, Main, Handler, Ended

\* The invariant holds in every state.
LEMMA ShutdownInvHolds == Spec => []ShutdownInv
<1>1. Init => ShutdownInv
  BY DEF Init, ShutdownInv, TypeOK, NoneAccepted, AfterDrain, HandlerHasConnection,
         PoolClosedLast, InFlight, Open
<1>2. ShutdownInv /\ TypeOK' /\ [Next]_vars => ShutdownInv'
  BY ShutdownInvStep
<1>3. QED
  BY <1>1, <1>2, TypeCorrect, PTL DEF Spec

\* The pool closes under a handler only after the whole grace period: at the
\* end of main (PoolClosedLast) the drain is over (AfterDrain), and a handler
\* without an open connection was cut off (HandlerHasConnection).
THEOREM PoolOutlives == Spec => []PoolOutlivesHandlers
<1>1. ShutdownInv => PoolOutlivesHandlers
  BY DEF ShutdownInv, AfterDrain, HandlerHasConnection, PoolClosedLast,
         PoolOutlivesHandlers, Open
<1>2. QED
  BY <1>1, ShutdownInvHolds, PTL

\* No step leaves a client without an answer before its write deadline or the
\* end of the grace period, unless the listener failed.
LEMMA StepProtects ==
  ASSUME ShutdownInv, [Next]_vars,
         NEW k \in Connections, conn[k] # "cut", conn'[k] = "cut"
  PROVE  age[k] >= WriteTimeout \/ drained = Grace \/ main' = "fatal"
<1> USE DEF ShutdownInv, TypeOK, AfterDrain, HandlerHasConnection, InFlight, Open
<1>1. ASSUME NEW c \in Connections, Accept(c) PROVE age[k] >= WriteTimeout \/ drained = Grace \/ main' = "fatal"
  BY <1>1 DEF Accept, Set
<1>2. ASSUME NEW c \in Connections, Read(c) PROVE age[k] >= WriteTimeout \/ drained = Grace \/ main' = "fatal"
  BY <1>2 DEF Read, Set
<1>3. ASSUME NEW c \in Connections, CloseUnused(c) PROVE age[k] >= WriteTimeout \/ drained = Grace \/ main' = "fatal"
  BY <1>3 DEF CloseUnused, Set
<1>4. ASSUME NEW c \in Connections, BeginTx(c) PROVE age[k] >= WriteTimeout \/ drained = Grace \/ main' = "fatal"
  BY <1>4 DEF BeginTx
<1>5. ASSUME NEW c \in Connections, Commit(c) PROVE age[k] >= WriteTimeout \/ drained = Grace \/ main' = "fatal"
  BY <1>5 DEF Commit
<1>6. ASSUME NEW c \in Connections, Conflict(c) PROVE age[k] >= WriteTimeout \/ drained = Grace \/ main' = "fatal"
  BY <1>6 DEF Conflict
<1>7. ASSUME NEW c \in Connections, Fail(c) PROVE age[k] >= WriteTimeout \/ drained = Grace \/ main' = "fatal"
  BY <1>7 DEF Fail
<1>8. ASSUME NEW c \in Connections, Answer(c) PROVE age[k] >= WriteTimeout \/ drained = Grace \/ main' = "fatal"
  BY <1>8 DEF Answer, Set
<1>9. CASE Signal
  BY <1>9 DEF Signal, connVars
<1>10. CASE ListenerFails
  BY <1>10 DEF ListenerFails, connVars
<1>11. CASE Fatal
  BY <1>11 DEF Fatal, Exit, Severed
<1>12. CASE BeginShutdown
  BY <1>12 DEF BeginShutdown, connVars
<1>13. CASE Drained
  BY <1>13 DEF Drained, connVars
<1>14. CASE ForceClose
  BY <1>14 DEF ForceClose, Severed
<1>15. CASE CloseLimiters
  BY <1>15 DEF CloseLimiters, connVars
<1>16. CASE ClosePool
  BY <1>16 DEF ClosePool, connVars
<1>17. CASE Return
  BY <1>17 DEF Return, Exit, Severed
<1>18. CASE Tick
  BY <1>18 DEF Tick
<1>19. CASE UNCHANGED vars
  BY <1>19 DEF vars
<1>20. QED
  BY <1>1, <1>2, <1>3, <1>4, <1>5, <1>6, <1>7, <1>8, <1>9, <1>10,
     <1>11, <1>12, <1>13, <1>14, <1>15, <1>16, <1>17, <1>18, <1>19
  DEF Next, Main, Handler, Ended

\* The grace period protects whoever is in time.
THEOREM GraceHolds == Spec => GraceProtects
<1>1. ShutdownInv /\ [Next]_vars =>
        [\A c \in Connections :
           conn[c] # "cut" /\ conn'[c] = "cut" =>
             age[c] >= WriteTimeout \/ drained = Grace \/ main' = "fatal"]_vars
  BY StepProtects
<1>2. QED
  BY <1>1, ShutdownInvHolds, PTL DEF Spec, GraceProtects
=============================================================================
