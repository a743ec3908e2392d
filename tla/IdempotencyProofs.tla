-------------------------- MODULE IdempotencyProofs --------------------------
(***************************************************************************)
(* What an idempotency key guarantees, for any number of calls, keys and   *)
(* accounts, any habits of the client and any faults.                      *)
(*                                                                         *)
(* The order of the middleware's statements is what counts: a call is      *)
(* answered before it is stored, and stored before it is done; what is     *)
(* stored is never replaced (Kept).  With a patient client on a connection *)
(* that holds, at most one call of a key is under way, so whoever executes *)
(* found nothing stored and nothing was applied before it (Truth).         *)
(***************************************************************************)
EXTENDS Idempotency, FiniteSetTheorems, TLAPS

\* What the progress of a call says about its variables.
Progress(c) ==
  /\ pc[c] \in {"unsent", "lookup", "handler", "execute"} =>
       reply[c] = NoReply /\ answer[c] = "pending"
  /\ pc[c] \in {"lookup", "save"} => c \in Keyed
  /\ pc[c] = "save" => reply[c] # NoReply
  /\ pc[c] # "done" => ~hit[c]
  /\ hit[c] => c \in Keyed /\ answer[c] = "pending"

\* The response of a call that was not replayed is that of its service call,
\* or a refusal of the handler.
OwnReply(c) ==
  /\ answer[c] # "pending" =>
       reply[c] = [code |-> StatusOf(req[c], answer[c]), body |-> answer[c]]
  /\ answer[c] = "pending" /\ ~hit[c] =>
       reply[c] \in {NoReply, [code |-> 404, body |-> "notFound"],
                              [code |-> 403, body |-> "denied"]}

\* A replayed response is the one stored; a stored one is that of a call which
\* executed.
Replayed(c) == hit[c] => reply[c] # NoReply /\ reply[c] = store[Hash(c)]
Stored(k) ==
  store[k] # NoReply =>
    store[k].code < 500 /\ \E d \in Keyed : Hash(d) = k /\ ~hit[d] /\ pc[d] = "done" /\ reply[d] = store[k]

Kept ==
  /\ TypeOK
  /\ req \in [Requests -> Inputs] /\ habit \in Habits
  /\ answer \in [Requests -> L!Refusals \cup {"pending", "ok", "unknown"}]
  /\ \A c \in Requests : Progress(c) /\ OwnReply(c) /\ Replayed(c)
  /\ \A k \in Keys : Stored(k)

-----------------------------------------------------------------------------
(* Operators and the initial state. *)

\* The status of an answer of the service: 200 for success alone.
LEMMA StatusType ==
  ASSUME NEW q, NEW ans
  PROVE  /\ StatusOf(q, ans) \in Codes
         /\ StatusOf(q, ans) = 200 <=> ans = "ok"
BY DEF StatusOf, Codes

\* The responses are told apart from no response.
LEMMA ReplyCode ==
  ASSUME NEW x \in Replies
  PROVE  x # NoReply /\ x.code \in Codes /\ x.code # 0
BY DEF Replies, NoReply, Codes

\* Hashes and keys never change.
LEMMA HashStable ==
  ASSUME UNCHANGED <<req, habit>>
  PROVE  /\ Keyed' = Keyed /\ Keys' = Keys
         /\ \A c : Hash(c)' = Hash(c) /\ HeaderOf(c)' = HeaderOf(c)
BY DEF Keyed, Keys, Hash, HeaderOf, Body

LEMMA KeyOfCall ==
  ASSUME NEW c \in Keyed
  PROVE  c \in Requests /\ Hash(c) \in Keys
BY DEF Keyed, Keys

LEMMA InitKept == Init => Kept
<1> SUFFICES ASSUME Init PROVE Kept
  OBVIOUS
<1>1. TypeOK /\ req \in [Requests -> Inputs] /\ habit \in Habits
  BY DEF Init, L!Init, TypeOK
<1>2. answer = [c \in Requests |-> "pending"]
  BY DEF Init, L!Init
<1>3. \A c \in Requests : Progress(c) /\ OwnReply(c) /\ Replayed(c)
  BY <1>2 DEF Init, Progress, OwnReply, Replayed, NoReply
<1>4. \A k \in Keys : Stored(k)
  BY DEF Init, Stored
<1> QED
  BY <1>1, <1>2, <1>3, <1>4 DEF Kept

-----------------------------------------------------------------------------
(* Steps. *)

\* A step of c that stores nothing.
LEMMA CallStep ==
  ASSUME Kept, TypeOK', NEW c \in Requests, UNCHANGED <<req, habit, store>>, pc[c] # "done",
         answer' \in [Requests -> L!Refusals \cup {"pending", "ok", "unknown"}],
         \A d \in Requests \ {c} :
           pc'[d] = pc[d] /\ reply'[d] = reply[d] /\ hit'[d] = hit[d] /\ answer'[d] = answer[d],
         Progress(c)', OwnReply(c)', Replayed(c)'
  PROVE  Kept'
<1>1. /\ Keyed' = Keyed /\ Keys' = Keys /\ \A d : Hash(d)' = Hash(d)
  BY HashStable
<1>2. ASSUME NEW d \in Requests \ {c} PROVE Progress(d)' /\ OwnReply(d)' /\ Replayed(d)'
  <2>1. /\ pc'[d] = pc[d] /\ reply'[d] = reply[d] /\ hit'[d] = hit[d] /\ answer'[d] = answer[d]
        /\ Progress(d) /\ OwnReply(d) /\ Replayed(d)
    BY <1>2 DEF Kept
  <2> QED
    BY <1>1, <2>1 DEF Progress, OwnReply, Replayed
<1>3. ASSUME NEW k \in Keys PROVE Stored(k)'
  <2> SUFFICES ASSUME store[k] # NoReply PROVE Stored(k)'
    BY DEF Stored
  <2>1. Stored(k)
    BY <1>3 DEF Kept
  <2>2. PICK d \in Keyed : Hash(d) = k /\ ~hit[d] /\ pc[d] = "done" /\ reply[d] = store[k]
    BY <2>1 DEF Stored
  <2>3. d \in Requests \ {c}
    BY <2>2 DEF Keyed
  <2>4. Hash(d)' = k /\ ~hit'[d] /\ pc'[d] = "done" /\ reply'[d] = store[k] /\ d \in Keyed'
    BY <1>1, <2>2, <2>3
  <2> QED
    BY <2>1, <2>4 DEF Stored
<1> QED
  BY <1>1, <1>2, <1>3 DEF Kept

\* Sending, missing and losing the client change no response.
LEMMA QuietKept ==
  ASSUME Kept, NEW c \in Requests, Send(c) \/ Miss(c) \/ LookupFails(c) \/ Disconnect(c)
  PROVE  Kept'
<1>1. UNCHANGED <<req, answer, habit, reply, hit, store>>
  BY DEF Send, Miss, LookupFails, Disconnect, ledgerVars
<1>2. Keyed' = Keyed /\ Keys' = Keys /\ Hash(c)' = Hash(c)
  BY <1>1, HashStable
<1>3. TypeOK'
  BY <1>2 DEF Kept, TypeOK, Send, Miss, LookupFails, Disconnect, Goto
<1>4. /\ pc[c] # "done"
      /\ \A d \in Requests \ {c} : pc'[d] = pc[d]
      /\ pc'[c] \in {pc[c], "lookup", "handler"} /\ (pc'[c] = "lookup" => c \in Keyed)
      /\ pc'[c] # pc[c] => pc[c] \in {"unsent", "lookup"}
  BY DEF Kept, TypeOK, Progress, Send, Miss, LookupFails, Disconnect, Goto, InFlight
<1>5. Progress(c) /\ OwnReply(c) /\ Replayed(c)
  BY DEF Kept
<1>6. Progress(c)' /\ OwnReply(c)' /\ Replayed(c)'
  BY <1>1, <1>2, <1>4, <1>5 DEF Progress, OwnReply, Replayed
<1> QED
  BY <1>1, <1>3, <1>4, <1>6, CallStep DEF Kept

\* A replay takes what is stored.
LEMMA HitKept ==
  ASSUME Kept, NEW c \in Requests, Hit(c)
  PROVE  Kept'
<1>1. UNCHANGED <<req, answer, habit, gone, store>> /\ pc[c] = "lookup" /\ store[Hash(c)] # NoReply
  BY DEF Hit, ledgerVars
<1>2. Keyed' = Keyed /\ Keys' = Keys /\ Hash(c)' = Hash(c)
  BY <1>1, HashStable
<1>3. c \in Keyed /\ answer[c] = "pending" /\ Hash(c) \in Keys
  BY <1>1, KeyOfCall DEF Kept, Progress
<1>4. TypeOK'
  <2>1. store[Hash(c)] \in Replies \cup {NoReply}
    BY <1>3 DEF Kept, TypeOK
  <2> QED
    BY <1>1, <1>2, <2>1 DEF Kept, TypeOK, Hit, Goto
<1>5. /\ pc'[c] = "done" /\ hit'[c] = TRUE /\ reply'[c] = store[Hash(c)]
      /\ \A d \in Requests \ {c} : pc'[d] = pc[d] /\ reply'[d] = reply[d] /\ hit'[d] = hit[d]
  BY DEF Kept, TypeOK, Hit, Goto
<1>6. Progress(c)' /\ OwnReply(c)' /\ Replayed(c)'
  BY <1>1, <1>2, <1>3, <1>5 DEF Progress, OwnReply, Replayed
<1> QED
  BY <1>1, <1>4, <1>5, <1>6, CallStep DEF Kept

\* The handler refuses, or goes on to the service.
LEMMA HandleKept ==
  ASSUME Kept, NEW c \in Requests, Handle(c)
  PROVE  Kept'
<1>1. UNCHANGED <<req, answer, habit, gone, hit, store>> /\ pc[c] = "handler"
  BY DEF Handle, ledgerVars
<1>2. Keyed' = Keyed /\ Keys' = Keys /\ Hash(c)' = Hash(c)
  BY <1>1, HashStable
<1>3. reply[c] = NoReply /\ answer[c] = "pending" /\ ~hit[c]
  BY <1>1 DEF Kept, Progress
<1>4. \/ /\ reply' = reply /\ pc' = [pc EXCEPT ![c] = "execute"]
      \/ /\ pc' = [pc EXCEPT ![c] = AfterReply(c)]
         /\ \/ reply' = [reply EXCEPT ![c] = [code |-> 404, body |-> "notFound"]]
            \/ reply' = [reply EXCEPT ![c] = [code |-> 403, body |-> "denied"]]
  BY DEF Handle, Respond, Goto
<1>5. /\ [code |-> 404, body |-> "notFound"] \in Replies
      /\ [code |-> 403, body |-> "denied"] \in Replies
  BY DEF Replies, Codes, L!Refusals
<1>6. TypeOK'
  BY <1>1, <1>2, <1>4, <1>5 DEF Kept, TypeOK, AfterReply
<1>7. \A d \in Requests \ {c} : pc'[d] = pc[d] /\ reply'[d] = reply[d]
  BY <1>4 DEF Kept, TypeOK
<1>8. \/ reply'[c] = NoReply /\ pc'[c] = "execute"
      \/ /\ pc'[c] = AfterReply(c)
         /\ reply'[c] # NoReply
         /\ reply'[c] \in {[code |-> 404, body |-> "notFound"], [code |-> 403, body |-> "denied"]}
  BY <1>3, <1>4 DEF Kept, TypeOK, NoReply
<1>9. Progress(c)' /\ OwnReply(c)' /\ Replayed(c)'
  BY <1>1, <1>2, <1>3, <1>8 DEF Progress, OwnReply, Replayed, AfterReply, NoReply
<1> QED
  BY <1>1, <1>6, <1>7, <1>9, CallStep DEF Kept

\* What a service call does to the ledger and to its response.
LEMMA ExecuteEffect ==
  ASSUME Kept, NEW c \in Requests, Execute(c)
  PROVE  \E ans \in L!Refusals \cup {"ok", "unknown"} :
           /\ Possible(c, ans) /\ answer' = [answer EXCEPT ![c] = ans]
           /\ reply' = [reply EXCEPT ![c] = [code |-> StatusOf(req[c], ans), body |-> ans]]
           /\ pc' = [pc EXCEPT ![c] = AfterReply(c)]
           /\ UNCHANGED <<req, habit, gone, hit, store>>
<1>1. PICK ans \in L!Refusals \cup {"ok", "unknown"} :
        Possible(c, ans) /\ answer' = [answer EXCEPT ![c] = ans] /\ req' = req
  <2>1. CASE \E ans \in {"ok", "unknown"} : Possible(c, ans) /\ L!Post(c, ans)
    BY <2>1 DEF L!Post
  <2>2. CASE \E why \in L!Refusals : Possible(c, why) /\ L!Refuse(c, why)
    BY <2>2 DEF L!Refuse
  <2> QED
    BY <2>1, <2>2 DEF Execute
<1>2. answer'[c] = ans
  BY <1>1 DEF Kept
<1> QED
  BY <1>1, <1>2 DEF Execute, Respond, Goto

LEMMA ExecuteKept ==
  ASSUME Kept, NEW c \in Requests, Execute(c)
  PROVE  Kept'
<1>1. PICK ans \in L!Refusals \cup {"ok", "unknown"} :
           /\ answer' = [answer EXCEPT ![c] = ans]
           /\ reply' = [reply EXCEPT ![c] = [code |-> StatusOf(req[c], ans), body |-> ans]]
           /\ pc' = [pc EXCEPT ![c] = AfterReply(c)]
           /\ UNCHANGED <<req, habit, gone, hit, store>>
  BY ExecuteEffect
<1>2. Keyed' = Keyed /\ Keys' = Keys /\ Hash(c)' = Hash(c)
  BY <1>1, HashStable
<1>3. pc[c] = "execute" /\ ~hit[c]
  BY DEF Execute, Kept, Progress
<1>4. [code |-> StatusOf(req[c], ans), body |-> ans] \in Replies
  BY <1>1, StatusType DEF Replies
<1>5. TypeOK'
  BY <1>1, <1>2, <1>4 DEF Kept, TypeOK, AfterReply
<1>6. answer' \in [Requests -> L!Refusals \cup {"pending", "ok", "unknown"}]
  BY <1>1 DEF Kept
<1>7. /\ answer'[c] = ans /\ pc'[c] = AfterReply(c)
      /\ reply'[c] = [code |-> StatusOf(req[c], ans), body |-> ans]
      /\ \A d \in Requests \ {c} :
           pc'[d] = pc[d] /\ reply'[d] = reply[d] /\ hit'[d] = hit[d] /\ answer'[d] = answer[d]
  BY <1>1 DEF Kept, TypeOK
<1>8. ans # "pending" /\ reply'[c] # NoReply
  BY <1>4, <1>7, ReplyCode DEF L!Refusals
<1>9. Progress(c)' /\ OwnReply(c)' /\ Replayed(c)'
  BY <1>1, <1>2, <1>3, <1>7, <1>8 DEF Progress, OwnReply, Replayed, AfterReply
<1> QED
  BY <1>1, <1>3, <1>5, <1>6, <1>7, <1>9, CallStep

\* The response of the call is stored where nothing was.
LEMMA SaveKept ==
  ASSUME Kept, NEW c \in Requests, Save(c)
  PROVE  Kept'
<1>1. UNCHANGED <<req, answer, habit, gone, reply, hit>> /\ pc[c] = "save"
  BY DEF Save, ledgerVars
<1>2. Keyed' = Keyed /\ Keys' = Keys /\ \A d : Hash(d)' = Hash(d)
  BY <1>1, HashStable
<1>3. c \in Keyed /\ reply[c] # NoReply /\ ~hit[c] /\ Hash(c) \in Keys
  BY <1>1, KeyOfCall DEF Kept, Progress
<1>4. pc'[c] = "done" /\ \A d \in Requests : d # c => pc'[d] = pc[d]
  BY DEF Save, Goto, Kept, TypeOK
<1>5. TypeOK'
  BY <1>1, <1>2, <1>3 DEF Kept, TypeOK, Save, Goto
<1>6. ASSUME NEW d \in Requests PROVE Progress(d)' /\ OwnReply(d)' /\ Replayed(d)'
  <2>1. Progress(d) /\ OwnReply(d) /\ Replayed(d)
    BY DEF Kept
  <2>2. Progress(d)' /\ OwnReply(d)'
    BY <1>1, <1>2, <1>3, <1>4, <2>1 DEF Progress, OwnReply
  <2>3. hit[d] => store[Hash(d)] # NoReply /\ Hash(d) \in Keys
    BY <2>1, KeyOfCall DEF Replayed, Progress
  <2>4. hit[d] => store'[Hash(d)] = store[Hash(d)]
    BY <2>3, <1>3 DEF Save, Kept, TypeOK
  <2> QED
    BY <1>1, <1>2, <2>1, <2>2, <2>4 DEF Replayed
<1>7. ASSUME NEW k \in Keys PROVE Stored(k)'
  <2>1. CASE store'[k] = store[k]
    <3> SUFFICES ASSUME store[k] # NoReply PROVE Stored(k)'
      BY <2>1 DEF Stored
    <3>1. Stored(k)
      BY <1>7 DEF Kept
    <3>2. PICK d \in Keyed : Hash(d) = k /\ ~hit[d] /\ pc[d] = "done" /\ reply[d] = store[k]
      BY <3>1 DEF Stored
    <3>3. d \in Keyed' /\ Hash(d)' = k /\ ~hit'[d] /\ pc'[d] = "done" /\ reply'[d] = store'[k]
      BY <1>1, <1>2, <1>4, <2>1, <3>2 DEF Keyed
    <3> QED
      BY <2>1, <3>1, <3>3 DEF Stored
  <2>2. CASE store'[k] # store[k]
    <3>1. k = Hash(c) /\ store'[k] = reply[c] /\ reply[c].code < 500
      BY <1>3, <1>7, <2>2 DEF Save, Kept, TypeOK
    <3>2. c \in Keyed' /\ Hash(c)' = k /\ ~hit'[c] /\ pc'[c] = "done" /\ reply'[c] = store'[k]
      BY <1>1, <1>2, <1>3, <1>4, <3>1
    <3> QED
      BY <3>1, <3>2 DEF Stored
  <2> QED
    BY <2>1, <2>2
<1> QED
  BY <1>1, <1>2, <1>5, <1>6, <1>7 DEF Kept

\* A crash ends calls and changes nothing else.
LEMMA CrashKept ==
  ASSUME Kept, Crash
  PROVE  Kept'
<1>1. UNCHANGED <<req, answer, habit, gone, reply, hit, store>>
  BY DEF Crash, ledgerVars
<1>2. Keyed' = Keyed /\ Keys' = Keys /\ \A d : Hash(d)' = Hash(d)
  BY <1>1, HashStable
<1>3. \A c \in Requests : pc'[c] = pc[c] \/ pc'[c] = "done"
  BY DEF Crash
<1>4. TypeOK'
  BY <1>1, <1>2 DEF Kept, TypeOK, Crash
<1>5. \A c \in Requests : Progress(c)' /\ OwnReply(c)' /\ Replayed(c)'
  BY <1>1, <1>2, <1>3 DEF Kept, Progress, OwnReply, Replayed
<1>6. ASSUME NEW k \in Keys PROVE Stored(k)'
  <2> SUFFICES ASSUME store[k] # NoReply PROVE Stored(k)'
    BY <1>1 DEF Stored
  <2>1. Stored(k)
    BY <1>6 DEF Kept
  <2>2. PICK d \in Keyed : Hash(d) = k /\ ~hit[d] /\ pc[d] = "done" /\ reply[d] = store[k]
    BY <2>1 DEF Stored
  <2>3. d \in Keyed' /\ Hash(d)' = k /\ ~hit'[d] /\ pc'[d] = "done" /\ reply'[d] = store'[k]
    BY <1>1, <1>2, <1>3, <2>2 DEF Keyed
  <2> QED
    BY <1>1, <2>1, <2>3 DEF Stored
<1> QED
  BY <1>1, <1>2, <1>4, <1>5, <1>6 DEF Kept

LEMMA NextKept == Kept /\ [Next]_vars => Kept'
<1> SUFFICES ASSUME Kept, [Next]_vars PROVE Kept'
  OBVIOUS
<1>1. ASSUME NEW c \in Requests,
             \/ Send(c) \/ Hit(c) \/ Miss(c) \/ LookupFails(c)
             \/ Handle(c) \/ Execute(c) \/ Save(c) \/ Disconnect(c)
      PROVE  Kept'
  BY <1>1, QuietKept, HitKept, HandleKept, ExecuteKept, SaveKept
<1>2. CASE UNCHANGED vars
  <2>1. UNCHANGED <<req, answer, habit, pc, gone, reply, hit, store>>
    BY <1>2 DEF vars
  <2>2. Keyed' = Keyed /\ Keys' = Keys /\ \A c : Hash(c)' = Hash(c)
    BY <2>1, HashStable
  <2>3. TypeOK'
    BY <2>1, <2>2 DEF Kept, TypeOK
  <2>4. \A c \in Requests : Progress(c)' /\ OwnReply(c)' /\ Replayed(c)'
    BY <2>1, <2>2 DEF Kept, Progress, OwnReply, Replayed
  <2>5. \A k \in Keys : Stored(k)'
    BY <2>1, <2>2 DEF Kept, Stored
  <2> QED
    BY <2>1, <2>2, <2>3, <2>4, <2>5 DEF Kept
<1> QED
  BY <1>1, <1>2, CrashKept DEF Next, Idle

LEMMA KeptHolds == Spec => []Kept
BY InitKept, NextKept, PTL DEF Spec

\* Types.
THEOREM TypeCorrect == Spec => []TypeOK
<1>1. Kept => TypeOK
  BY DEF Kept
<1> QED
  BY <1>1, KeptHolds, PTL

\* Deposit and Withdraw answer 500 to an error that only says that the moment
\* was bad, Transfer 400.
LEMMA TransientKept ==
  ASSUME Kept, NEW d \in Requests, ~hit[d], reply[d].code < 500, reply[d].body \in Transient
  PROVE  req[d].kind = "transfer"
<1>1. OwnReply(d) /\ req[d] \in Inputs
  BY DEF Kept
<1>2. answer[d] # "pending"
  BY <1>1 DEF OwnReply, NoReply, Transient
<1>3. reply[d] = [code |-> StatusOf(req[d], answer[d]), body |-> answer[d]]
  BY <1>1, <1>2 DEF OwnReply
<1>4. answer[d] \in Transient /\ StatusOf(req[d], answer[d]) < 500
  BY <1>3
<1>5. answer[d] \in BadRequest(req[d])
  BY <1>4 DEF StatusOf, Transient
<1>6. req[d].kind \in Kinds
  BY <1>1, IdempotencyAssumption
<1> QED
  BY <1>4, <1>5, <1>6 DEF BadRequest, Transient, Kinds

\* Whatever the middleware replays is the response of one call of the key that
\* executed, below 500, and stays the one stored; of the answers that only say
\* that the moment was bad, only those of transfers are replayed.
THEOREM ReplaysFaithful == Spec => []ReplayIsFaithful
<1>1. Kept => ReplayIsFaithful
  <2> SUFFICES ASSUME Kept, NEW c \in Requests, hit[c]
               PROVE  /\ reply[c].code < 500 /\ reply[c] = store[Hash(c)]
                      /\ \E d \in Repeats(c) :
                           /\ ~hit[d] /\ reply[d] = reply[c]
                           /\ reply[d].body \in Transient => req[d].kind = "transfer"
    BY DEF ReplayIsFaithful
  <2>1. c \in Keyed /\ reply[c] # NoReply /\ reply[c] = store[Hash(c)]
    BY DEF Kept, Progress, Replayed
  <2>2. Stored(Hash(c))
    BY <2>1, KeyOfCall DEF Kept
  <2>3. PICK d \in Keyed : Hash(d) = Hash(c) /\ ~hit[d] /\ reply[d] = store[Hash(c)]
    BY <2>1, <2>2 DEF Stored
  <2>4. d \in Repeats(c) /\ d \in Requests
    BY <2>3 DEF Repeats, Hash, Keyed
  <2>5. reply[d].code < 500
    BY <2>1, <2>2, <2>3 DEF Stored
  <2>6. reply[d].body \in Transient => req[d].kind = "transfer"
    BY <2>3, <2>4, <2>5, TransientKept
  <2> QED
    BY <2>1, <2>3, <2>4, <2>5, <2>6
<1> QED
  BY <1>1, KeptHolds, PTL

-----------------------------------------------------------------------------
(* A stored key is final. *)

\* No call of k is on its way to the ledger: those past their lookup are about
\* to be saved, where a response is stored already, or have lost their client
\* and will be refused.
OffLedger(k, c) ==
  c \in Keyed /\ c \in InFlight /\ Hash(c) = k =>
    pc[c] \in {"lookup", "save"} \/ (pc[c] = "handler" /\ gone[c])

\* What a step does to a settled key.
Awakened(k) == \E c \in Keyed : Hash(c) = k /\ ~gone[c] /\ LookupFails(c)
StaysFinal(k) ==
  /\ store'[k] = store[k] /\ Effects(k)' = Effects(k)
  /\ Settled(k)' \/ Awakened(k)

\* A step of c that stores and applies nothing of k and leaves c off the
\* ledger keeps k settled.
LEMMA SettledByCall ==
  ASSUME Kept, NEW k \in Keys, Settled(k), NEW c \in Requests, UNCHANGED <<req, habit>>,
         store'[k] = store[k], Effects(k)' = Effects(k),
         \A d \in Requests \ {c} : pc'[d] = pc[d] /\ gone'[d] = gone[d],
         OffLedger(k, c)'
  PROVE  StaysFinal(k)
<1>1. Keyed' = Keyed /\ \A d : Hash(d)' = Hash(d)
  BY HashStable
<1>2. \A d \in Requests \ {c} : OffLedger(k, d)'
  BY <1>1 DEF Settled, OffLedger, InFlight
<1>3. \A d \in Requests : OffLedger(k, d)'
  BY <1>2
<1>4. Settled(k)'
  BY <1>3 DEF Settled, OffLedger, Keyed
<1> QED
  BY <1>4 DEF StaysFinal

LEMMA SettledStep ==
  ASSUME Kept, [Next]_vars, NEW k \in Keys, Settled(k)
  PROVE  StaysFinal(k)
<1>1. UNCHANGED <<req, habit>>
  <2>1. ASSUME NEW c \in Requests, Execute(c) PROVE UNCHANGED <<req, habit>>
    BY <2>1, ExecuteEffect
  <2> QED
    BY <2>1 DEF Next, vars, Send, Hit, Miss, LookupFails, Handle, Save, Disconnect, Crash,
                Idle, ledgerVars
<1>2. Keyed' = Keyed /\ \A c : Hash(c)' = Hash(c)
  BY <1>1, HashStable
<1>3. store[k] # NoReply /\ \A c \in Requests : OffLedger(k, c)
  BY DEF Settled, OffLedger
<1>4. ASSUME NEW c \in Requests,
             \/ Send(c) \/ Hit(c) \/ Miss(c) \/ LookupFails(c) \/ Handle(c) \/ Disconnect(c)
      PROVE  StaysFinal(k)
  <2>1. UNCHANGED <<answer, store>> /\ Effects(k)' = Effects(k)
    BY <1>2, <1>4 DEF Send, Hit, Miss, LookupFails, Handle, Disconnect, ledgerVars, Effects
  <2>2. \A d \in Requests \ {c} : pc'[d] = pc[d] /\ gone'[d] = gone[d]
    BY <1>4 DEF Kept, TypeOK, Send, Hit, Miss, LookupFails, Handle, Disconnect, Goto
  <2>3. CASE c \in Keyed /\ Hash(c) = k /\ ~gone[c] /\ LookupFails(c)
    <3>1. Awakened(k)
      BY <2>3 DEF Awakened
    <3> QED
      BY <2>1, <3>1 DEF StaysFinal
  <2>4. CASE ~(c \in Keyed /\ Hash(c) = k /\ ~gone[c] /\ LookupFails(c))
    <3>1. OffLedger(k, c)'
      <4> SUFFICES ASSUME c \in Keyed, Hash(c) = k, c \in InFlight'
                   PROVE  pc'[c] \in {"lookup", "save"} \/ (pc'[c] = "handler" /\ gone'[c])
        BY <1>2 DEF OffLedger
      <4>1. CASE Send(c) \/ Hit(c)
        BY <4>1 DEF Kept, TypeOK, Send, Hit, Goto, InFlight
      <4>2. CASE Miss(c)
        BY <1>3, <4>2 DEF Miss
      <4>3. CASE LookupFails(c)
        BY <2>4, <4>3 DEF Kept, TypeOK, LookupFails, Goto
      <4>4. CASE Handle(c)
        <5>1. gone[c]
          BY <1>3, <4>4 DEF OffLedger, Handle, InFlight
        <5> QED
          BY <4>4, <5>1 DEF Kept, TypeOK, Handle, Goto, AfterReply
      <4>5. CASE Disconnect(c)
        <5>1. c \in InFlight /\ pc' = pc /\ gone'[c]
          BY <4>5 DEF Kept, TypeOK, Disconnect
        <5> QED
          BY <1>3, <5>1 DEF OffLedger
      <4> QED
        BY <1>4, <4>1, <4>2, <4>3, <4>4, <4>5
    <3> QED
      BY <1>1, <2>1, <2>2, <3>1, SettledByCall
  <2> QED
    BY <2>3, <2>4
<1>5. ASSUME NEW c \in Requests, Execute(c) PROVE StaysFinal(k)
  <2>1. PICK ans \in L!Refusals \cup {"ok", "unknown"} :
          /\ answer' = [answer EXCEPT ![c] = ans]
          /\ pc' = [pc EXCEPT ![c] = AfterReply(c)]
          /\ UNCHANGED <<gone, store>>
    BY <1>5, ExecuteEffect
  <2>2. ~(c \in Keyed /\ Hash(c) = k)
    BY <1>3, <1>5 DEF Execute, InFlight, OffLedger
  <2>3. Effects(k)' = Effects(k)
    BY <1>2, <2>1, <2>2 DEF Kept, Effects, Keyed
  <2>4. \A d \in Requests \ {c} : pc'[d] = pc[d] /\ gone'[d] = gone[d]
    BY <2>1 DEF Kept, TypeOK
  <2>5. OffLedger(k, c)'
    BY <1>2, <2>2 DEF OffLedger
  <2> QED
    BY <1>1, <2>1, <2>3, <2>4, <2>5, SettledByCall
<1>6. ASSUME NEW c \in Requests, Save(c) PROVE StaysFinal(k)
  <2>1. store'[k] = store[k]
    BY <1>3, <1>6 DEF Save, Kept, TypeOK
  <2>2. /\ UNCHANGED <<answer, gone>> /\ pc'[c] = "done"
        /\ \A d \in Requests \ {c} : pc'[d] = pc[d]
    BY <1>6 DEF Save, Goto, ledgerVars, Kept, TypeOK
  <2>3. Effects(k)' = Effects(k) /\ OffLedger(k, c)'
    BY <1>2, <2>2 DEF Effects, OffLedger, InFlight
  <2> QED
    BY <1>1, <2>1, <2>2, <2>3, SettledByCall
<1>7. CASE Crash
  <2>1. UNCHANGED <<answer, gone, store>> /\ InFlight' = {}
    BY <1>7 DEF Crash, ledgerVars, InFlight
  <2> QED
    BY <1>2, <1>3, <2>1 DEF Settled, Effects, StaysFinal
<1>8. CASE UNCHANGED vars
  <2>1. Settled(k)' /\ Effects(k)' = Effects(k)
    BY <1>2, <1>8 DEF vars, Settled, Effects, InFlight
  <2> QED
    BY <1>8, <2>1 DEF vars, StaysFinal
<1> QED
  BY <1>4, <1>5, <1>6, <1>7, <1>8 DEF Next, Idle

\* Once a response is stored and no call of the key is on its way to the
\* ledger, what is stored and applied stays, through crashes and disconnects,
\* and only the failing lookup of a client that waits sends a call of the key
\* to the ledger again.
THEOREM StoredKeysFinal == Spec => StoredKeyIsFinal
<1>1. Kept /\ [Next]_vars =>
        [\A k \in Keys : Settled(k) =>
           /\ store'[k] = store[k]
           /\ Effects(k)' = Effects(k)
           /\ Settled(k)' \/ \E c \in Keyed : Hash(c) = k /\ ~gone[c] /\ LookupFails(c)]_vars
  BY SettledStep DEF StaysFinal, Awakened
<1> QED
  BY <1>1, KeptHolds, PTL DEF Spec, StoredKeyIsFinal

-----------------------------------------------------------------------------
(* The answers tell the truth. *)

\* No call has lost its client, no commit its acknowledgement; one call of a
\* header is under way at a time.
Orderly ==
  /\ \A c \in Requests : ~gone[c] /\ answer[c] # "unknown"
  /\ \A c, d \in Keyed :
       HeaderOf(c) = HeaderOf(d) /\ c \in InFlight /\ d \in InFlight => c = d

\* A call past its lookup found nothing stored; a call that is done was stored,
\* or failed; a call that was applied is on its way to be stored, or was.
Tracked(c) ==
  /\ pc[c] \in {"handler", "execute", "save"} => store[Hash(c)] = NoReply
  /\ pc[c] = "done" /\ reply[c].code < 500 => reply[c] = store[Hash(c)]
  /\ pc[c] = "done" => reply[c] # NoReply
  /\ store[Hash(c)].code = 200 => \E e \in Keyed : Hash(e) = Hash(c) /\ answer[e] = "ok"

Truth ==
  /\ Orderly
  /\ \A c \in Keyed : Tracked(c)
  /\ \A c, d \in Keyed :
       Hash(c) = Hash(d) /\ answer[c] = "ok" /\ answer[d] = "ok" => c = d

LEMMA InitTruth == Init => Truth
<1> SUFFICES ASSUME Init PROVE Truth
  OBVIOUS
<1>1. answer = [c \in Requests |-> "pending"]
  BY DEF Init, L!Init
<1>2. Orderly
  BY <1>1 DEF Init, Orderly, InFlight
<1>3. ASSUME NEW c \in Keyed PROVE Tracked(c)
  <2>1. store[Hash(c)] = NoReply /\ pc[c] = "unsent"
    BY <1>3, KeyOfCall DEF Init
  <2> QED
    BY <2>1 DEF Tracked, NoReply
<1>4. \A c \in Keyed : answer[c] # "ok"
  BY <1>1 DEF Keyed
<1> QED
  BY <1>2, <1>3, <1>4 DEF Truth

\* A step of c that stores nothing keeps the truth about the others.
LEMMA TruthStep ==
  ASSUME Kept, Truth, NEW c \in Requests, UNCHANGED <<req, habit, gone, store>>,
         \A d \in Requests \ {c} :
           pc'[d] = pc[d] /\ reply'[d] = reply[d] /\ answer'[d] = answer[d],
         c \in Keyed /\ c \in InFlight' => c \in InFlight \/ Repeats(c) \cap InFlight = {},
         answer[c] = "pending", answer'[c] # "unknown",
         answer'[c] = "ok" /\ c \in Keyed => \A d \in Keyed : Hash(d) = Hash(c) => answer[d] # "ok",
         c \in Keyed =>
           /\ pc'[c] \in {"handler", "execute", "save"} => store[Hash(c)] = NoReply
           /\ pc'[c] = "done" /\ reply'[c].code < 500 => reply'[c] = store[Hash(c)]
           /\ pc'[c] = "done" => reply'[c] # NoReply
  PROVE  Truth'
<1>1. Keyed' = Keyed /\ \A d : Hash(d)' = Hash(d) /\ HeaderOf(d)' = HeaderOf(d)
  BY HashStable
<1>2. Keyed \subseteq Requests
  BY DEF Keyed
<1>3. Orderly'
  <2>1. \A d \in Requests : ~gone'[d] /\ answer'[d] # "unknown"
    BY DEF Truth, Orderly
  <2>2. \A d \in Requests \ {c} : d \in InFlight' <=> d \in InFlight
    BY DEF InFlight
  <2>3. ASSUME NEW d \in Keyed, NEW e \in Keyed, HeaderOf(d) = HeaderOf(e),
               d \in InFlight', e \in InFlight'
        PROVE  d = e
    <3>1. CASE d # c /\ e # c
      BY <1>2, <2>2, <2>3, <3>1 DEF Truth, Orderly
    <3>2. CASE d = c /\ e # c
      BY <1>2, <2>2, <2>3, <3>2 DEF Truth, Orderly, Repeats
    <3>3. CASE d # c /\ e = c
      BY <1>2, <2>2, <2>3, <3>3 DEF Truth, Orderly, Repeats
    <3> QED
      BY <3>1, <3>2, <3>3
  <2> QED
    BY <1>1, <2>1, <2>3 DEF Orderly
<1>4. ASSUME NEW d \in Keyed PROVE Tracked(d)'
  <2>1. Tracked(d)
    BY <1>4 DEF Truth
  <2>2. store[Hash(d)].code = 200 => \E e \in Keyed : Hash(e) = Hash(d) /\ answer'[e] = "ok"
    BY <1>2, <2>1 DEF Tracked
  <2> QED
    BY <1>1, <1>2, <2>1, <2>2 DEF Tracked
<1>5. \A d, e \in Keyed : Hash(d) = Hash(e) /\ answer'[d] = "ok" /\ answer'[e] = "ok" => d = e
  BY <1>2 DEF Truth
<1> QED
  BY <1>1, <1>3, <1>4, <1>5 DEF Truth

\* Up to the service call nothing is stored or applied.
LEMMA PassTruth ==
  ASSUME Kept, Dependable, Truth, NEW c \in Requests,
         Send(c) \/ Hit(c) \/ Miss(c) \/ Handle(c)
  PROVE  Truth'
<1>1. UNCHANGED <<req, answer, habit, gone, store>>
  BY DEF Send, Hit, Miss, Handle, ledgerVars
<1>2. \A d \in Requests \ {c} : pc'[d] = pc[d] /\ reply'[d] = reply[d]
  BY DEF Kept, TypeOK, Send, Hit, Miss, Handle, Goto, Respond
<1>3. ~gone[c] /\ answer[c] = "pending"
  BY DEF Truth, Orderly, Kept, Progress, Send, Hit, Miss, Handle
<1>4. c \in Keyed => c \in InFlight \/ Repeats(c) \cap InFlight = {}
  BY DEF Send, Hit, Miss, Handle, InFlight, Dependable
<1>5. ASSUME c \in Keyed
      PROVE  /\ pc'[c] \in {"handler", "execute", "save"} => store[Hash(c)] = NoReply
             /\ pc'[c] = "done" => reply'[c] = store[Hash(c)] /\ reply'[c] # NoReply
  <2>1. CASE Send(c)
    BY <1>5, <2>1 DEF Kept, TypeOK, Send, Goto
  <2>2. CASE Hit(c)
    BY <2>2 DEF Kept, TypeOK, Hit, Goto
  <2>3. CASE Miss(c)
    BY <1>3, <2>3 DEF Kept, TypeOK, Miss, Goto
  <2>4. CASE Handle(c)
    <3>1. pc[c] = "handler" /\ pc'[c] \in {"execute", "save"}
      BY <1>5, <2>4 DEF Kept, TypeOK, Handle, Goto, AfterReply
    <3> QED
      BY <1>5, <3>1 DEF Truth, Tracked
  <2> QED
    BY <2>1, <2>2, <2>3, <2>4
<1>6. answer'[c] = "pending"
  BY <1>1, <1>3
<1> QED
  BY <1>1, <1>2, <1>3, <1>4, <1>5, <1>6, TruthStep

\* Nothing was applied under the key of a call that executes.
LEMMA FirstToApply ==
  ASSUME Kept, Truth, NEW c \in Keyed, pc[c] = "execute", NEW d \in Keyed, Hash(d) = Hash(c)
  PROVE  answer[d] # "ok"
<1> SUFFICES ASSUME answer[d] = "ok" PROVE FALSE
  OBVIOUS
<1>1. c \in Requests /\ d \in Requests /\ HeaderOf(d) = HeaderOf(c)
  BY DEF Keyed, Hash
<1>2. store[Hash(c)] = NoReply /\ answer[c] = "pending"
  BY <1>1 DEF Truth, Tracked, Kept, Progress
<1>3. pc[d] \in {"save", "done"}
  BY <1>1 DEF Kept, TypeOK, Progress
<1>4. CASE pc[d] = "save"
  <2>1. c \in InFlight /\ d \in InFlight
    BY <1>1, <1>4 DEF InFlight
  <2>2. c = d
    BY <1>1, <2>1 DEF Truth, Orderly
  <2> QED
    BY <1>2, <2>2
<1>5. CASE pc[d] = "done"
  <2>1. reply[d] = [code |-> StatusOf(req[d], "ok"), body |-> "ok"]
    BY <1>1 DEF Kept, OwnReply
  <2>2. reply[d].code = 200
    BY <2>1, StatusType
  <2>3. reply[d] = store[Hash(c)]
    BY <1>5, <2>2 DEF Truth, Tracked
  <2> QED
    BY <1>2, <2>2, <2>3 DEF NoReply
<1> QED
  BY <1>3, <1>4, <1>5

LEMMA ExecuteTruth ==
  ASSUME Kept, Dependable, Truth, NEW c \in Requests, Execute(c)
  PROVE  Truth'
<1>1. PICK ans \in L!Refusals \cup {"ok", "unknown"} :
         /\ Possible(c, ans) /\ answer' = [answer EXCEPT ![c] = ans]
         /\ reply' = [reply EXCEPT ![c] = [code |-> StatusOf(req[c], ans), body |-> ans]]
         /\ pc' = [pc EXCEPT ![c] = AfterReply(c)]
         /\ UNCHANGED <<req, habit, gone, hit, store>>
  BY ExecuteEffect
<1>2. pc[c] = "execute" /\ answer[c] = "pending" /\ c \in InFlight
  BY DEF Execute, Kept, Progress, InFlight
<1>3. ans # "unknown"
  BY <1>1 DEF Possible, Dependable, Truth, Orderly
<1>4. /\ answer'[c] = ans /\ pc'[c] = AfterReply(c)
      /\ \A d \in Requests \ {c} :
           pc'[d] = pc[d] /\ reply'[d] = reply[d] /\ answer'[d] = answer[d]
  BY <1>1 DEF Kept, TypeOK
<1>5. c \in Keyed => store[Hash(c)] = NoReply /\ pc'[c] = "save"
  BY <1>2, <1>4 DEF Truth, Tracked, AfterReply
<1>6. c \in Keyed => \A d \in Keyed : Hash(d) = Hash(c) => answer[d] # "ok"
  BY <1>2, FirstToApply
<1> QED
  BY <1>1, <1>2, <1>3, <1>4, <1>5, <1>6, TruthStep

\* A call stores its own response, where nothing was.
LEMMA SaveTruth ==
  ASSUME Kept, Dependable, Truth, NEW c \in Requests, Save(c)
  PROVE  Truth'
<1>1. UNCHANGED <<req, answer, habit, gone, reply, hit>> /\ pc[c] = "save"
  BY DEF Save, ledgerVars
<1>2. Keyed' = Keyed /\ \A d : Hash(d)' = Hash(d) /\ HeaderOf(d)' = HeaderOf(d)
  BY <1>1, HashStable
<1>3. /\ c \in Keyed /\ reply[c] # NoReply /\ ~hit[c] /\ ~gone[c]
      /\ Hash(c) \in Keys /\ store[Hash(c)] = NoReply
  BY <1>1, KeyOfCall DEF Kept, Progress, Truth, Orderly, Tracked
<1>4. /\ pc'[c] = "done" /\ \A d \in Requests : d # c => pc'[d] = pc[d]
      /\ \A k \in Keys : k # Hash(c) => store'[k] = store[k]
      /\ store'[Hash(c)] = IF reply[c].code < 500 THEN reply[c] ELSE NoReply
  <2>1. "database" \notin habit.faults /\ store[Hash(c)] = NoReply /\ ~gone[c]
    BY <1>3 DEF Dependable
  <2>2. reply[c].code < 500 <=> ~(reply[c].code >= 500)
    BY <1>3, ReplyCode DEF Kept, TypeOK, Codes
  <2>3. store' = IF reply[c].code < 500 THEN [store EXCEPT ![Hash(c)] = reply[c]] ELSE store
    BY <2>1, <2>2 DEF Save
  <2> QED
    BY <1>3, <2>1, <2>3 DEF Save, Goto, Kept, TypeOK
<1>5. Orderly'
  <2>1. \A d \in InFlight' : d \in InFlight
    BY <1>1, <1>4 DEF InFlight
  <2> QED
    BY <1>1, <1>2, <2>1 DEF Truth, Orderly
<1>6. ASSUME NEW d \in Keyed PROVE Tracked(d)'
  <2>1. Tracked(d) /\ d \in Requests /\ Hash(d) \in Keys
    BY <1>6, KeyOfCall DEF Truth
  <2>2. CASE Hash(d) # Hash(c)
    <3>1. store'[Hash(d)] = store[Hash(d)] /\ pc'[d] = pc[d]
      BY <1>4, <2>1, <2>2
    <3> QED
      BY <1>1, <1>2, <2>1, <3>1 DEF Tracked
  <2>3. CASE Hash(d) = Hash(c)
    <3>1. pc'[d] \in {"handler", "execute", "save"} => d = c
      <4> SUFFICES ASSUME pc'[d] \in {"handler", "execute", "save"}, d # c PROVE FALSE
        OBVIOUS
      <4>1. d \in InFlight /\ c \in InFlight /\ HeaderOf(d) = HeaderOf(c)
        BY <1>1, <1>4, <2>1, <2>3 DEF InFlight, Hash
      <4> QED
        BY <1>3, <4>1 DEF Truth, Orderly
    <3>2. pc'[d] = "done" => reply[d] # NoReply
      BY <1>3, <1>4, <2>1 DEF Tracked
    <3>3. pc'[d] = "done" /\ reply[d].code < 500 => reply[d] = store'[Hash(d)]
      <4>1. CASE d = c
        BY <1>4, <4>1
      <4>2. CASE d # c
        BY <1>3, <1>4, <2>1, <2>3, <4>2 DEF Tracked
      <4> QED
        BY <4>1, <4>2
    <3>4. store'[Hash(d)].code = 200 => answer[c] = "ok"
      <4> SUFFICES ASSUME store'[Hash(d)].code = 200 PROVE answer[c] = "ok"
        OBVIOUS
      <4>1. reply[c].code = 200
        BY <1>4, <2>3 DEF NoReply
      <4>2. OwnReply(c)
        BY DEF Kept
      <4>3. reply[c] = [code |-> StatusOf(req[c], answer[c]), body |-> answer[c]]
        BY <1>3, <4>1, <4>2 DEF OwnReply
      <4> QED
        BY <4>1, <4>3, StatusType
    <3> QED
      BY <1>1, <1>2, <1>3, <1>4, <2>3, <3>1, <3>2, <3>3, <3>4 DEF Tracked
  <2> QED
    BY <2>2, <2>3
<1> QED
  BY <1>1, <1>2, <1>5, <1>6 DEF Truth

LEMMA NextTruth ==
  Kept /\ (Dependable => Truth) /\ [Next]_vars => (Dependable => Truth)'
<1> SUFFICES ASSUME Kept, Dependable => Truth, [Next]_vars, Dependable'
             PROVE  Truth'
  OBVIOUS
<1>1. habit' = habit
  <2>1. ASSUME NEW c \in Requests, Execute(c) PROVE habit' = habit
    BY <2>1 DEF Execute
  <2> QED
    BY <2>1 DEF Next, vars, Send, Hit, Miss, LookupFails, Handle, Save, Disconnect, Crash,
                Idle, ledgerVars
<1>2. Dependable /\ Truth
  BY <1>1 DEF Dependable
<1>3. ASSUME NEW c \in Requests,
             Send(c) \/ Hit(c) \/ Miss(c) \/ Handle(c) \/ Execute(c) \/ Save(c)
      PROVE  Truth'
  BY <1>2, <1>3, PassTruth, ExecuteTruth, SaveTruth
<1>4. ~Crash /\ \A c \in Requests : ~Disconnect(c) /\ ~LookupFails(c)
  BY <1>2 DEF Dependable, Truth, Orderly, Crash, Disconnect, LookupFails
<1>5. CASE UNCHANGED vars
  <2>1. UNCHANGED <<req, answer, habit, pc, gone, reply, store>>
    BY <1>5 DEF vars
  <2>2. Keyed' = Keyed /\ \A c : Hash(c)' = Hash(c) /\ HeaderOf(c)' = HeaderOf(c)
    BY <2>1, HashStable
  <2>3. \A c \in Keyed : Tracked(c)'
    BY <1>2, <2>1, <2>2 DEF Truth, Tracked
  <2>4. Orderly'
    BY <1>2, <2>1, <2>2 DEF Truth, Orderly, InFlight
  <2> QED
    BY <1>2, <2>1, <2>2, <2>3, <2>4 DEF Truth
<1> QED
  BY <1>3, <1>4, <1>5 DEF Next, Idle

\* What the answer of a call says about the ledger, call by call.
LEMMA TruthOfAnswers ==
  ASSUME Kept, Dependable, Truth, NEW c \in Requests
  PROVE  /\ reply[c].code = 200 => Cardinality(Applied(SameCall(c))) = 1
         /\ reply[c].code \in {400, 403, 404} => Applied(SameCall(c)) = {}
<1>1. /\ Progress(c) /\ OwnReply(c) /\ Replayed(c)
      /\ \A d \in Requests : answer[d] # "unknown"
  BY DEF Kept, Truth, Orderly
<1>2. ~hit[c] => /\ reply[c].code = 200 <=> answer[c] = "ok"
  <2> SUFFICES ASSUME ~hit[c] PROVE reply[c].code = 200 <=> answer[c] = "ok"
    OBVIOUS
  <2>1. CASE answer[c] = "pending"
    BY <1>1, <2>1 DEF OwnReply, NoReply
  <2>2. CASE answer[c] # "pending"
    <3>1. reply[c] = [code |-> StatusOf(req[c], answer[c]), body |-> answer[c]]
      BY <1>1, <2>2 DEF OwnReply
    <3> QED
      BY <3>1, StatusType
  <2> QED
    BY <2>1, <2>2
<1>3. CASE c \notin Keyed
  <2>1. SameCall(c) = {c} /\ ~hit[c]
    BY <1>1, <1>3 DEF SameCall, Progress
  <2>2. Applied(SameCall(c)) = IF answer[c] = "ok" THEN {c} ELSE {}
    BY <1>1, <2>1 DEF Applied
  <2>3. Cardinality({c}) = 1
    BY FS_Singleton
  <2> QED
    BY <1>2, <2>1, <2>2, <2>3
<1>4. CASE c \in Keyed
  <2>1. SameCall(c) = {d \in Keyed : Hash(d) = Hash(c)}
    BY <1>4 DEF SameCall, Alike, Hash
  <2>2. Applied(SameCall(c)) = {d \in Keyed : Hash(d) = Hash(c) /\ answer[d] = "ok"}
    BY <1>1, <2>1 DEF Applied, Keyed
  <2>3. reply[c] # NoReply => pc[c] \in {"save", "done"}
    BY <1>1 DEF Progress, Kept, TypeOK
  <2>4. Tracked(c)
    BY <1>4 DEF Truth
  <2>5. ASSUME reply[c].code = 200 PROVE Cardinality(Applied(SameCall(c))) = 1
    <3>1. PICK e \in Keyed : Hash(e) = Hash(c) /\ answer[e] = "ok"
      <4>1. pc[c] \in {"save", "done"}
        BY <2>3, <2>5 DEF NoReply
      <4>2. CASE pc[c] = "save"
        BY <1>1, <1>2, <1>4, <2>5, <4>2 DEF Progress
      <4>3. CASE pc[c] = "done"
        BY <2>4, <2>5, <4>3 DEF Tracked
      <4> QED
        BY <4>1, <4>2, <4>3
    <3>2. Applied(SameCall(c)) = {e}
      BY <2>2, <3>1 DEF Truth
    <3> QED
      BY <3>2, FS_Singleton
  <2>6. ASSUME reply[c].code \in {400, 403, 404}, NEW d \in Keyed, Hash(d) = Hash(c), answer[d] = "ok"
        PROVE  FALSE
    <3>1. pc[c] \in {"save", "done"}
      BY <2>3, <2>6 DEF NoReply
    <3>2. /\ d \in Requests /\ HeaderOf(d) = HeaderOf(c) /\ Tracked(d)
          /\ Progress(d) /\ OwnReply(d) /\ pc[d] \in {"save", "done"}
      BY <2>6 DEF Keyed, Hash, Truth, Kept, TypeOK, Progress
    <3>3. reply[d].code = 200
      <4>1. reply[d] = [code |-> StatusOf(req[d], "ok"), body |-> "ok"]
        BY <2>6, <3>2 DEF OwnReply
      <4> QED
        BY <4>1, StatusType
    <3>4. CASE pc[c] = "save" /\ pc[d] = "save"
      <4>1. c = d
        BY <1>4, <3>2, <3>4 DEF Truth, Orderly, InFlight
      <4> QED
        BY <2>6, <3>3, <4>1
    <3>5. CASE pc[c] = "save" /\ pc[d] = "done"
      BY <2>4, <2>6, <3>2, <3>3, <3>5 DEF Tracked, NoReply
    <3>6. CASE pc[c] = "done" /\ pc[d] = "save"
      BY <2>4, <2>6, <3>2, <3>6 DEF Tracked, NoReply
    <3>7. CASE pc[c] = "done" /\ pc[d] = "done"
      BY <2>4, <2>6, <3>2, <3>3, <3>7 DEF Tracked
    <3> QED
      BY <3>1, <3>2, <3>4, <3>5, <3>6, <3>7
  <2> QED
    BY <2>2, <2>5, <2>6
<1> QED
  BY <1>3, <1>4

\* To a client that waits for each answer, on a connection that holds, 200
\* means that one call with its key and body was applied, exactly once, and a
\* 4xx that none was.
THEOREM AnswersTruthful == Spec => []AnswersTellTheTruth
<1>1. Kept /\ (Dependable => Truth) => AnswersTellTheTruth
  BY TruthOfAnswers DEF AnswersTellTheTruth
<1>2. Init => (Dependable => Truth)
  BY InitTruth
<1> QED
  BY <1>1, <1>2, NextTruth, KeptHolds, PTL DEF Spec
=============================================================================
