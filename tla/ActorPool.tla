------------------------------- MODULE ActorPool -------------------------------
(***************************************************************************)
(* One of the four pools at the level SchemaService abstracts from: the    *)
(* SmallestMailboxPool routes each message to the mailbox of one actor,    *)
(* the actor serves its mailbox in order and blocks in each repository     *)
(* call, at most CallLimit long, and the HTTP server answers a client that *)
(* has waited RequestTimeout by itself, while its message stays where it   *)
(* is.  What the calls do is not the subject here, only how many a message *)
(* may make and how long they take.                                        *)
(*                                                                         *)
(* The HTTP server, the router and the actors' scheduling are Akka's       *)
(* (2.5.6 and 10.0.10).  Time is a count of ticks.                         *)
(***************************************************************************)
EXTENDS Integers, Sequences, FiniteSets

CONSTANTS
    Requests,
    Actors,
    NoActor,          \* the current message of an idle actor, a place not chosen
    CallCounts,       \* how many repository calls a message may make; none for
                      \* a request the route refuses
    CallLimit,        \* Helpers.scala:26: 10 s
    RequestTimeout,   \* akka.http.server.request-timeout: 20 s by default
    MayStop           \* whether the process may be stopped

ASSUME PoolAssumption ==
    /\ CallCounts \subseteq Nat
    /\ {CallLimit, RequestTimeout} \subseteq Nat \ {0}
    /\ MayStop \in BOOLEAN

(* NoActor stands beside actors and beside messages. *)
ASSUME ActorsAssumption ==
    /\ IsFiniteSet(Actors)
    /\ NoActor \notin Actors \cup Requests

VARIABLES
    left,      \* the calls each message may still make
    client,    \* what the client of each request knows
    chosen,    \* the actor the router has picked for a message
    mailbox,   \* the messages waiting for each actor
    current,   \* the message each actor serves
    waited,    \* how long its present call has lasted
    age,       \* how long each client has waited
    process,   \* the process
    backlog,   \* history: the calls left in what each actor serves and has waiting
    ahead      \* history: the calls before and in a message when it was queued

clientVars == <<client, age>>
actorVars == <<mailbox, current, waited>>
history == <<backlog, ahead>>
vars == <<left, chosen, clientVars, actorVars, process, history>>

-----------------------------------------------------------------------------
Init ==
    /\ left \in [Requests -> CallCounts]
    /\ client = [r \in Requests |-> "unsent"]
    /\ chosen = [r \in Requests |-> NoActor]
    /\ mailbox = [a \in Actors |-> <<>>]
    /\ current = [a \in Actors |-> NoActor]
    /\ waited = [a \in Actors |-> 0]
    /\ age = [r \in Requests |-> 0]
    /\ process = "running"
    /\ backlog = [a \in Actors |-> 0]
    /\ ahead = [r \in Requests |-> 0]

(* A body no format accepts, or a version in the path that is no Int        *)
(* (majorVersion.toInt throws): the route answers 400 or 500 by itself.     *)
Refuse(r) ==
    /\ process = "running"
    /\ client[r] = "unsent"
    /\ left[r] = 0
    /\ client' = [client EXCEPT ![r] = "refused"]
    /\ UNCHANGED <<left, chosen, age, actorVars, process, history>>

(* The routing logic picks an actor with the fewest messages, the one being  *)
(* served included; other threads route theirs before this one is queued.    *)
Load(a) == Len(mailbox[a]) + IF current[a] = NoActor THEN 0 ELSE 1

Route(r) ==
    /\ process = "running"
    /\ client[r] = "unsent"
    /\ left[r] > 0
    /\ \E a \in Actors :
          /\ \A b \in Actors : Load(a) <= Load(b)
          /\ chosen' = [chosen EXCEPT ![r] = a]
    /\ client' = [client EXCEPT ![r] = "waiting"]
    /\ UNCHANGED <<left, age, actorVars, process, history>>

Enqueue(r) ==
    LET a == chosen[r] IN
    /\ process = "running"
    /\ a # NoActor
    /\ chosen' = [chosen EXCEPT ![r] = NoActor]
    /\ mailbox' = [mailbox EXCEPT ![a] = Append(@, r)]
    /\ backlog' = [backlog EXCEPT ![a] = @ + left[r]]
    /\ ahead' = [ahead EXCEPT ![r] = backlog[a] + left[r]]
    /\ UNCHANGED <<left, clientVars, current, waited, process>>

-----------------------------------------------------------------------------
MutantRest(a) == mailbox[a]
Rest(a) == Tail(mailbox[a])

(* An actor takes messages in the order of its mailbox, from no other one.   *)
Begin(a) ==
    /\ process = "running"
    /\ current[a] = NoActor
    /\ mailbox[a] # <<>>
    /\ current' = [current EXCEPT ![a] = Head(mailbox[a])]
    /\ mailbox' = [mailbox EXCEPT ![a] = Rest(a)]
    /\ UNCHANGED <<left, chosen, clientVars, waited, process, history>>

(* A call returns and the next one is made. *)
NextCall(a) ==
    LET r == current[a] IN
    /\ r # NoActor
    /\ left[r] > 1
    /\ left' = [left EXCEPT ![r] = @ - 1]
    /\ backlog' = [backlog EXCEPT ![a] = @ - 1]
    /\ waited' = [waited EXCEPT ![a] = 0]
    /\ UNCHANGED <<chosen, clientVars, mailbox, current, process, ahead>>

(* completeFn, after the last call, one that decides the answer or one that  *)
(* failed.  A client that was told 503 hears nothing more.                   *)
Complete(a) ==
    LET r == current[a] IN
    /\ r # NoActor
    /\ current' = [current EXCEPT ![a] = NoActor]
    /\ left' = [left EXCEPT ![r] = 0]
    /\ backlog' = [backlog EXCEPT ![a] = @ - left[r]]
    /\ waited' = [waited EXCEPT ![a] = 0]
    /\ client' = [client EXCEPT ![r] = IF @ = "waiting" THEN "answered" ELSE @]
    /\ age' = [age EXCEPT ![r] = 0]
    /\ UNCHANGED <<chosen, mailbox, process, ahead>>

(* Await.result throws after CallLimit. *)
MutantOverdue(a) == FALSE
Overdue(a) == current[a] # NoActor /\ waited[a] = CallLimit

GiveUp(a) == Overdue(a) /\ Complete(a)

TimesOut(r) ==
    /\ process = "running"
    /\ client[r] = "waiting"
    /\ age[r] = RequestTimeout
    /\ client' = [client EXCEPT ![r] = "timedOut"]
    /\ age' = [age EXCEPT ![r] = 0]
    /\ UNCHANGED <<left, chosen, actorVars, process, history>>

-----------------------------------------------------------------------------
(* Time passes while calls last.  Routing and taking a message take no time, *)
(* and no deadline is passed by.                                             *)
Later(t, limit) == IF t < limit THEN t + 1 ELSE t

Tick ==
    /\ process # "exited"
    /\ \E a \in Actors : current[a] # NoActor
    /\ \A a \in Actors : ~Overdue(a)
    /\ process = "running" =>
          /\ \A a \in Actors : current[a] = NoActor => mailbox[a] = <<>>
          /\ \A r \in Requests : chosen[r] = NoActor
          /\ \A r \in Requests : client[r] = "waiting" => age[r] < RequestTimeout
    /\ waited' = [a \in Actors |-> IF current[a] = NoActor THEN waited[a]
                                   ELSE Later(waited[a], CallLimit)]
    /\ age' = [r \in Requests |-> IF process = "running" /\ client[r] = "waiting"
                                 THEN age[r] + 1 ELSE age[r]]
    /\ UNCHANGED <<left, client, chosen, mailbox, current, process, history>>

(* The shutdown hook: system.terminate() lets an actor end the message it    *)
(* serves and takes no other; the process may exit before it does.  The HTTP *)
(* server stops with the system and times no request any more.               *)
Terminate ==
    /\ MayStop
    /\ process = "running"
    /\ process' = "terminating"
    /\ UNCHANGED <<left, clientVars, chosen, actorVars, history>>

Exit ==
    /\ process = "terminating"
    /\ process' = "exited"
    /\ client' = [r \in Requests |-> IF client[r] = "waiting" THEN "lost" ELSE client[r]]
    /\ chosen' = [r \in Requests |-> NoActor]
    /\ mailbox' = [a \in Actors |-> <<>>]
    /\ current' = [a \in Actors |-> NoActor]
    /\ waited' = [a \in Actors |-> 0]
    /\ age' = [r \in Requests |-> 0]
    /\ backlog' = [a \in Actors |-> 0]
    /\ UNCHANGED <<left, ahead>>

Next ==
    \/ \E r \in Requests : Refuse(r) \/ Route(r) \/ Enqueue(r) \/ TimesOut(r)
    \/ \E a \in Actors : Begin(a) \/ NextCall(a) \/ Complete(a)
    \/ Tick \/ Terminate \/ Exit

Spec == Init /\ [][Next]_vars

(* Akka routes and dispatches, deadlines are kept, time passes and a process *)
(* that is terminating exits.  No call needs to return.                      *)
Fairness ==
    /\ \A r \in Requests : WF_vars(Enqueue(r)) /\ WF_vars(TimesOut(r))
    /\ \A a \in Actors : WF_vars(Begin(a)) /\ WF_vars(GiveUp(a))
    /\ WF_vars(Tick) /\ WF_vars(Exit)

FairSpec == Spec /\ Fairness

-----------------------------------------------------------------------------
(* Type invariant.  A message is in one place: picked an actor for, waiting   *)
(* or served, and with one actor.                                            *)
At(r, a, i) ==
    \/ i = -1 /\ chosen[r] = a
    \/ i = 0 /\ current[a] = r
    \/ i \in DOMAIN mailbox[a] /\ mailbox[a][i] = r

Places(r) == {p \in Actors \X (-1..Cardinality(Requests)) : At(r, p[1], p[2])}

PoolTypeOK ==
    /\ left \in [Requests -> Nat]
    /\ client \in [Requests -> {"unsent", "refused", "waiting",
                              "answered", "timedOut", "lost"}]
    /\ chosen \in [Requests -> Actors \cup {NoActor}]
    /\ current \in [Actors -> Requests \cup {NoActor}]
    /\ waited \in [Actors -> 0..CallLimit]
    /\ age \in [Requests -> 0..RequestTimeout]
    /\ process \in {"running", "terminating", "exited"}
    /\ \A r \in Requests : Cardinality(Places(r)) <= 1

(* Only a message that may have to wait for too many calls keeps its client  *)
(* waiting for a 503: those of its actor's mailbox when it was put there and *)
(* its own, each as long as a call may last, add up to the timeout.  So a    *)
(* read that finds its actor idle never does; a create, with four calls, may *)
(* by itself, and go on to store its schema.                                 *)
(* ApplicationMain.scala:56-74, Helpers.scala:24-38.                         *)
OnlyOverdueTimesOut ==
    \A r \in Requests :
       client[r] = "timedOut" => ahead[r] * CallLimit >= RequestTimeout

(* Whatever has been handed to the pool is served to its end unless the      *)
(* process exits, also when its client has been told 503 meanwhile and       *)
(* however long the messages before it take: no mailbox is abandoned.        *)
(* ApplicationMain.scala:56-63, Helpers.scala:24-38.                         *)
ServedToTheEnd ==
    \A r \in Requests :
       client[r] = "waiting" ~> left[r] = 0 \/ process = "exited"

-----------------------------------------------------------------------------
(* How the pool looks from outside: what a request the route refuses does is *)
(* no business of the pool's, and a message the router holds or an actor     *)
(* that terminates will never take is queued until the process exits.        *)
Stage ==
    [r \in Requests |->
        IF client[r] \in {"unsent", "refused"} THEN "unsent"
        ELSE IF \E a \in Actors : current[a] = r THEN "serving"
        ELSE IF left[r] = 0 THEN "done"
        ELSE IF process = "exited" THEN "lost"
        ELSE "queued"]

Pool == INSTANCE WorkerPool WITH stage <- Stage, PoolSize <- Cardinality(Actors)

(* The router, the mailboxes, timeouts and the stop keep the pool's promise:  *)
(* no message is served twice, dropped or served beside too many others.     *)
(* ApplicationMain.scala:38-97.                                              *)
ImplementsPool == Pool!Spec
==============================================================================
