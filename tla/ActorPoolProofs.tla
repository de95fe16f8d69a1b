---------------------------- MODULE ActorPoolProofs ----------------------------
(***************************************************************************)
(* That a message of a pool is in one place in every instance, and that    *)
(* the pool implements WorkerPool.                                         *)
(***************************************************************************)
EXTENDS ActorPool, FiniteSetTheorems, SequenceTheorems, TLAPS

Stages == {"unsent", "refused", "waiting", "answered", "timedOut", "lost"}

(* The parts of PoolTypeOK but the last, and the mailboxes. *)
PoolTyped ==
    /\ left \in [Requests -> Nat]
    /\ client \in [Requests -> Stages]
    /\ chosen \in [Requests -> Actors \cup {NoActor}]
    /\ mailbox \in [Actors -> Seq(Requests)]
    /\ current \in [Actors -> Requests \cup {NoActor}]
    /\ waited \in [Actors -> 0..CallLimit]
    /\ age \in [Requests -> 0..RequestTimeout]
    /\ process \in {"running", "terminating", "exited"}

(* A message is in one place. *)
OnePlace ==
    \A r \in Requests, a, b \in Actors, i, j \in Int :
       At(r, a, i) /\ At(r, b, j) => a = b /\ i = j

(* It was handed to the pool, and calls are left to make. *)
HandedOver ==
    \A r \in Requests, a \in Actors, i \in Int :
       At(r, a, i) => client[r] \notin {"unsent", "refused"} /\ left[r] > 0

PoolInv == PoolTyped /\ OnePlace /\ HandedOver

-----------------------------------------------------------------------------
LEMMA PoolCases ==
    ASSUME NEW P,
           [Next]_vars,
           ASSUME NEW r \in Requests, Refuse(r) PROVE P,
           ASSUME NEW r \in Requests, Route(r) PROVE P,
           ASSUME NEW r \in Requests, Enqueue(r) PROVE P,
           ASSUME NEW r \in Requests, TimesOut(r) PROVE P,
           ASSUME NEW a \in Actors, Begin(a) PROVE P,
           ASSUME NEW a \in Actors, NextCall(a) PROVE P,
           ASSUME NEW a \in Actors, Complete(a) PROVE P,
           Tick => P,
           Terminate => P,
           Exit => P,
           UNCHANGED vars => P
    PROVE P
BY DEF Next

(* What a step does to the mailboxes. *)
LEMMA Enqueued ==
    ASSUME NEW r \in Requests, PoolTyped, Enqueue(r)
    PROVE /\ chosen[r] \in Actors
          /\ mailbox' \in [Actors -> Seq(Requests)]
          /\ Len(mailbox'[chosen[r]]) = Len(mailbox[chosen[r]]) + 1
          /\ mailbox'[chosen[r]][Len(mailbox[chosen[r]]) + 1] = r
          /\ \A i \in 1..Len(mailbox[chosen[r]]) :
                mailbox'[chosen[r]][i] = mailbox[chosen[r]][i]
          /\ \A b \in Actors \ {chosen[r]} : mailbox'[b] = mailbox[b]
<1>1. PICK a \in Actors : a = chosen[r]
  BY DEF PoolTyped, Enqueue
<1>2. mailbox' = [mailbox EXCEPT ![a] = Append(mailbox[a], r)]
  BY <1>1 DEF Enqueue
<1>3. mailbox[a] \in Seq(Requests)
  BY DEF PoolTyped
<1>4. /\ Append(mailbox[a], r) \in Seq(Requests)
      /\ Len(Append(mailbox[a], r)) = Len(mailbox[a]) + 1
      /\ \A i \in 1..Len(mailbox[a]) : Append(mailbox[a], r)[i] = mailbox[a][i]
      /\ Append(mailbox[a], r)[Len(mailbox[a]) + 1] = r
  BY <1>3, AppendProperties
<1>5. mailbox'[a] = Append(mailbox[a], r)
  BY <1>2 DEF PoolTyped
<1>6. mailbox' \in [Actors -> Seq(Requests)]
  BY <1>2, <1>4 DEF PoolTyped
<1>7. \A b \in Actors \ {a} : mailbox'[b] = mailbox[b]
  BY <1>2 DEF PoolTyped
<1> QED BY <1>1, <1>4, <1>5, <1>6, <1>7

LEMMA Begun ==
    ASSUME NEW a \in Actors, PoolTyped, Begin(a)
    PROVE /\ mailbox' \in [Actors -> Seq(Requests)]
          /\ mailbox[a] # <<>>
          /\ Head(mailbox[a]) \in Requests
          /\ 1 \in DOMAIN mailbox[a]
          /\ mailbox[a][1] = Head(mailbox[a])
          /\ Len(mailbox'[a]) = Len(mailbox[a]) - 1
          /\ \A i \in 1..Len(mailbox'[a]) : mailbox'[a][i] = mailbox[a][i + 1]
          /\ \A b \in Actors \ {a} : mailbox'[b] = mailbox[b]
<1>1. mailbox' = [mailbox EXCEPT ![a] = Tail(mailbox[a])] /\ mailbox[a] # <<>>
  BY DEF Begin, Rest
<1>2. mailbox[a] \in Seq(Requests)
  BY DEF PoolTyped
<1>3. /\ Head(mailbox[a]) \in Requests
      /\ Tail(mailbox[a]) \in Seq(Requests)
      /\ Len(Tail(mailbox[a])) = Len(mailbox[a]) - 1
      /\ \A i \in 1..Len(Tail(mailbox[a])) : Tail(mailbox[a])[i] = mailbox[a][i + 1]
  BY <1>1, <1>2, HeadTailProperties
<1>4. 1 \in DOMAIN mailbox[a] /\ mailbox[a][1] = Head(mailbox[a])
  BY <1>1, <1>2, EmptySeq, LenProperties
<1>5. mailbox'[a] = Tail(mailbox[a])
  BY <1>1 DEF PoolTyped
<1>6. mailbox' \in [Actors -> Seq(Requests)]
  BY <1>1, <1>3 DEF PoolTyped
<1>7. \A b \in Actors \ {a} : mailbox'[b] = mailbox[b]
  BY <1>1 DEF PoolTyped
<1> QED BY <1>1, <1>3, <1>4, <1>5, <1>6, <1>7

LEMMA MailboxDomain ==
    ASSUME PoolTyped, NEW a \in Actors
    PROVE DOMAIN mailbox[a] = 1..Len(mailbox[a]) /\ Len(mailbox[a]) \in Nat
BY LenProperties DEF PoolTyped

(***************************************************************************)
(* The types.                                                              *)
(***************************************************************************)
LEMMA PoolTypedInit == Init => PoolTyped
<1> SUFFICES ASSUME Init PROVE PoolTyped
  OBVIOUS
<1>1. <<>> \in Seq(Requests)
  BY EmptySeq
<1>2. 0 \in 0..CallLimit /\ 0 \in 0..RequestTimeout
  BY PoolAssumption
<1> QED BY <1>1, <1>2, PoolAssumption DEF Init, PoolTyped, Stages

LEMMA PoolTypedNext == PoolTyped /\ [Next]_vars => PoolTyped'
<1> SUFFICES ASSUME PoolTyped, [Next]_vars PROVE PoolTyped'
  OBVIOUS
<1> USE PoolAssumption DEF Stages
<1>1. ASSUME NEW r \in Requests, Refuse(r) PROVE PoolTyped'
  BY <1>1 DEF PoolTyped, Refuse, actorVars
<1>2. ASSUME NEW r \in Requests, Route(r) PROVE PoolTyped'
  BY <1>2 DEF PoolTyped, Route, actorVars
<1>3. ASSUME NEW r \in Requests, Enqueue(r) PROVE PoolTyped'
  <2>1. mailbox' \in [Actors -> Seq(Requests)]
    BY <1>3, Enqueued
  <2> QED BY <1>3, <2>1 DEF PoolTyped, Enqueue, clientVars
<1>4. ASSUME NEW r \in Requests, TimesOut(r) PROVE PoolTyped'
  BY <1>4 DEF PoolTyped, TimesOut, actorVars
<1>5. ASSUME NEW a \in Actors, Begin(a) PROVE PoolTyped'
  <2>1. mailbox' \in [Actors -> Seq(Requests)] /\ Head(mailbox[a]) \in Requests
    BY <1>5, Begun
  <2> QED BY <1>5, <2>1 DEF PoolTyped, Begin, clientVars
<1>6. ASSUME NEW a \in Actors, NextCall(a) PROVE PoolTyped'
  <2>1. PICK r \in Requests : r = current[a]
    BY <1>6 DEF PoolTyped, NextCall
  <2>2. left[r] \in Nat /\ left[r] > 1 /\ left' = [left EXCEPT ![r] = left[r] - 1]
    BY <1>6, <2>1 DEF PoolTyped, NextCall
  <2>3. left' \in [Requests -> Nat]
    BY <2>2 DEF PoolTyped
  <2> QED BY <1>6, <2>3 DEF PoolTyped, NextCall, clientVars
<1>7. ASSUME NEW a \in Actors, Complete(a) PROVE PoolTyped'
  <2>1. PICK r \in Requests : r = current[a]
    BY <1>7 DEF PoolTyped, Complete
  <2>2. client' \in [Requests -> Stages]
    BY <1>7, <2>1 DEF PoolTyped, Complete
  <2>3. left' \in [Requests -> Nat] /\ age' \in [Requests -> 0..RequestTimeout]
    BY <1>7, <2>1 DEF PoolTyped, Complete
  <2> QED BY <1>7, <2>2, <2>3 DEF PoolTyped, Complete
<1>8. ASSUME Tick PROVE PoolTyped'
  <2>1. ASSUME NEW a \in Actors
        PROVE Later(waited[a], CallLimit) \in 0..CallLimit
    BY DEF PoolTyped, Later
  <2>2. waited' \in [Actors -> 0..CallLimit]
    BY <1>8, <2>1 DEF PoolTyped, Tick
  <2>3. ASSUME NEW r \in Requests, process = "running", client[r] = "waiting"
        PROVE age[r] + 1 \in 0..RequestTimeout
    BY <1>8, <2>3 DEF PoolTyped, Tick
  <2>4. age' \in [Requests -> 0..RequestTimeout]
    BY <1>8, <2>3 DEF PoolTyped, Tick
  <2> QED BY <1>8, <2>2, <2>4 DEF PoolTyped, Tick
<1>9. ASSUME Terminate PROVE PoolTyped'
  BY <1>9 DEF PoolTyped, Terminate, clientVars, actorVars
<1>10. ASSUME Exit PROVE PoolTyped'
  <2>1. mailbox' \in [Actors -> Seq(Requests)]
    BY <1>10, EmptySeq DEF Exit
  <2>2. client' \in [Requests -> Stages]
    BY <1>10 DEF Exit, PoolTyped
  <2> QED BY <1>10, <2>1, <2>2 DEF PoolTyped, Exit
<1>11. ASSUME UNCHANGED vars PROVE PoolTyped'
  BY <1>11 DEF PoolTyped, vars, clientVars, actorVars
<1> QED BY <1>1, <1>2, <1>3, <1>4, <1>5, <1>6, <1>7, <1>8, <1>9, <1>10, <1>11,
           PoolCases

(***************************************************************************)
(* The places: every step moves at most one message, and the queue behind  *)
(* the one an actor begins with by one.                                    *)
(***************************************************************************)
LEMMA PlacesKept ==
    ASSUME OnePlace,
           \A r \in Requests, a \in Actors, i \in Int :
              At(r, a, i)' => /\ At(r, a, i)
                              /\ client'[r] \notin {"unsent", "refused"}
                              /\ left'[r] > 0
    PROVE OnePlace' /\ HandedOver'
BY DEF OnePlace, HandedOver

LEMMA PlacesInit == Init => OnePlace /\ HandedOver
<1> SUFFICES ASSUME Init, NEW r \in Requests, NEW a \in Actors, NEW i \in Int
             PROVE ~At(r, a, i)
  BY DEF OnePlace, HandedOver
<1>1. chosen[r] # a /\ current[a] # r
  BY ActorsAssumption DEF Init
<1>2. DOMAIN mailbox[a] = {}
  <2>1. mailbox[a] = <<>>
    BY DEF Init
  <2> QED BY <2>1
<1> QED BY <1>1, <1>2 DEF At

(* Where a message can be after the three steps that move one. *)
LEMMA EnqueueMoves ==
    ASSUME PoolTyped, OnePlace, NEW r \in Requests, Enqueue(r),
           NEW q \in Requests, NEW b \in Actors, NEW i \in Int, At(q, b, i)'
    PROVE \/ q = r /\ b = chosen[r] /\ i = Len(mailbox[b]) + 1
          \/ q # r /\ At(q, b, i)
<1>1. PICK a \in Actors : a = chosen[r]
  BY Enqueued
<1>2. PICK last \in Nat : last = Len(mailbox[a]) + 1
  BY MailboxDomain
<1>3. At(r, a, -1)
  BY <1>1 DEF At
<1>4. DOMAIN mailbox'[a] = 1..last /\ DOMAIN mailbox[a] = 1..(last - 1)
  <2>1. mailbox'[a] \in Seq(Requests) /\ Len(mailbox'[a]) = last
    BY <1>1, <1>2, Enqueued
  <2> QED BY <1>2, <2>1, LenProperties, MailboxDomain
<1>5. CASE i = -1 /\ chosen'[q] = b
  <2>1. q # r
    BY <1>5, ActorsAssumption DEF Enqueue, PoolTyped
  <2> QED BY <1>5, <2>1 DEF Enqueue, PoolTyped, At
<1>6. CASE i = 0 /\ current'[b] = q
  <2>1. At(q, b, i)
    BY <1>6 DEF Enqueue, At
  <2> QED BY <1>3, <1>6, <2>1 DEF OnePlace
<1>7. CASE i \in DOMAIN mailbox'[b] /\ mailbox'[b][i] = q
  <2>1. CASE b = a /\ i = last
    BY <1>1, <1>2, <1>7, <2>1, Enqueued
  <2>2. CASE b = a /\ i # last
    <3>1. i \in DOMAIN mailbox[a] /\ mailbox[a][i] = q
      BY <1>1, <1>2, <1>4, <1>7, <2>2, Enqueued
    <3>2. At(q, b, i) /\ i # -1
      BY <1>4, <2>2, <3>1 DEF At
    <3> QED BY <1>3, <3>2 DEF OnePlace
  <2>3. CASE b # a
    <3>1. mailbox'[b] = mailbox[b]
      BY <1>1, <2>3, Enqueued
    <3>2. At(q, b, i)
      BY <1>7, <3>1 DEF At
    <3> QED BY <1>3, <2>3, <3>2 DEF OnePlace
  <2> QED BY <2>1, <2>2, <2>3
<1> QED BY <1>5, <1>6, <1>7 DEF At

LEMMA BeginMoves ==
    ASSUME PoolTyped, NEW a \in Actors, Begin(a),
           NEW q \in Requests, NEW b \in Actors, NEW i \in Int, At(q, b, i)'
    PROVE /\ i >= -1
          /\ At(q, b, IF b = a /\ i >= 0 THEN i + 1 ELSE i)
<1>1. PICK r \in Requests : r = Head(mailbox[a])
  BY Begun
<1>2. current' = [current EXCEPT ![a] = r] /\ current[a] = NoActor
  BY <1>1 DEF Begin
<1>3. PICK n \in Nat : n = Len(mailbox[a])
  BY MailboxDomain
<1>4. DOMAIN mailbox[a] = 1..n /\ 1 \in DOMAIN mailbox[a]
  BY <1>3, MailboxDomain, Begun
<1>5. DOMAIN mailbox'[a] = 1..(n - 1)
  <2>1. mailbox'[a] \in Seq(Requests) /\ Len(mailbox'[a]) = n - 1
    BY <1>3, Begun
  <2> QED BY <2>1, LenProperties
<1>6. CASE i = -1 /\ chosen'[q] = b
  BY <1>6 DEF Begin, At
<1>7. CASE i = 0 /\ current'[b] = q
  <2>1. CASE b = a
    <3>1. q = r
      BY <1>2, <1>7, <2>1 DEF PoolTyped
    <3> QED BY <1>1, <1>7, <2>1, <3>1, Begun DEF At
  <2>2. CASE b # a
    BY <1>2, <1>7, <2>2 DEF PoolTyped, At
  <2> QED BY <2>1, <2>2
<1>8. CASE i \in DOMAIN mailbox'[b] /\ mailbox'[b][i] = q
  <2>1. CASE b = a
    <3>1. i \in 1..(n - 1) /\ mailbox[a][i + 1] = q
      BY <1>3, <1>5, <1>8, <2>1, Begun
    <3> QED BY <1>4, <2>1, <3>1 DEF At
  <2>2. CASE b # a
    <3>1. mailbox'[b] = mailbox[b]
      BY <2>2, Begun
    <3>2. i \in 1..Len(mailbox[b])
      BY <1>8, <3>1, MailboxDomain
    <3> QED BY <1>8, <2>2, <3>1, <3>2 DEF At
  <2> QED BY <2>1, <2>2
<1> QED BY <1>6, <1>7, <1>8 DEF At

LEMMA CompleteMoves ==
    ASSUME PoolTyped, OnePlace, NEW a \in Actors, Complete(a),
           NEW q \in Requests, NEW b \in Actors, NEW i \in Int, At(q, b, i)'
    PROVE At(q, b, i) /\ q # current[a]
<1>1. PICK r \in Requests : r = current[a]
  BY DEF PoolTyped, Complete
<1>2. At(r, a, 0)
  BY <1>1 DEF At
<1>3. At(q, b, i) /\ ~(b = a /\ i = 0)
  <2>1. CASE i = 0 /\ current'[b] = q
    BY <2>1, ActorsAssumption DEF Complete, At, PoolTyped
  <2>2. CASE i = -1 /\ chosen'[q] = b
    BY <2>2 DEF Complete, At
  <2>3. CASE i \in DOMAIN mailbox'[b] /\ mailbox'[b][i] = q
    <3>1. i \in DOMAIN mailbox[b] /\ mailbox[b][i] = q
      BY <2>3 DEF Complete
    <3>2. DOMAIN mailbox[b] = 1..Len(mailbox[b])
      BY MailboxDomain
    <3> QED BY <3>1, <3>2 DEF At
  <2> QED BY <2>1, <2>2, <2>3 DEF At
<1> QED BY <1>1, <1>2, <1>3 DEF OnePlace

LEMMA PlacesNext ==
    PoolTyped /\ OnePlace /\ HandedOver /\ [Next]_vars => OnePlace' /\ HandedOver'
<1> SUFFICES ASSUME PoolTyped, OnePlace, HandedOver, [Next]_vars
             PROVE OnePlace' /\ HandedOver'
  OBVIOUS
<1>1. ASSUME NEW r \in Requests, Refuse(r) PROVE OnePlace' /\ HandedOver'
  <2>1. ASSUME NEW q \in Requests, NEW b \in Actors, NEW i \in Int, At(q, b, i)'
        PROVE /\ At(q, b, i)
              /\ client'[q] \notin {"unsent", "refused"}
              /\ left'[q] > 0
    <3>1. At(q, b, i)
      BY <1>1, <2>1 DEF At, Refuse, actorVars
    <3>2. left[q] > 0 /\ client[q] \notin {"unsent", "refused"}
      BY <3>1 DEF HandedOver
    <3> QED BY <1>1, <3>1, <3>2 DEF Refuse, PoolTyped
  <2> QED BY <2>1, PlacesKept
<1>2. ASSUME NEW r \in Requests, Route(r) PROVE OnePlace' /\ HandedOver'
  <2>1. PICK a \in Actors : chosen' = [chosen EXCEPT ![r] = a]
    BY <1>2 DEF Route
  <2>2. ASSUME NEW b \in Actors, NEW i \in Int PROVE ~At(r, b, i)
    BY <1>2 DEF Route, HandedOver
  <2>3. ASSUME NEW b \in Actors, NEW i \in Int, At(r, b, i)'
        PROVE b = a /\ i = -1
    BY <1>2, <2>1, <2>2, <2>3 DEF At, Route, actorVars, PoolTyped
  <2>4. ASSUME NEW q \in Requests \ {r}, NEW b \in Actors, NEW i \in Int, At(q, b, i)'
        PROVE At(q, b, i)
    BY <1>2, <2>1, <2>4 DEF At, Route, actorVars, PoolTyped
  <2>5. OnePlace'
    BY <2>3, <2>4 DEF OnePlace
  <2>6. client'[r] = "waiting" /\ left'[r] > 0
    BY <1>2 DEF Route, PoolTyped
  <2>7. ASSUME NEW q \in Requests \ {r}
        PROVE client'[q] = client[q] /\ left'[q] = left[q]
    BY <1>2 DEF Route, PoolTyped
  <2>8. HandedOver'
    BY <2>4, <2>6, <2>7 DEF HandedOver
  <2> QED BY <2>5, <2>8
<1>3. ASSUME NEW r \in Requests, Enqueue(r) PROVE OnePlace' /\ HandedOver'
  <2>1. PICK a \in Actors, last \in Nat : a = chosen[r] /\ last = Len(mailbox[a]) + 1
    BY <1>3, Enqueued, MailboxDomain
  <2>2. ASSUME NEW q \in Requests, NEW b \in Actors, NEW i \in Int, At(q, b, i)'
        PROVE \/ q = r /\ b = a /\ i = last
              \/ q # r /\ At(q, b, i)
    BY <1>3, <2>1, <2>2, EnqueueMoves
  <2>3. OnePlace'
    BY <2>2 DEF OnePlace
  <2>4. At(r, a, -1) /\ client' = client /\ left' = left
    BY <1>3, <2>1 DEF At, Enqueue, clientVars
  <2>5. ASSUME NEW q \in Requests, NEW b \in Actors, NEW i \in Int, At(q, b, i)'
        PROVE client'[q] \notin {"unsent", "refused"} /\ left'[q] > 0
    BY <2>2, <2>4, <2>5 DEF HandedOver
  <2>6. HandedOver'
    BY <2>5 DEF HandedOver
  <2> QED BY <2>3, <2>6
<1>4. ASSUME NEW r \in Requests, TimesOut(r) PROVE OnePlace' /\ HandedOver'
  <2>1. ASSUME NEW q \in Requests, NEW b \in Actors, NEW i \in Int, At(q, b, i)'
        PROVE /\ At(q, b, i)
              /\ client'[q] \notin {"unsent", "refused"}
              /\ left'[q] > 0
    <3>1. At(q, b, i)
      BY <1>4, <2>1 DEF At, TimesOut, actorVars
    <3>2. left[q] > 0 /\ client[q] \notin {"unsent", "refused"}
      BY <3>1 DEF HandedOver
    <3> QED BY <1>4, <3>1, <3>2 DEF TimesOut, PoolTyped
  <2> QED BY <2>1, PlacesKept
<1>5. ASSUME NEW a \in Actors, Begin(a) PROVE OnePlace' /\ HandedOver'
  <2> DEFINE Prior(b, i) == IF b = a /\ i >= 0 THEN i + 1 ELSE i
  <2>1. ASSUME NEW q \in Requests, NEW b \in Actors, NEW i \in Int, At(q, b, i)'
        PROVE i >= -1 /\ At(q, b, Prior(b, i))
    BY <1>5, <2>1, BeginMoves
  <2>2. ASSUME NEW b \in Actors, NEW i \in Int, NEW j \in Int,
               i >= -1, j >= -1, Prior(b, i) = Prior(b, j)
        PROVE i = j
    BY <2>2
  <2>3. ASSUME NEW q \in Requests, NEW b \in Actors, NEW c \in Actors,
               NEW i \in Int, NEW j \in Int, At(q, b, i)', At(q, c, j)'
        PROVE b = c /\ i = j
    <3>1. At(q, b, Prior(b, i)) /\ At(q, c, Prior(c, j))
      BY <2>1, <2>3
    <3>2. Prior(b, i) \in Int /\ Prior(c, j) \in Int
      OBVIOUS
    <3>3. b = c /\ Prior(b, i) = Prior(c, j)
      BY <3>1, <3>2 DEF OnePlace
    <3> HIDE DEF Prior
    <3> QED BY <2>1, <2>2, <2>3, <3>3
  <2>4. OnePlace'
    BY <2>3 DEF OnePlace
  <2>5. ASSUME NEW q \in Requests, NEW b \in Actors, NEW i \in Int, At(q, b, i)'
        PROVE client[q] \notin {"unsent", "refused"} /\ left[q] > 0
    <3>1. At(q, b, Prior(b, i)) /\ Prior(b, i) \in Int
      BY <2>1, <2>5
    <3> HIDE DEF Prior
    <3> QED BY <3>1 DEF HandedOver
  <2>6. client' = client /\ left' = left
    BY <1>5 DEF Begin, clientVars
  <2>7. HandedOver'
    BY <2>5, <2>6 DEF HandedOver
  <2> QED BY <2>4, <2>7
<1>6. ASSUME NEW a \in Actors, NextCall(a) PROVE OnePlace' /\ HandedOver'
  <2>1. PICK r \in Requests : r = current[a]
    BY <1>6 DEF PoolTyped, NextCall
  <2>2. left' = [left EXCEPT ![r] = left[r] - 1] /\ left[r] \in Nat /\ left[r] > 1
    BY <1>6, <2>1 DEF NextCall, PoolTyped
  <2>3. ASSUME NEW q \in Requests, NEW b \in Actors, NEW i \in Int, At(q, b, i)'
        PROVE /\ At(q, b, i)
              /\ client'[q] \notin {"unsent", "refused"}
              /\ left'[q] > 0
    <3>1. At(q, b, i)
      BY <1>6, <2>3 DEF At, NextCall
    <3>2. left[q] > 0 /\ client[q] \notin {"unsent", "refused"}
      BY <3>1 DEF HandedOver
    <3> QED BY <1>6, <2>2, <3>1, <3>2 DEF NextCall, PoolTyped, clientVars
  <2> QED BY <2>3, PlacesKept
<1>7. ASSUME NEW a \in Actors, Complete(a) PROVE OnePlace' /\ HandedOver'
  <2>1. PICK r \in Requests : r = current[a]
    BY <1>7 DEF PoolTyped, Complete
  <2>2. ASSUME NEW q \in Requests, NEW b \in Actors, NEW i \in Int, At(q, b, i)'
        PROVE At(q, b, i) /\ q # r
    BY <1>7, <2>1, <2>2, CompleteMoves
  <2>3. ASSUME NEW q \in Requests, q # r
        PROVE client'[q] = client[q] /\ left'[q] = left[q]
    BY <1>7, <2>1, <2>3 DEF Complete, PoolTyped
  <2>4. ASSUME NEW q \in Requests, NEW b \in Actors, NEW i \in Int, At(q, b, i)'
        PROVE client'[q] \notin {"unsent", "refused"} /\ left'[q] > 0
    BY <2>2, <2>3, <2>4 DEF HandedOver
  <2> QED BY <2>2, <2>4, PlacesKept
<1>8. ASSUME UNCHANGED <<left, client, chosen, mailbox, current>>
      PROVE OnePlace' /\ HandedOver'
  <2>1. ASSUME NEW q \in Requests, NEW b \in Actors, NEW i \in Int, At(q, b, i)'
        PROVE /\ At(q, b, i)
              /\ client'[q] \notin {"unsent", "refused"}
              /\ left'[q] > 0
    <3>1. At(q, b, i)
      BY <1>8, <2>1 DEF At
    <3> QED BY <1>8, <3>1 DEF HandedOver
  <2> QED BY <2>1, PlacesKept
<1>9. ASSUME Exit PROVE OnePlace' /\ HandedOver'
  <2>1. ASSUME NEW q \in Requests, NEW b \in Actors, NEW i \in Int, At(q, b, i)'
        PROVE FALSE
    <3>1. chosen'[q] = NoActor /\ current'[b] = NoActor /\ mailbox'[b] = <<>>
      BY <1>9 DEF Exit
    <3>2. DOMAIN mailbox'[b] = {}
      BY <3>1
    <3> QED BY <2>1, <3>1, <3>2, ActorsAssumption DEF At
  <2> QED BY <2>1, PlacesKept
<1>10. ASSUME Tick PROVE OnePlace' /\ HandedOver'
  BY <1>8, <1>10 DEF Tick
<1>11. ASSUME Terminate PROVE OnePlace' /\ HandedOver'
  BY <1>8, <1>11 DEF Terminate, clientVars, actorVars
<1>12. ASSUME UNCHANGED vars PROVE OnePlace' /\ HandedOver'
  BY <1>8, <1>12 DEF vars, clientVars, actorVars
<1> QED BY <1>1, <1>2, <1>3, <1>4, <1>5, <1>6, <1>7, <1>9, <1>10, <1>11, <1>12,
           PoolCases

LEMMA PoolInvHolds == Spec => []PoolInv
<1>1. Init => PoolInv
  BY PoolTypedInit, PlacesInit DEF PoolInv
<1>2. PoolInv /\ [Next]_vars => PoolInv'
  <2> SUFFICES ASSUME PoolInv, [Next]_vars PROVE PoolInv'
    OBVIOUS
  <2>1. PoolTyped' /\ OnePlace' /\ HandedOver'
    BY PoolTypedNext, PlacesNext DEF PoolInv
  <2> QED BY <2>1 DEF PoolInv
<1> QED BY <1>1, <1>2, PTL DEF Spec

LEMMA AtMostOnePlace ==
    ASSUME OnePlace, NEW r \in Requests
    PROVE Cardinality(Places(r)) <= 1
<1>1. ASSUME NEW p \in Places(r), NEW q \in Places(r) PROVE p = q
  <2>1. /\ p = <<p[1], p[2]>> /\ p[1] \in Actors /\ p[2] \in Int
        /\ q = <<q[1], q[2]>> /\ q[1] \in Actors /\ q[2] \in Int
    BY <1>1 DEF Places
  <2>2. At(r, p[1], p[2]) /\ At(r, q[1], q[2])
    BY <1>1 DEF Places
  <2>3. p[1] = q[1] /\ p[2] = q[2]
    BY <2>1, <2>2 DEF OnePlace
  <2> QED BY <2>1, <2>3
<1>2. CASE Places(r) = {}
  BY <1>2, FS_EmptySet
<1>3. CASE Places(r) # {}
  <2>1. PICK p \in Places(r) : TRUE
    BY <1>3
  <2>2. Places(r) = {p}
    BY <1>1, <2>1
  <2> QED BY <2>2, FS_Singleton
<1> QED BY <1>2, <1>3

(* The pool keeps its types, and a message the router has picked an actor   *)
(* for, that waits or is served is in that place only.                      *)
(* ApplicationMain.scala:56-74.                                             *)
THEOREM PoolTypeCorrect == Spec => []PoolTypeOK
<1>1. PoolInv => PoolTypeOK
  BY AtMostOnePlace DEF PoolInv, PoolTyped, Stages, PoolTypeOK
<1> QED BY <1>1, PoolInvHolds, PTL

-----------------------------------------------------------------------------
(***************************************************************************)
(* The refinement.  A message the pool was handed is served by the actor   *)
(* whose current one it is.                                                *)
(***************************************************************************)
Served(r) == \E a \in Actors : current[a] = r

LEMMA StageOf ==
    ASSUME PoolInv, NEW r \in Requests
    PROVE /\ client[r] \in {"unsent", "refused"} => Stage[r] = "unsent"
          /\ client[r] \notin {"unsent", "refused"} =>
                /\ Served(r) => Stage[r] = "serving"
                /\ ~Served(r) /\ left[r] = 0 => Stage[r] = "done"
                /\ ~Served(r) /\ left[r] # 0 =>
                      Stage[r] = IF process = "exited" THEN "lost" ELSE "queued"
BY DEF Stage, Served

LEMMA ServedIsHandedOver ==
    ASSUME PoolInv, NEW r \in Requests, Served(r)
    PROVE client[r] \notin {"unsent", "refused"} /\ left[r] > 0
<1>1. PICK a \in Actors : current[a] = r
  BY DEF Served
<1>2. At(r, a, 0)
  BY <1>1 DEF At
<1> QED BY <1>2 DEF PoolInv, HandedOver

(* What does not touch the stages. *)
LEMMA StageStays ==
    ASSUME UNCHANGED <<left, current, process>>,
           \A r \in Requests : client'[r] \in {"unsent", "refused"} <=>
                               client[r] \in {"unsent", "refused"}
    PROVE UNCHANGED Stage
<1>1. ASSUME NEW r \in Requests PROVE Stage'[r] = Stage[r]
  BY DEF Stage
<1>2. Stage = [r \in Requests |-> Stage[r]] /\ Stage' = [r \in Requests |-> Stage'[r]]
  BY DEF Stage
<1> QED BY <1>1, <1>2

(* One message changes its stage. *)
LEMMA StageMoves ==
    ASSUME NEW r \in Requests, NEW to, Stage'[r] = to,
           \A q \in Requests \ {r} : Stage'[q] = Stage[q]
    PROVE Stage' = [Stage EXCEPT ![r] = to]
<1>1. Stage' = [q \in Requests |-> Stage'[q]]
  BY DEF Stage
<1>2. [Stage EXCEPT ![r] = to] = [q \in Requests |-> IF q = r THEN to ELSE Stage[q]]
  BY DEF Stage
<1> QED BY <1>1, <1>2

(* An idle actor leaves room for one more message in service. *)
LEMMA IdleLeavesRoom ==
    ASSUME PoolInv, NEW a \in Actors, current[a] = NoActor
    PROVE Pool!HasRoom
<1> DEFINE Busy == {b \in Actors : current[b] # NoActor}
           InService == {r \in Requests : Stage[r] = "serving"}
<1>1. IsFiniteSet(Busy) /\ Cardinality(Busy) < Cardinality(Actors)
  <2>1. /\ IsFiniteSet(Actors \ {a})
        /\ Cardinality(Actors \ {a}) = Cardinality(Actors) - 1
    BY ActorsAssumption, FS_RemoveElement
  <2>2. Busy \in SUBSET (Actors \ {a})
    OBVIOUS
  <2>3. IsFiniteSet(Busy) /\ Cardinality(Busy) <= Cardinality(Actors \ {a})
    BY <2>1, <2>2, FS_Subset
  <2>4. Cardinality(Busy) \in Nat /\ Cardinality(Actors) \in Nat
    BY <2>3, ActorsAssumption, FS_CardinalityType
  <2> HIDE DEF Busy
  <2> QED BY <2>1, <2>3, <2>4
<1>2. InService = {current[b] : b \in Busy}
  <2>1. ASSUME NEW r \in InService PROVE \E b \in Busy : r = current[b]
    <3>1. Served(r)
      BY StageOf
    <3> QED BY <3>1, ActorsAssumption DEF Served
  <2>2. ASSUME NEW b \in Busy PROVE current[b] \in InService
    <3>1. current[b] \in Requests
      BY DEF PoolInv, PoolTyped
    <3>2. Served(current[b])
      BY DEF Served
    <3> QED BY <3>1, <3>2, StageOf, ServedIsHandedOver
  <2> QED BY <2>1, <2>2
<1>3. [b \in Busy |-> current[b]] \in Surjection(Busy, InService)
  <2> HIDE DEF Busy, InService
  <2> QED BY <1>2 DEF Surjection
<1>4. IsFiniteSet(InService) /\ Cardinality(InService) <= Cardinality(Busy)
  <2> HIDE DEF Busy, InService
  <2> QED BY <1>1, <1>3, FS_Surjection
<1>5. Cardinality(InService) < Cardinality(Actors)
  <2>1. /\ Cardinality(InService) \in Nat
        /\ Cardinality(Busy) \in Nat
        /\ Cardinality(Actors) \in Nat
    BY <1>1, <1>4, ActorsAssumption, FS_CardinalityType
  <2> HIDE DEF Busy, InService
  <2> QED BY <1>1, <1>4, <2>1
<1>6. Pool!In("serving") = InService
  BY DEF Pool!In
<1>7. \A S : Pool!Cardinality(S) = Cardinality(S)
  BY DEF Pool!Cardinality, Cardinality
<1> HIDE DEF InService
<1> QED BY <1>5, <1>6, <1>7 DEF Pool!HasRoom

LEMMA PoolInit == Init => Pool!Init
<1> SUFFICES ASSUME Init PROVE Pool!Init
  OBVIOUS
<1> QED BY DEF Init, Stage, Pool!Init

LEMMA PoolStep ==
    ASSUME PoolInv, PoolInv', [Next]_vars
    PROVE Pool!Next \/ UNCHANGED Stage
<1> USE DEF PoolInv
<1>1. ASSUME NEW r \in Requests, Refuse(r) PROVE UNCHANGED Stage
  <2>1. ASSUME NEW q \in Requests
        PROVE client'[q] \in {"unsent", "refused"} <=> client[q] \in {"unsent", "refused"}
    BY <1>1 DEF Refuse, PoolTyped
  <2> QED BY <1>1, <2>1, StageStays DEF Refuse, actorVars
<1>2. ASSUME NEW r \in Requests, Route(r) PROVE Pool!Next
  <2>1. Stage[r] = "unsent"
    BY <1>2, StageOf DEF Route
  <2>2. ~Served(r)
    BY <1>2, ServedIsHandedOver DEF Route
  <2>3. Stage'[r] = "queued"
    BY <1>2, <2>2 DEF Route, actorVars, PoolTyped, Stage, Served
  <2>4. ASSUME NEW q \in Requests \ {r} PROVE Stage'[q] = Stage[q]
    BY <1>2 DEF Route, actorVars, PoolTyped, Stage
  <2>5. Stage' = [Stage EXCEPT ![r] = "queued"]
    BY <2>3, <2>4, StageMoves
  <2>6. Pool!Send(r)
    BY <2>1, <2>5 DEF Pool!Send, Pool!Move
  <2> QED BY <2>6 DEF Pool!Next
<1>3. ASSUME NEW r \in Requests, Enqueue(r) PROVE UNCHANGED Stage
  BY <1>3, StageStays DEF Enqueue, clientVars
<1>4. ASSUME NEW r \in Requests, TimesOut(r) PROVE UNCHANGED Stage
  <2>1. ASSUME NEW q \in Requests
        PROVE client'[q] \in {"unsent", "refused"} <=> client[q] \in {"unsent", "refused"}
    BY <1>4 DEF TimesOut, PoolTyped
  <2> QED BY <1>4, <2>1, StageStays DEF TimesOut, actorVars
<1>5. ASSUME NEW a \in Actors, Begin(a) PROVE Pool!Next
  <2>1. PICK r \in Requests : r = Head(mailbox[a])
    BY <1>5, Begun
  <2>2. At(r, a, 1)
    BY <1>5, <2>1, Begun DEF At
  <2>3. client[r] \notin {"unsent", "refused"} /\ left[r] > 0
    BY <2>2 DEF HandedOver
  <2>4. ~Served(r)
    <3>1. ASSUME NEW b \in Actors, current[b] = r PROVE FALSE
      <4>1. At(r, b, 0)
        BY <3>1 DEF At
      <4> QED BY <2>2, <4>1 DEF OnePlace
    <3> QED BY <3>1 DEF Served
  <2>5. Stage[r] = "queued"
    <3>1. process # "exited" /\ left[r] # 0
      BY <1>5, <2>3 DEF Begin
    <3> QED BY <2>3, <2>4, <3>1, StageOf
  <2>6. current' = [current EXCEPT ![a] = r] /\ current[a] = NoActor
    BY <1>5, <2>1 DEF Begin
  <2>7. UNCHANGED <<left, client, process>>
    BY <1>5 DEF Begin, clientVars
  <2>8. Stage'[r] = "serving"
    <3>1. current'[a] = r
      BY <2>6 DEF PoolTyped
    <3> QED BY <2>3, <2>7, <3>1 DEF Stage
  <2>9. ASSUME NEW q \in Requests \ {r} PROVE Stage'[q] = Stage[q]
    <3>1. ASSUME NEW b \in Actors PROVE current'[b] = q <=> current[b] = q
      BY <2>6, ActorsAssumption DEF PoolTyped
    <3> QED BY <2>7, <3>1 DEF Stage
  <2>10. Stage' = [Stage EXCEPT ![r] = "serving"]
    BY <2>8, <2>9, StageMoves
  <2>11. Pool!Take(r)
    BY <2>5, <2>6, <2>10, IdleLeavesRoom DEF Pool!Take, Pool!Move
  <2> QED BY <2>11 DEF Pool!Next
<1>6. ASSUME NEW a \in Actors, NextCall(a) PROVE UNCHANGED Stage
  <2>1. PICK r \in Requests : r = current[a]
    BY <1>6 DEF PoolTyped, NextCall
  <2>2. UNCHANGED <<current, client, process>>
    BY <1>6 DEF NextCall, clientVars
  <2>3. ASSUME NEW q \in Requests PROVE Stage'[q] = Stage[q]
    <3>1. CASE q = r
      BY <2>1, <2>2, <3>1 DEF Stage
    <3>2. CASE q # r
      <4>1. left'[q] = left[q]
        BY <1>6, <2>1, <3>2 DEF NextCall, PoolTyped
      <4> QED BY <2>2, <4>1 DEF Stage
    <3> QED BY <3>1, <3>2
  <2>4. Stage = [q \in Requests |-> Stage[q]] /\ Stage' = [q \in Requests |-> Stage'[q]]
    BY DEF Stage
  <2> QED BY <2>3, <2>4
<1>7. ASSUME NEW a \in Actors, Complete(a) PROVE Pool!Next
  <2>1. PICK r \in Requests : r = current[a]
    BY <1>7 DEF PoolTyped, Complete
  <2>2. Served(r)
    BY <2>1 DEF Served
  <2>3. client[r] \notin {"unsent", "refused"} /\ Stage[r] = "serving"
    BY <2>2, ServedIsHandedOver, StageOf
  <2>4. current' = [current EXCEPT ![a] = NoActor] /\ left' = [left EXCEPT ![r] = 0]
    BY <1>7, <2>1 DEF Complete
  <2>5. Stage'[r] = "done"
    <3>1. ASSUME NEW b \in Actors PROVE current'[b] # r
      <4>1. At(r, a, 0)
        BY <2>1 DEF At
      <4>2. CASE b = a
        BY <2>4, <4>2, ActorsAssumption DEF PoolTyped
      <4>3. CASE b # a
        <5>1. current[b] # r
          <6>1. current[b] = r => At(r, b, 0)
            BY DEF At
          <6> QED BY <4>1, <4>3, <6>1 DEF OnePlace
        <5> QED BY <2>4, <4>3, <5>1 DEF PoolTyped
      <4> QED BY <4>2, <4>3
    <3>2. left'[r] = 0
      BY <2>4 DEF PoolTyped
    <3>3. client'[r] \notin {"unsent", "refused"}
      BY <1>7, <2>1, <2>3 DEF Complete, PoolTyped
    <3> QED BY <3>1, <3>2, <3>3 DEF Stage
  <2>6. ASSUME NEW q \in Requests \ {r} PROVE Stage'[q] = Stage[q]
    <3>1. ASSUME NEW b \in Actors PROVE current'[b] = q <=> current[b] = q
      BY <2>1, <2>4, ActorsAssumption DEF PoolTyped
    <3>2. client'[q] = client[q] /\ left'[q] = left[q] /\ process' = process
      BY <1>7, <2>1 DEF Complete, PoolTyped
    <3> QED BY <3>1, <3>2 DEF Stage
  <2>7. Stage' = [Stage EXCEPT ![r] = "done"]
    BY <2>5, <2>6, StageMoves
  <2>8. Pool!Finish(r)
    BY <2>3, <2>7 DEF Pool!Finish, Pool!Move
  <2> QED BY <2>8 DEF Pool!Next
<1>8. ASSUME Tick PROVE UNCHANGED Stage
  BY <1>8, StageStays DEF Tick
<1>9. ASSUME Terminate PROVE UNCHANGED Stage
  <2>1. ASSUME NEW r \in Requests PROVE Stage'[r] = Stage[r]
    BY <1>9 DEF Terminate, clientVars, actorVars, Stage
  <2>2. Stage = [q \in Requests |-> Stage[q]] /\ Stage' = [q \in Requests |-> Stage'[q]]
    BY DEF Stage
  <2> QED BY <2>1, <2>2
<1>10. ASSUME Exit PROVE Pool!Next
  <2>1. ASSUME NEW r \in Requests
        PROVE Stage'[r] = IF Stage[r] \in {"queued", "serving"} THEN "lost" ELSE Stage[r]
    <3>1. ~Served(r)'
      BY <1>10, ActorsAssumption DEF Exit, Served
    <3>2. client'[r] \in {"unsent", "refused"} <=> client[r] \in {"unsent", "refused"}
      BY <1>10 DEF Exit, PoolTyped
    <3>3. left'[r] = left[r] /\ process' = "exited" /\ process # "exited"
      BY <1>10 DEF Exit
    <3>4. Stage'[r] = IF client[r] \in {"unsent", "refused"} THEN "unsent"
                      ELSE IF left[r] = 0 THEN "done" ELSE "lost"
      BY <3>1, <3>2, <3>3 DEF Stage, Served
    <3>5. CASE client[r] \in {"unsent", "refused"}
      BY <3>4, <3>5, StageOf
    <3>6. CASE client[r] \notin {"unsent", "refused"} /\ Served(r)
      BY <3>4, <3>6, StageOf, ServedIsHandedOver
    <3>7. CASE client[r] \notin {"unsent", "refused"} /\ ~Served(r)
      BY <3>3, <3>4, <3>7, StageOf
    <3> QED BY <3>5, <3>6, <3>7
  <2>2. Stage' = [r \in Requests |-> Stage'[r]]
    BY DEF Stage
  <2>3. Pool!Stop
    BY <2>1, <2>2 DEF Pool!Stop
  <2> QED BY <2>3 DEF Pool!Next
<1>11. ASSUME UNCHANGED vars PROVE UNCHANGED Stage
  BY <1>11, StageStays DEF vars, clientVars, actorVars
<1> QED BY <1>1, <1>2, <1>3, <1>4, <1>5, <1>6, <1>7, <1>8, <1>9, <1>10, <1>11,
           PoolCases

(* The router, the mailboxes, the timeouts and the stop implement the       *)
(* abstract pool: no message is served twice or dropped, at most as many at *)
(* a time as there are actors, and none is lost before the process exits.   *)
(* ApplicationMain.scala:38-97.                                             *)
THEOREM PoolImplementsWorkerPool == Spec => ImplementsPool
<1>1. PoolInv /\ PoolInv' /\ [Next]_vars => [Pool!Next]_Stage
  BY PoolStep
<1> QED BY <1>1, PoolInit, PoolInvHolds, PTL DEF Spec, ImplementsPool, Pool!Spec

-----------------------------------------------------------------------------
(***************************************************************************)
(* The wait.  calls[a][i] are the calls left in what actor a serves and in *)
(* the first i messages of its mailbox, which is what backlog is the last  *)
(* of.  Each call that was ahead of a message when it was queued and is no *)
(* longer took it at most CallLimit, and the present one has lasted waited *)
(* so far.                                                                 *)
(***************************************************************************)
InHand(a) == IF current[a] = NoActor THEN 0 ELSE left[current[a]]

Positions(a) == 0..Len(mailbox[a])

Sums(calls) ==
    /\ calls \in [Actors -> [Nat -> Int]]
    /\ \A a \in Actors :
          /\ calls[a][0] = InHand(a)
          /\ \A i \in 1..Len(mailbox[a]) :
                calls[a][i] = calls[a][i - 1] + left[mailbox[a][i]]
          /\ \A i, j \in Positions(a) : i <= j => calls[a][i] <= calls[a][j]
          /\ backlog[a] = calls[a][Len(mailbox[a])]

Timely(calls) ==
    \A r \in Requests, a \in Actors : \A i \in Positions(a) :
       client[r] = "waiting" /\ At(r, a, i) =>
          age[r] <= (ahead[r] - calls[a][i]) * CallLimit + waited[a]

HistoryTyped == ahead \in [Requests -> Int] /\ backlog \in [Actors -> Int]

(* A client has not waited before its message is queued. *)
NotYetWaited ==
    \A r \in Requests :
       /\ client[r] = "unsent" => age[r] = 0
       /\ chosen[r] # NoActor => client[r] = "waiting" /\ age[r] = 0

(* The message of a client that waits is somewhere. *)
Kept ==
    \A r \in Requests :
       client[r] = "waiting" => \E a \in Actors, i \in Int : At(r, a, i)

WaitInv ==
    /\ HistoryTyped
    /\ NotYetWaited
    /\ Kept
    /\ \E calls \in [Actors -> [Nat -> Int]] : Sums(calls) /\ Timely(calls)
    /\ OnlyOverdueTimesOut

LEMMA NotYetWaitedNext == PoolInv /\ NotYetWaited /\ [Next]_vars => NotYetWaited'
<1> SUFFICES ASSUME PoolInv, NotYetWaited, [Next]_vars PROVE NotYetWaited'
  OBVIOUS
<1> USE DEF PoolInv, NotYetWaited
<1>1. ASSUME NEW r \in Requests, Refuse(r) PROVE NotYetWaited'
  <2>1. ASSUME NEW a \in Actors PROVE chosen[r] # a
    BY <1>1 DEF Refuse, HandedOver, At
  <2> QED BY <1>1, <2>1 DEF Refuse, PoolTyped
<1>2. ASSUME NEW r \in Requests, Route(r) PROVE NotYetWaited'
  BY <1>2 DEF Route, PoolTyped
<1>3. ASSUME NEW r \in Requests, Enqueue(r) PROVE NotYetWaited'
  BY <1>3 DEF Enqueue, clientVars, PoolTyped
<1>4. ASSUME NEW r \in Requests, TimesOut(r) PROVE NotYetWaited'
  <2>1. chosen[r] = NoActor
    BY <1>4, PoolAssumption DEF TimesOut
  <2> QED BY <1>4, <2>1 DEF TimesOut, PoolTyped
<1>5. ASSUME NEW a \in Actors, Begin(a) PROVE NotYetWaited'
  BY <1>5 DEF Begin, clientVars
<1>6. ASSUME NEW a \in Actors, NextCall(a) PROVE NotYetWaited'
  BY <1>6 DEF NextCall, clientVars
<1>7. ASSUME NEW a \in Actors, Complete(a) PROVE NotYetWaited'
  <2>1. PICK r \in Requests : r = current[a]
    BY <1>7 DEF PoolTyped, Complete
  <2>2. chosen[r] = NoActor
    <3>1. ASSUME NEW b \in Actors, chosen[r] = b PROVE FALSE
      BY <2>1, <3>1 DEF OnePlace, At
    <3> QED BY <3>1 DEF PoolTyped
  <2>3. ASSUME NEW q \in Requests \ {r}
        PROVE client'[q] = client[q] /\ age'[q] = age[q] /\ chosen'[q] = chosen[q]
    BY <1>7, <2>1 DEF Complete, PoolTyped
  <2>4. client'[r] # "unsent" /\ chosen'[r] = NoActor
    <3>1. client[r] # "unsent"
      BY <2>1 DEF HandedOver, At
    <3> QED BY <1>7, <2>1, <2>2, <3>1 DEF Complete, PoolTyped
  <2> QED BY <2>3, <2>4
<1>8. ASSUME Tick PROVE NotYetWaited'
  BY <1>8 DEF Tick, PoolTyped
<1>9. ASSUME Terminate PROVE NotYetWaited'
  BY <1>9 DEF Terminate, clientVars
<1>10. ASSUME Exit PROVE NotYetWaited'
  BY <1>10 DEF Exit, PoolTyped
<1>11. ASSUME UNCHANGED vars PROVE NotYetWaited'
  BY <1>11 DEF vars, clientVars
<1> QED BY <1>1, <1>2, <1>3, <1>4, <1>5, <1>6, <1>7, <1>8, <1>9, <1>10, <1>11,
           PoolCases

LEMMA KeptNext == PoolInv /\ Kept /\ [Next]_vars => Kept'
<1> SUFFICES ASSUME PoolInv, Kept, [Next]_vars PROVE Kept'
  OBVIOUS
<1> USE DEF PoolInv
<1>1. ASSUME NEW r \in Requests, Refuse(r) PROVE Kept'
  BY <1>1 DEF Refuse, actorVars, PoolTyped, Kept, At
<1>2. ASSUME NEW r \in Requests, Route(r) PROVE Kept'
  <2>1. PICK a \in Actors : chosen' = [chosen EXCEPT ![r] = a]
    BY <1>2 DEF Route
  <2>2. At(r, a, -1)'
    BY <2>1 DEF PoolTyped, At
  <2>3. ASSUME NEW q \in Requests \ {r}, NEW b \in Actors, NEW i \in Int, At(q, b, i)
        PROVE At(q, b, i)'
    BY <1>2, <2>1, <2>3 DEF Route, actorVars, PoolTyped, At
  <2>4. ASSUME NEW q \in Requests \ {r} PROVE client'[q] = client[q]
    BY <1>2 DEF Route, PoolTyped
  <2> QED BY <2>2, <2>3, <2>4 DEF Kept
<1>3. ASSUME NEW r \in Requests, Enqueue(r) PROVE Kept'
  <2>1. PICK a \in Actors : a = chosen[r]
    BY <1>3, Enqueued
  <2>2. PICK last \in Nat : last = Len(mailbox[a]) + 1
    BY MailboxDomain
  <2>3. DOMAIN mailbox'[a] = 1..last /\ DOMAIN mailbox[a] = 1..(last - 1)
    <3>1. mailbox'[a] \in Seq(Requests) /\ Len(mailbox'[a]) = last
      BY <1>3, <2>1, <2>2, Enqueued
    <3> QED BY <2>2, <3>1, LenProperties, MailboxDomain
  <2>4. At(r, a, last)'
    <3>1. last \in DOMAIN mailbox'[a] /\ mailbox'[a][last] = r
      BY <1>3, <2>1, <2>2, <2>3, Enqueued
    <3> QED BY <3>1 DEF At
  <2>5. ASSUME NEW q \in Requests \ {r}, NEW b \in Actors, NEW i \in Int, At(q, b, i)
        PROVE At(q, b, i)'
    <3>1. CASE i = -1 /\ chosen[q] = b
      BY <1>3, <3>1 DEF Enqueue, PoolTyped, At
    <3>2. CASE i = 0 /\ current[b] = q
      BY <1>3, <3>2 DEF Enqueue, At
    <3>3. CASE i \in DOMAIN mailbox[b] /\ mailbox[b][i] = q
      <4>1. CASE b = a
        <5>1. i \in DOMAIN mailbox'[a] /\ mailbox'[a][i] = q
          BY <1>3, <2>1, <2>2, <2>3, <3>3, <4>1, Enqueued
        <5> QED BY <4>1, <5>1 DEF At
      <4>2. CASE b # a
        <5>1. mailbox'[b] = mailbox[b]
          BY <1>3, <2>1, <4>2, Enqueued
        <5> QED BY <3>3, <5>1 DEF At
      <4> QED BY <4>1, <4>2
    <3> QED BY <2>5, <3>1, <3>2, <3>3 DEF At
  <2>6. client' = client
    BY <1>3 DEF Enqueue, clientVars
  <2> QED BY <2>4, <2>5, <2>6 DEF Kept
<1>4. ASSUME NEW r \in Requests, TimesOut(r) PROVE Kept'
  BY <1>4 DEF TimesOut, actorVars, PoolTyped, Kept, At
<1>5. ASSUME NEW a \in Actors, Begin(a) PROVE Kept'
  <2>1. PICK n \in Nat : n = Len(mailbox[a])
    BY MailboxDomain
  <2>2. DOMAIN mailbox[a] = 1..n
    BY <2>1, MailboxDomain
  <2>3. DOMAIN mailbox'[a] = 1..(n - 1)
    <3>1. mailbox'[a] \in Seq(Requests) /\ Len(mailbox'[a]) = n - 1
      BY <1>5, <2>1, Begun
    <3> QED BY <3>1, LenProperties
  <2>4. current' = [current EXCEPT ![a] = mailbox[a][1]] /\ current[a] = NoActor
    BY <1>5, Begun DEF Begin
  <2>5. ASSUME NEW q \in Requests, NEW b \in Actors, NEW i \in Int, At(q, b, i)
        PROVE \E j \in Int : At(q, b, j)'
    <3>1. CASE i = -1 /\ chosen[q] = b
      BY <1>5, <3>1 DEF Begin, At
    <3>2. CASE i = 0 /\ current[b] = q
      <4>1. b # a
        BY <2>4, <3>2, ActorsAssumption
      <4>2. current'[b] = q
        BY <2>4, <3>2, <4>1 DEF PoolTyped
      <4>3. At(q, b, 0)'
        BY <4>2 DEF At
      <4> QED BY <4>3
    <3>3. CASE i \in DOMAIN mailbox[b] /\ mailbox[b][i] = q
      <4>1. CASE b = a /\ i = 1
        <5>1. current'[a] = q
          BY <2>4, <3>3, <4>1 DEF PoolTyped
        <5>2. At(q, a, 0)'
          BY <5>1 DEF At
        <5> QED BY <4>1, <5>2
      <4>2. CASE b = a /\ i # 1
        <5>1. i - 1 \in 1..(n - 1)
          BY <2>2, <3>3, <4>2
        <5>2. mailbox'[a][i - 1] = mailbox[a][i - 1 + 1]
          BY <1>5, <2>1, <5>1, Begun
        <5>3. i - 1 + 1 = i
          OBVIOUS
        <5>4. At(q, a, i - 1)'
          BY <2>3, <3>3, <4>2, <5>1, <5>2, <5>3 DEF At
        <5> QED BY <4>2, <5>4
      <4>3. CASE b # a
        <5>1. mailbox'[b] = mailbox[b]
          BY <1>5, <4>3, Begun
        <5>2. At(q, b, i)'
          BY <3>3, <5>1 DEF At
        <5> QED BY <5>2
      <4> QED BY <4>1, <4>2, <4>3
    <3> QED BY <2>5, <3>1, <3>2, <3>3 DEF At
  <2>6. client' = client
    BY <1>5 DEF Begin, clientVars
  <2> QED BY <2>5, <2>6 DEF Kept
<1>6. ASSUME NEW a \in Actors, NextCall(a) PROVE Kept'
  BY <1>6 DEF NextCall, clientVars, Kept, At
<1>7. ASSUME NEW a \in Actors, Complete(a) PROVE Kept'
  <2>1. PICK r \in Requests : r = current[a]
    BY <1>7 DEF PoolTyped, Complete
  <2>2. client'[r] # "waiting"
    BY <1>7, <2>1 DEF PoolTyped, Complete
  <2>3. ASSUME NEW q \in Requests \ {r}, NEW b \in Actors, NEW i \in Int, At(q, b, i)
        PROVE At(q, b, i)'
    BY <1>7, <2>1, <2>3 DEF Complete, PoolTyped, At
  <2>4. ASSUME NEW q \in Requests \ {r} PROVE client'[q] = client[q]
    BY <1>7, <2>1 DEF Complete, PoolTyped
  <2> QED BY <2>2, <2>3, <2>4 DEF Kept
<1>8. ASSUME Tick PROVE Kept'
  BY <1>8 DEF Tick, Kept, At
<1>9. ASSUME Terminate PROVE Kept'
  BY <1>9 DEF Terminate, clientVars, actorVars, Kept, At
<1>10. ASSUME Exit PROVE Kept'
  BY <1>10 DEF Exit, PoolTyped, Kept
<1>11. ASSUME UNCHANGED vars PROVE Kept'
  BY <1>11 DEF vars, clientVars, actorVars, Kept, At
<1> QED BY <1>1, <1>2, <1>3, <1>4, <1>5, <1>6, <1>7, <1>8, <1>9, <1>10, <1>11,
           PoolCases

(* What calls are worth in time. *)
LEMMA Worth ==
    ASSUME NEW x \in Int, NEW y \in Int
    PROVE /\ x <= y => x * CallLimit <= y * CallLimit
          /\ x + 1 <= y => x * CallLimit + CallLimit <= y * CallLimit
          /\ x * CallLimit \in Int
<1>1. CallLimit \in Nat
  BY PoolAssumption
<1>2. ASSUME NEW d \in Nat PROVE d * CallLimit \in Nat
  BY <1>1
<1>3. ASSUME x <= y PROVE x * CallLimit <= y * CallLimit
  <2>1. y - x \in Nat /\ y = x + (y - x)
    BY <1>3
  <2>2. y * CallLimit = x * CallLimit + (y - x) * CallLimit
    BY <1>1
  <2>3. (y - x) * CallLimit \in Nat
    BY <1>2, <2>1
  <2> QED BY <1>1, <2>2, <2>3
<1>4. ASSUME x + 1 <= y PROVE x * CallLimit + CallLimit <= y * CallLimit
  <2>1. y - (x + 1) \in Nat
    BY <1>4
  <2>2. y * CallLimit = x * CallLimit + CallLimit + (y - (x + 1)) * CallLimit
    BY <1>1
  <2>3. (y - (x + 1)) * CallLimit \in Nat
    BY <1>2, <2>1
  <2> QED BY <1>1, <2>2, <2>3
<1> QED BY <1>1, <1>3, <1>4

LEMMA SumsInit ==
    ASSUME Init
    PROVE Sums([a \in Actors |-> [n \in Nat |-> 0]])
<1>1. ASSUME NEW a \in Actors PROVE Len(mailbox[a]) = 0
  <2>1. mailbox[a] = <<>>
    BY DEF Init
  <2> QED BY <2>1
<1> QED BY <1>1 DEF Sums, InHand, Positions, Init

LEMMA SumsStay ==
    ASSUME NEW calls, Sums(calls), UNCHANGED <<left, mailbox, current, backlog>>
    PROVE Sums(calls)'
BY DEF Sums, InHand, Positions

(* A message of a mailbox, and one that is served. *)
LEMMA Waiting ==
    ASSUME PoolTyped, NEW a \in Actors, NEW i \in 1..Len(mailbox[a])
    PROVE mailbox[a][i] \in Requests /\ At(mailbox[a][i], a, i)
<1>1. mailbox[a] \in Seq(Requests)
  BY DEF PoolTyped
<1>2. mailbox[a][i] \in Requests
  BY <1>1, ElementOfSeq
<1>3. i \in DOMAIN mailbox[a]
  BY MailboxDomain
<1> QED BY <1>2, <1>3 DEF At

LEMMA ServedWaitsNowhere ==
    ASSUME PoolTyped, OnePlace, NEW a \in Actors, NEW b \in Actors,
           NEW r \in Requests, r = current[a], NEW i \in 1..Len(mailbox[b])
    PROVE mailbox[b][i] \in Requests \ {r}
<1>1. mailbox[b][i] \in Requests /\ At(mailbox[b][i], b, i)
  BY Waiting
<1>2. ASSUME At(r, b, i) PROVE FALSE
  <2>1. At(r, a, 0) /\ i \in Int /\ i # 0
    BY DEF At
  <2> QED BY <1>2, <2>1 DEF OnePlace
<1> QED BY <1>1, <1>2

LEMMA NoLess == \A x, y \in Int, n \in Nat : x <= y => x <= y + n
OBVIOUS

(* A message that is queued adds to the end of one sum. *)
Extended(new, calls, a, m, n) ==
    /\ new \in [Actors -> [Nat -> Int]]
    /\ new[a][m + 1] = calls[a][m] + n
    /\ \A i \in Nat \ {m + 1} : new[a][i] = calls[a][i]
    /\ \A b \in Actors \ {a} : new[b] = calls[b]

LEMMA SumsEnqueue ==
    ASSUME NEW r \in Requests, NEW a \in Actors, a = chosen[r], PoolInv, HistoryTyped,
           NEW calls, Sums(calls), Enqueue(r),
           NEW m \in Nat, m = Len(mailbox[a]), NEW last \in Nat, last = m + 1,
           NEW n \in Nat, n = left[r],
           NEW new, Extended(new, calls, a, m, n)
    PROVE Sums(new)'
<1>1. new \in [Actors -> [Nat -> Int]] /\ new[a][last] = calls[a][m] + n
  BY DEF Extended
<1>2. \A i \in Nat \ {last} : new[a][i] = calls[a][i]
  BY DEF Extended
<1>3. calls \in [Actors -> [Nat -> Int]] /\ left[r] \in Nat
  BY DEF Sums, PoolInv, PoolTyped
<1>4. last = Len(mailbox[a]) + 1 /\ last # 0
  BY MailboxDomain DEF PoolInv
<1>5. UNCHANGED <<left, current>>
  BY DEF Enqueue
<1>6. backlog' = [backlog EXCEPT ![a] = backlog[a] + left[r]]
  BY DEF Enqueue
<1>7. /\ Len(mailbox'[a]) = last
      /\ mailbox'[a][last] = r
      /\ \A i \in 1..m : mailbox'[a][i] = mailbox[a][i]
      /\ \A b \in Actors \ {a} : mailbox'[b] = mailbox[b]
  BY <1>4, Enqueued DEF PoolInv
<1>8. ASSUME NEW b \in Actors \ {a}
      PROVE /\ new[b][0] = InHand(b)'
            /\ \A i \in 1..Len(mailbox'[b]) :
                  new[b][i] = new[b][i - 1] + left'[mailbox'[b][i]]
            /\ \A i, j \in Positions(b)' : i <= j => new[b][i] <= new[b][j]
            /\ backlog'[b] = new[b][Len(mailbox'[b])]
  <2>1. new[b] = calls[b] /\ mailbox'[b] = mailbox[b] /\ backlog'[b] = backlog[b]
    BY <1>6, <1>7 DEF HistoryTyped, Extended
  <2>2. InHand(b)' = InHand(b) /\ Positions(b)' = Positions(b)
    BY <1>5, <2>1 DEF InHand, Positions
  <2>3. /\ calls[b][0] = InHand(b)
        /\ \A i \in 1..Len(mailbox[b]) :
              calls[b][i] = calls[b][i - 1] + left[mailbox[b][i]]
        /\ \A i, j \in Positions(b) : i <= j => calls[b][i] <= calls[b][j]
        /\ backlog[b] = calls[b][Len(mailbox[b])]
    BY DEF Sums
  <2> QED BY <1>5, <2>1, <2>2, <2>3, Zenon
<1>9. /\ calls[a][0] = InHand(a)
      /\ \A i \in 1..m : calls[a][i] = calls[a][i - 1] + left[mailbox[a][i]]
      /\ backlog[a] = calls[a][m]
  BY <1>4 DEF Sums, Positions
<1>10. \A i, j \in 0..m : i <= j => calls[a][i] <= calls[a][j]
  BY <1>4 DEF Sums, Positions
<1>11. new[a][0] = InHand(a)'
  BY <1>2, <1>4, <1>5, <1>9 DEF InHand
<1>12. ASSUME NEW i \in 1..last
       PROVE new[a][i] = new[a][i - 1] + left'[mailbox'[a][i]]
  <2>1. CASE i = last
    <3>1. m \in Nat \ {last}
      BY <1>4
    <3>2. new[a][m] = calls[a][m]
      BY <1>2, <3>1
    <3>3. new[a][last] = calls[a][m] + n
      BY <1>1
    <3>4. left'[mailbox'[a][last]] = left[r]
      BY <1>5, <1>7
    <3> QED BY <2>1, <3>2, <3>3, <3>4
  <2>2. CASE i # last
    <3>1. i \in 1..m /\ i - 1 \in Nat \ {last} /\ i \in Nat \ {last}
      BY <1>4, <2>2
    <3> QED BY <1>5, <1>7, <1>9, <1>2, <3>1
  <2> QED BY <2>1, <2>2
<1>13. ASSUME NEW i \in 0..last, NEW j \in 0..last, i <= j
       PROVE new[a][i] <= new[a][j]
  <2>1. ASSUME NEW k \in 0..m
        PROVE new[a][k] = calls[a][k] /\ calls[a][k] \in Int
    <3>1. k \in Nat \ {last}
      BY <1>4
    <3> QED BY <1>3, <1>2, <3>1
  <2>2. new[a][last] = calls[a][m] + n
    BY <1>1
  <2>3. CASE j = last /\ i # last
    <3>1. i \in 0..m /\ m \in 0..m /\ i <= m
      BY <1>4, <2>3
    <3>2. calls[a][i] <= calls[a][m]
      BY <1>10, <3>1
    <3>3. new[a][i] = calls[a][i] /\ calls[a][i] \in Int /\ calls[a][m] \in Int
      BY <2>1, <3>1
    <3>4. calls[a][i] <= calls[a][m] + n
      BY <3>2, <3>3, NoLess, Zenon
    <3> QED BY <2>2, <2>3, <3>3, <3>4
  <2>4. CASE i = last
    <3>1. j = last
      BY <1>13, <2>4
    <3>2. new[a][last] \in Int
      BY <1>1
    <3> QED BY <2>4, <3>1, <3>2
  <2>5. CASE j # last
    <3>1. i \in 0..m /\ j \in 0..m
      BY <1>4, <1>13, <2>5
    <3> QED BY <1>10, <1>13, <2>1, <3>1
  <2> QED BY <2>3, <2>4, <2>5
<1>14. backlog'[a] = new[a][Len(mailbox'[a])]
  <2>1. backlog'[a] = backlog[a] + left[r]
    BY <1>6 DEF HistoryTyped
  <2> QED BY <1>1, <1>7, <1>9, <2>1
<1>15. ASSUME NEW b \in Actors
       PROVE /\ new[b][0] = InHand(b)'
             /\ \A i \in 1..Len(mailbox'[b]) :
                   new[b][i] = new[b][i - 1] + left'[mailbox'[b][i]]
             /\ \A i, j \in Positions(b)' : i <= j => new[b][i] <= new[b][j]
             /\ backlog'[b] = new[b][Len(mailbox'[b])]
  <2>1. CASE b = a
    BY <1>7, <1>11, <1>12, <1>13, <1>14, <2>1 DEF Positions
  <2>2. CASE b # a
    BY <1>8, <2>2
  <2> QED BY <2>1, <2>2
<1> QED BY <1>1, <1>15 DEF Sums

(* An actor that begins shifts its sum by one. *)
Shifted(new, calls, a) ==
    /\ new \in [Actors -> [Nat -> Int]]
    /\ \A i \in Nat : new[a][i] = calls[a][i + 1]
    /\ \A b \in Actors \ {a} : new[b] = calls[b]

LEMMA SumsBegin ==
    ASSUME NEW a \in Actors, PoolInv, HistoryTyped,
           NEW calls, Sums(calls), Begin(a),
           NEW new, Shifted(new, calls, a)
    PROVE Sums(new)'
<1> USE DEF Shifted
<1>1. calls \in [Actors -> [Nat -> Int]]
  BY DEF Sums
<1>2. PICK n \in Nat : n = Len(mailbox[a]) - 1 /\ Len(mailbox[a]) = n + 1
  BY Begun, MailboxDomain DEF PoolInv
<1>3. UNCHANGED <<left, backlog>>
  BY DEF Begin, history
<1>4. /\ Len(mailbox'[a]) = n
      /\ \A i \in 1..n : mailbox'[a][i] = mailbox[a][i + 1]
      /\ \A b \in Actors \ {a} : mailbox'[b] = mailbox[b]
  BY <1>2, Begun DEF PoolInv
<1>5. /\ mailbox[a][1] \in Requests
      /\ current[a] = NoActor
      /\ current' = [current EXCEPT ![a] = mailbox[a][1]]
  BY Begun DEF Begin, PoolInv
<1>6. /\ calls[a][0] = 0
      /\ \A i \in 1..(n + 1) : calls[a][i] = calls[a][i - 1] + left[mailbox[a][i]]
      /\ \A i, j \in 0..(n + 1) : i <= j => calls[a][i] <= calls[a][j]
      /\ backlog[a] = calls[a][n + 1]
  BY <1>2, <1>5 DEF Sums, Positions, InHand
<1>7. new[a][0] = InHand(a)'
  <2>1. InHand(a)' = left[mailbox[a][1]]
    BY <1>3, <1>5, ActorsAssumption DEF InHand, PoolInv, PoolTyped
  <2>2. calls[a][1] = calls[a][0] + left[mailbox[a][1]]
    <3>1. 1 \in 1..(n + 1) /\ 1 - 1 = 0
      OBVIOUS
    <3> QED BY <1>6, <3>1
  <2>3. left[mailbox[a][1]] \in Nat
    BY <1>5 DEF PoolInv, PoolTyped
  <2>4. new[a][0] = calls[a][1]
    <3>1. 0 \in Nat /\ 0 + 1 = 1
      OBVIOUS
    <3> QED BY <3>1
  <2> QED BY <1>6, <2>1, <2>2, <2>3, <2>4
<1>8. ASSUME NEW i \in 1..n
       PROVE new[a][i] = new[a][i - 1] + left'[mailbox'[a][i]]
  <2>1. new[a][i] = calls[a][i + 1] /\ new[a][i - 1] = calls[a][i]
    <3>1. i \in Nat /\ i - 1 \in Nat /\ i - 1 + 1 = i
      OBVIOUS
    <3> QED BY <3>1
  <2>2. calls[a][i + 1] = calls[a][i] + left[mailbox[a][i + 1]]
    <3>1. i + 1 \in 1..(n + 1) /\ i + 1 - 1 = i
      OBVIOUS
    <3> QED BY <1>6, <3>1
  <2> QED BY <1>3, <1>4, <2>1, <2>2
<1>9. ASSUME NEW i \in 0..n, NEW j \in 0..n, i <= j
       PROVE new[a][i] <= new[a][j]
  <2>1. i + 1 \in 0..(n + 1) /\ j + 1 \in 0..(n + 1) /\ i + 1 <= j + 1
    BY <1>9
  <2> QED BY <1>6, <2>1
<1>10. backlog'[a] = new[a][Len(mailbox'[a])]
  BY <1>3, <1>4, <1>6
<1>11. ASSUME NEW b \in Actors \ {a}
       PROVE new[b] = calls[b] /\ mailbox'[b] = mailbox[b] /\ current'[b] = current[b]
  BY <1>4, <1>5 DEF PoolInv, PoolTyped
<1>12. ASSUME NEW b \in Actors
       PROVE /\ new[b][0] = InHand(b)'
             /\ \A i \in 1..Len(mailbox'[b]) :
                   new[b][i] = new[b][i - 1] + left'[mailbox'[b][i]]
             /\ \A i, j \in Positions(b)' : i <= j => new[b][i] <= new[b][j]
             /\ backlog'[b] = new[b][Len(mailbox'[b])]
  <2>1. CASE b = a
    BY <1>4, <1>7, <1>8, <1>9, <1>10, <2>1 DEF Positions
  <2>2. CASE b # a
    <3>1. new[b] = calls[b] /\ mailbox'[b] = mailbox[b] /\ backlog'[b] = backlog[b]
      BY <1>3, <1>11, <2>2
    <3>2. InHand(b)' = InHand(b)
      BY <1>3, <1>11, <2>2 DEF InHand
    <3> QED BY <1>3, <3>1, <3>2 DEF Sums, Positions
  <2> QED BY <2>1, <2>2
<1> QED BY <1>12 DEF Sums

(* Calls of the message an actor serves are gone: one, or all it had left. *)
Spend(a, r, d) ==
    /\ r = current[a]
    /\ UNCHANGED <<mailbox, ahead>>
    /\ left' = [left EXCEPT ![r] = left[r] - d]
    /\ backlog' = [backlog EXCEPT ![a] = backlog[a] - d]
    /\ waited' = [waited EXCEPT ![a] = 0]
    /\ InHand(a)' = left[r] - d
    /\ \A b \in Actors \ {a} : current'[b] = current[b]

Spent(new, calls, a, d) ==
    /\ new \in [Actors -> [Nat -> Int]]
    /\ \A i \in Nat : new[a][i] = calls[a][i] - d
    /\ \A b \in Actors \ {a} : new[b] = calls[b]

LEMMA SumsSpend ==
    ASSUME NEW a \in Actors, NEW r \in Requests, NEW d \in Nat, Spend(a, r, d),
           PoolInv, HistoryTyped, NEW calls, Sums(calls),
           NEW new, Spent(new, calls, a, d)
    PROVE Sums(new)'
<1> USE DEF Spend, Spent
<1>1. calls \in [Actors -> [Nat -> Int]]
  BY DEF Sums
<1>2. ASSUME NEW b \in Actors, NEW i \in 1..Len(mailbox[b])
      PROVE left'[mailbox[b][i]] = left[mailbox[b][i]] /\ left[mailbox[b][i]] \in Nat
  <2>1. mailbox[b][i] \in Requests \ {r}
    BY ServedWaitsNowhere DEF PoolInv
  <2> QED BY <2>1 DEF PoolInv, PoolTyped
<1>3. PICK n \in Nat : n = Len(mailbox[a])
  BY MailboxDomain DEF PoolInv
<1>4. /\ calls[a][0] = left[r]
      /\ \A i \in 1..n : calls[a][i] = calls[a][i - 1] + left[mailbox[a][i]]
      /\ \A i, j \in 0..n : i <= j => calls[a][i] <= calls[a][j]
      /\ backlog[a] = calls[a][n]
  BY <1>3, ActorsAssumption DEF Sums, Positions, InHand
<1>5. new[a][0] = InHand(a)'
  BY <1>4
<1>6. ASSUME NEW i \in 1..n
      PROVE new[a][i] = new[a][i - 1] + left'[mailbox[a][i]]
  <2>1. calls[a][i] = calls[a][i - 1] + left[mailbox[a][i]]
    BY <1>4
  <2>2. i \in Nat /\ i - 1 \in Nat
    OBVIOUS
  <2>3. new[a][i] = calls[a][i] - d /\ new[a][i - 1] = calls[a][i - 1] - d
    BY <2>2
  <2>4. calls[a][i - 1] \in Int /\ left[mailbox[a][i]] \in Nat
    <3>1. calls[a][i - 1] \in Int
      BY <1>1, <2>2
    <3> QED BY <1>2, <1>3, <3>1
  <2>5. left'[mailbox[a][i]] = left[mailbox[a][i]]
    BY <1>2, <1>3
  <2> QED BY <2>1, <2>3, <2>4, <2>5
<1>7. ASSUME NEW i \in 0..n, NEW j \in 0..n, i <= j
       PROVE new[a][i] <= new[a][j]
  <2>1. calls[a][i] <= calls[a][j] /\ calls[a][i] \in Int /\ calls[a][j] \in Int
    BY <1>1, <1>4, <1>7
  <2> QED BY <2>1
<1>8. backlog'[a] = new[a][n]
  BY <1>4 DEF HistoryTyped
<1>9. ASSUME NEW b \in Actors \ {a}
       PROVE /\ new[b][0] = InHand(b)'
             /\ \A i \in 1..Len(mailbox[b]) :
                   new[b][i] = new[b][i - 1] + left'[mailbox[b][i]]
             /\ \A i, j \in Positions(b) : i <= j => new[b][i] <= new[b][j]
             /\ backlog'[b] = new[b][Len(mailbox[b])]
  <2>1. new[b] = calls[b] /\ backlog'[b] = backlog[b]
    BY DEF HistoryTyped
  <2>2. InHand(b)' = InHand(b)
    <3>1. CASE current[b] = NoActor
      BY <3>1 DEF InHand
    <3>2. CASE current[b] # NoActor
      <4>1. current[b] \in Requests
        BY <3>2 DEF PoolInv, PoolTyped
      <4>2. At(current[b], b, 0) /\ At(r, a, 0)
        BY DEF At
      <4>3. current[b] # r
        BY <4>1, <4>2 DEF PoolInv, OnePlace
      <4> QED BY <4>1, <4>3 DEF InHand, PoolInv, PoolTyped
    <3> QED BY <3>1, <3>2
  <2>3. /\ calls[b][0] = InHand(b)
        /\ \A i \in 1..Len(mailbox[b]) :
              calls[b][i] = calls[b][i - 1] + left[mailbox[b][i]]
        /\ \A i, j \in Positions(b) : i <= j => calls[b][i] <= calls[b][j]
        /\ backlog[b] = calls[b][Len(mailbox[b])]
    BY DEF Sums
  <2>4. ASSUME NEW i \in 1..Len(mailbox[b])
        PROVE calls[b][i] = calls[b][i - 1] + left'[mailbox[b][i]]
    BY <1>2, <2>3
  <2> QED BY <2>1, <2>2, <2>3, <2>4
<1>10. ASSUME NEW b \in Actors
       PROVE /\ new[b][0] = InHand(b)'
             /\ \A i \in 1..Len(mailbox'[b]) :
                   new[b][i] = new[b][i - 1] + left'[mailbox'[b][i]]
             /\ \A i, j \in Positions(b)' : i <= j => new[b][i] <= new[b][j]
             /\ backlog'[b] = new[b][Len(mailbox'[b])]
  <2>1. CASE b = a
    BY <1>3, <1>5, <1>6, <1>7, <1>8, <2>1 DEF Positions
  <2>2. CASE b # a
    BY <1>9, <2>2 DEF Positions
  <2> QED BY <2>1, <2>2
<1> QED BY <1>10 DEF Sums

(* In a queue or in service, a place is a position. *)
LEMMA AtPosition ==
    ASSUME PoolTyped, NEW r \in Requests, NEW a \in Actors, NEW i \in Int,
           i >= 0, At(r, a, i)
    PROVE i \in Positions(a)
BY MailboxDomain DEF At, Positions

LEMMA CallsPositive ==
    ASSUME PoolInv, NEW calls, Sums(calls),
           NEW r \in Requests, NEW a \in Actors, NEW i \in Positions(a), At(r, a, i)
    PROVE calls[a][i] \in Int /\ calls[a][i] >= 1
<1>1. PICK n \in Nat : n = Len(mailbox[a]) /\ DOMAIN mailbox[a] = 1..n
  BY MailboxDomain DEF PoolInv
<1>2. i \in 0..n /\ i \in Nat
  BY <1>1 DEF Positions
<1>3. /\ calls[a][0] = InHand(a)
      /\ \A k \in 1..n : calls[a][k] = calls[a][k - 1] + left[mailbox[a][k]]
      /\ \A k, l \in 0..n : k <= l => calls[a][k] <= calls[a][l]
      /\ calls[a] \in [Nat -> Int]
  BY <1>1 DEF Sums, Positions
<1>4. left[r] \in Nat /\ left[r] > 0
  BY <1>2 DEF PoolInv, PoolTyped, HandedOver
<1>5. InHand(a) \in Nat
  BY DEF InHand, PoolInv, PoolTyped
<1>6. CASE i = 0
  <2>1. current[a] = r
    BY <1>1, <1>6 DEF At
  <2>2. InHand(a) = left[r]
    BY <2>1, ActorsAssumption DEF InHand
  <2> QED BY <1>3, <1>4, <1>6, <2>2
<1>7. CASE i # 0
  <2>1. mailbox[a][i] = r /\ i \in 1..n /\ i - 1 \in 0..n /\ 0 \in 0..n /\ 0 <= i - 1
    BY <1>1, <1>2, <1>7 DEF At
  <2>2. calls[a][0] <= calls[a][i - 1] /\ calls[a][i] = calls[a][i - 1] + left[r]
    BY <1>3, <2>1
  <2>3. calls[a][i - 1] \in Int
    BY <1>3, <2>1
  <2> QED BY <1>3, <1>4, <1>5, <2>2, <2>3
<1> QED BY <1>6, <1>7

LEMMA TimelyStays ==
    ASSUME NEW calls, Timely(calls), UNCHANGED <<mailbox, current, waited, ahead>>,
           \A r \in Requests, a \in Actors : \A i \in Positions(a) :
              client'[r] = "waiting" /\ At(r, a, i)' =>
                 client[r] = "waiting" /\ At(r, a, i) /\ age'[r] = age[r]
    PROVE Timely(calls)'
BY DEF Timely, Positions

LEMMA WaitEnqueue ==
    ASSUME PoolInv, HistoryTyped, NotYetWaited, NEW r \in Requests, Enqueue(r),
           NEW calls \in [Actors -> [Nat -> Int]], Sums(calls), Timely(calls)
    PROVE \E new \in [Actors -> [Nat -> Int]] : Sums(new)' /\ Timely(new)'
<1>1. PICK a \in Actors, m \in Nat, n \in Nat :
         a = chosen[r] /\ m = Len(mailbox[a]) /\ n = left[r]
  <2>1. PICK a \in Actors : a = chosen[r]
    BY Enqueued DEF PoolInv
  <2>2. Len(mailbox[a]) \in Nat
    BY MailboxDomain DEF PoolInv
  <2>3. left[r] \in Nat
    BY DEF PoolInv, PoolTyped
  <2> QED BY <2>1, <2>2, <2>3
<1>2. PICK last \in Nat : last = m + 1
  OBVIOUS
<1>3. PICK new \in [Actors -> [Nat -> Int]] : Extended(new, calls, a, m, n)
  <2> DEFINE mine == [calls[a] EXCEPT ![last] = calls[a][m] + n]
             both == [calls EXCEPT ![a] = mine]
  <2>1. calls[a][m] + n \in Int
    BY <1>2
  <2>2. /\ mine \in [Nat -> Int]
        /\ mine[last] = calls[a][m] + n
        /\ \A i \in Nat \ {last} : mine[i] = calls[a][i]
    BY <2>1
  <2> HIDE DEF mine
  <2>3. /\ both \in [Actors -> [Nat -> Int]]
        /\ both[a] = mine
        /\ \A b \in Actors \ {a} : both[b] = calls[b]
    BY <2>2
  <2> HIDE DEF both
  <2>4. Extended(both, calls, a, m, n)
    BY <1>2, <2>2, <2>3 DEF Extended
  <2> QED BY <2>3, <2>4
<1>4. Sums(new)'
  BY <1>1, <1>2, <1>3, SumsEnqueue
<1>5. ASSUME NEW q \in Requests, NEW b \in Actors, NEW i \in Positions(b)',
             client'[q] = "waiting", At(q, b, i)'
      PROVE age'[q] <= (ahead'[q] - new[b][i]) * CallLimit + waited'[b]
  <2>1. i \in Nat
    BY <1>5 DEF Positions
  <2>2. UNCHANGED <<client, age, waited>>
    BY DEF Enqueue, clientVars
  <2>3. ahead' = [ahead EXCEPT ![r] = backlog[a] + n]
    BY <1>1 DEF Enqueue
  <2>4. CASE q = r /\ b = a /\ i = last
    <3>1. ahead'[r] = new[a][last] /\ new[a][last] \in Int
      BY <1>1, <1>2, <1>3, <2>3 DEF HistoryTyped, Sums, Extended
    <3>2. age[r] = 0
      BY <1>1, ActorsAssumption DEF NotYetWaited
    <3>3. waited[a] \in Nat
      BY DEF PoolInv, PoolTyped
    <3>4. (ahead'[r] - new[a][last]) * CallLimit = 0
      <4>1. ahead'[r] - new[a][last] = 0 /\ CallLimit \in Nat
        BY <3>1, PoolAssumption
      <4> QED BY <4>1
    <3> QED BY <2>2, <2>4, <3>2, <3>3, <3>4
  <2>5. CASE q # r /\ At(q, b, i)
    <3>1. i \in Positions(b)
      BY <2>1, <2>5, AtPosition DEF PoolInv
    <3>2. new[b][i] = calls[b][i]
      <4>1. CASE b = a
        <5>1. i \in Nat \ {last}
          BY <1>1, <1>2, <2>1, <3>1, <4>1 DEF Positions
        <5> QED BY <1>2, <1>3, <4>1, <5>1 DEF Extended
      <4>2. CASE b # a
        BY <1>3, <4>2 DEF Extended
      <4> QED BY <4>1, <4>2
    <3>3. ahead'[q] = ahead[q]
      BY <2>3, <2>5 DEF HistoryTyped
    <3>4. age[q] <= (ahead[q] - calls[b][i]) * CallLimit + waited[b]
      BY <1>5, <2>2, <2>5, <3>1 DEF Timely
    <3> QED BY <2>2, <3>2, <3>3, <3>4
  <2>6. \/ q = r /\ b = a /\ i = last
        \/ q # r /\ At(q, b, i)
    <3>1. i \in Int /\ PoolTyped /\ OnePlace
      BY <2>1 DEF PoolInv
    <3>2. \/ q = r /\ b = chosen[r] /\ i = Len(mailbox[b]) + 1
          \/ q # r /\ At(q, b, i)
      BY <1>5, <3>1, EnqueueMoves, Zenon
    <3> QED BY <1>1, <1>2, <3>2
  <2> QED BY <2>4, <2>5, <2>6
<1>6. Timely(new)'
  BY <1>5 DEF Timely
<1> QED BY <1>4, <1>6

LEMMA WaitBegin ==
    ASSUME PoolInv, HistoryTyped, NEW a \in Actors, Begin(a),
           NEW calls \in [Actors -> [Nat -> Int]], Sums(calls), Timely(calls)
    PROVE \E new \in [Actors -> [Nat -> Int]] : Sums(new)' /\ Timely(new)'
<1>1. PICK new \in [Actors -> [Nat -> Int]] : Shifted(new, calls, a)
  <2> DEFINE mine == [i \in Nat |-> calls[a][i + 1]]
             both == [calls EXCEPT ![a] = mine]
  <2>1. mine \in [Nat -> Int] /\ \A i \in Nat : mine[i] = calls[a][i + 1]
    OBVIOUS
  <2> HIDE DEF mine
  <2>2. /\ both \in [Actors -> [Nat -> Int]]
        /\ both[a] = mine
        /\ \A b \in Actors \ {a} : both[b] = calls[b]
    BY <2>1
  <2> HIDE DEF both
  <2>3. Shifted(both, calls, a)
    BY <2>1, <2>2 DEF Shifted
  <2> QED BY <2>2, <2>3
<1>2. Sums(new)'
  BY <1>1, SumsBegin
<1>3. UNCHANGED <<client, age, waited, ahead>>
  BY DEF Begin, clientVars, history
<1>4. ASSUME NEW q \in Requests, NEW b \in Actors, NEW i \in Positions(b)',
             client'[q] = "waiting", At(q, b, i)'
      PROVE age'[q] <= (ahead'[q] - new[b][i]) * CallLimit + waited'[b]
  <2>1. i \in Nat
    BY <1>4 DEF Positions
  <2>2. CASE b = a
    <3>1. At(q, a, i + 1)
      BY <1>4, <2>1, <2>2, BeginMoves DEF PoolInv
    <3>2. i + 1 \in Positions(a)
      BY <2>1, <3>1, AtPosition DEF PoolInv
    <3>3. age[q] <= (ahead[q] - calls[a][i + 1]) * CallLimit + waited[a]
      BY <1>3, <1>4, <3>1, <3>2 DEF Timely
    <3> QED BY <1>1, <1>3, <2>1, <2>2, <3>3 DEF Shifted
  <2>3. CASE b # a
    <3>1. At(q, b, i)
      BY <1>4, <2>1, <2>3, BeginMoves DEF PoolInv
    <3>2. i \in Positions(b)
      BY <2>1, <3>1, AtPosition DEF PoolInv
    <3>3. age[q] <= (ahead[q] - calls[b][i]) * CallLimit + waited[b]
      BY <1>3, <1>4, <3>1, <3>2 DEF Timely
    <3> QED BY <1>1, <1>3, <2>3, <3>3 DEF Shifted
  <2> QED BY <2>2, <2>3
<1>5. Timely(new)'
  BY <1>4 DEF Timely
<1> QED BY <1>2, <1>5

(* Calls that are gone have lasted CallLimit at most. *)
LEMMA WaitSpend ==
    ASSUME PoolInv, HistoryTyped,
           NEW calls \in [Actors -> [Nat -> Int]], Sums(calls), Timely(calls),
           NEW a \in Actors, NEW r \in Requests,
           NEW d \in Nat, d >= 1, Spend(a, r, d),
           \A q \in Requests, b \in Actors : \A i \in Positions(b) :
              client'[q] = "waiting" /\ At(q, b, i)' =>
                 client[q] = "waiting" /\ At(q, b, i) /\ age'[q] = age[q]
    PROVE \E new \in [Actors -> [Nat -> Int]] : Sums(new)' /\ Timely(new)'
<1>1. PICK new \in [Actors -> [Nat -> Int]] : Spent(new, calls, a, d)
  <2> DEFINE mine == [i \in Nat |-> calls[a][i] - d]
             both == [calls EXCEPT ![a] = mine]
  <2>1. mine \in [Nat -> Int] /\ \A i \in Nat : mine[i] = calls[a][i] - d
    OBVIOUS
  <2> HIDE DEF mine
  <2>2. /\ both \in [Actors -> [Nat -> Int]]
        /\ both[a] = mine
        /\ \A b \in Actors \ {a} : both[b] = calls[b]
    BY <2>1
  <2> HIDE DEF both
  <2>3. Spent(both, calls, a, d)
    BY <2>1, <2>2 DEF Spent
  <2> QED BY <2>2, <2>3
<1>2. Sums(new)'
  BY <1>1, SumsSpend
<1>3. ASSUME NEW q \in Requests, NEW b \in Actors, NEW i \in Positions(b)',
             client'[q] = "waiting", At(q, b, i)'
      PROVE age'[q] <= (ahead'[q] - new[b][i]) * CallLimit + waited'[b]
  <2>1. i \in Positions(b) /\ i \in Nat
    BY <1>3 DEF Positions, Spend
  <2>2. client[q] = "waiting" /\ At(q, b, i) /\ age'[q] = age[q]
    BY <1>3, <2>1
  <2>3. age[q] <= (ahead[q] - calls[b][i]) * CallLimit + waited[b]
    BY <2>1, <2>2 DEF Timely
  <2>4. CASE b = a
    <3>1. PICK x \in Int, y \in Int :
             x = ahead[q] - calls[a][i] /\ y = ahead[q] - new[a][i] /\ x + 1 <= y
      <4>1. new[a][i] = calls[a][i] - d /\ calls[a][i] \in Int /\ ahead[q] \in Int
        BY <1>1, <2>1 DEF HistoryTyped, Spent
      <4>2. PICK h \in Int, c \in Int : h = ahead[q] /\ c = calls[a][i]
        BY <4>1
      <4>3. h - c \in Int /\ h - (c - d) \in Int /\ h - c + 1 <= h - (c - d)
        OBVIOUS
      <4> QED BY <4>1, <4>2, <4>3
    <3>2. PICK v \in Int, w \in Int : v = x * CallLimit /\ w = y * CallLimit
      BY Worth
    <3>3. v + CallLimit <= w
      BY <3>1, <3>2, Worth
    <3>4. waited[a] \in Nat /\ waited[a] <= CallLimit /\ CallLimit \in Nat
      BY PoolAssumption DEF PoolInv, PoolTyped
    <3>5. age[q] <= v + waited[a] /\ age[q] \in Nat
      BY <2>3, <2>4, <3>1, <3>2 DEF PoolInv, PoolTyped
    <3>6. age[q] <= w + 0
      BY <3>3, <3>4, <3>5
    <3>7. waited'[a] = 0 /\ ahead'[q] = ahead[q]
      BY DEF PoolInv, PoolTyped, Spend
    <3> QED BY <2>2, <2>4, <3>1, <3>2, <3>6, <3>7
  <2>5. CASE b # a
    <3>1. waited'[b] = waited[b] /\ new[b] = calls[b] /\ ahead'[q] = ahead[q]
      BY <1>1, <2>5 DEF PoolInv, PoolTyped, Spend, Spent
    <3> QED BY <2>2, <2>3, <3>1
  <2> QED BY <2>4, <2>5
<1>4. Timely(new)'
  BY <1>3 DEF Timely
<1> QED BY <1>2, <1>4

LEMMA WaitTick ==
    ASSUME PoolInv, HistoryTyped, Tick,
           NEW calls \in [Actors -> [Nat -> Int]], Sums(calls), Timely(calls)
    PROVE Sums(calls)' /\ Timely(calls)'
<1>1. UNCHANGED <<left, client, chosen, mailbox, current, backlog, ahead>>
  BY DEF Tick, history
<1>2. Sums(calls)'
  BY <1>1, SumsStay
<1>3. ASSUME NEW q \in Requests, NEW b \in Actors, NEW i \in Positions(b)',
             client'[q] = "waiting", At(q, b, i)'
      PROVE age'[q] <= (ahead'[q] - calls[b][i]) * CallLimit + waited'[b]
  <2>1. i \in Positions(b) /\ i >= 0 /\ client[q] = "waiting" /\ At(q, b, i)
    BY <1>1, <1>3 DEF Positions, At
  <2>2. age[q] <= (ahead[q] - calls[b][i]) * CallLimit + waited[b]
    BY <2>1 DEF Timely
  <2>3. PICK x : x = (ahead[q] - calls[b][i]) * CallLimit
    OBVIOUS
  <2>4. waited[b] \in 0..CallLimit /\ CallLimit \in Nat /\ age[q] \in Nat
    BY PoolAssumption DEF PoolInv, PoolTyped
  <2>5. waited'[b] = IF current[b] = NoActor THEN waited[b] ELSE Later(waited[b], CallLimit)
    BY DEF Tick
  <2>6. x \in Int
    <3>1. calls[b][i] \in Int /\ ahead[q] \in Int
      BY <2>1, CallsPositive DEF HistoryTyped
    <3>2. ahead[q] - calls[b][i] \in Int
      BY <3>1
    <3> QED BY <2>3, <3>2, Worth
  <2>7. CASE process = "running"
    <3>1. age'[q] = age[q] + 1
      BY <2>1, <2>7 DEF Tick
    <3>2. current[b] # NoActor
      <4>1. CASE i = 0
        BY <2>1, <4>1, MailboxDomain, ActorsAssumption DEF At, PoolInv
      <4>2. CASE i # 0
        <5>1. mailbox[b] # <<>>
          <6>1. i \in DOMAIN mailbox[b]
            BY <2>1, <4>2 DEF At
          <6> QED BY <6>1
        <5> QED BY <2>7, <5>1 DEF Tick
      <4> QED BY <4>1, <4>2
    <3>3. waited[b] # CallLimit
      BY <3>2 DEF Tick, Overdue
    <3>4. waited'[b] = waited[b] + 1
      BY <2>4, <2>5, <3>2, <3>3 DEF Later
    <3> QED BY <1>1, <2>2, <2>3, <2>4, <2>6, <3>1, <3>4
  <2>8. CASE process # "running"
    <3>1. age'[q] = age[q]
      BY <2>8 DEF Tick, PoolInv, PoolTyped
    <3>2. waited[b] <= waited'[b] /\ waited'[b] \in Nat
      BY <2>4, <2>5 DEF Later
    <3> QED BY <1>1, <2>2, <2>3, <2>4, <2>6, <3>1, <3>2
  <2> QED BY <2>7, <2>8
<1>4. Timely(calls)'
  BY <1>3 DEF Timely
<1> QED BY <1>2, <1>4

LEMMA WaitNext ==
    ASSUME PoolInv, HistoryTyped, NotYetWaited, [Next]_vars,
           NEW calls \in [Actors -> [Nat -> Int]], Sums(calls), Timely(calls)
    PROVE \E new \in [Actors -> [Nat -> Int]] : Sums(new)' /\ Timely(new)'
<1> DEFINE Goal == \E new \in [Actors -> [Nat -> Int]] : Sums(new)' /\ Timely(new)'
<1>1. ASSUME NEW r \in Requests, Refuse(r) PROVE Goal
  <2>1. UNCHANGED <<left, mailbox, current, backlog, waited, ahead>>
    BY <1>1 DEF Refuse, actorVars, history
  <2>2. ASSUME NEW q \in Requests, NEW b \in Actors, NEW i \in Positions(b),
               client'[q] = "waiting", At(q, b, i)'
        PROVE client[q] = "waiting" /\ At(q, b, i) /\ age'[q] = age[q]
    BY <1>1, <2>2 DEF Refuse, actorVars, At, PoolInv, PoolTyped
  <2> QED BY <2>1, <2>2, SumsStay, TimelyStays
<1>2. ASSUME NEW r \in Requests, Route(r) PROVE Goal
  <2>1. UNCHANGED <<left, mailbox, current, backlog, waited, ahead>>
    BY <1>2 DEF Route, actorVars, history
  <2>2. ASSUME NEW q \in Requests, NEW b \in Actors, NEW i \in Positions(b),
               client'[q] = "waiting", At(q, b, i)'
        PROVE client[q] = "waiting" /\ At(q, b, i) /\ age'[q] = age[q]
    <3>1. i \in Int /\ i # -1
      BY DEF Positions
    <3>2. At(q, b, i)
      BY <2>1, <2>2, <3>1 DEF At
    <3>3. q # r
      BY <1>2, <3>1, <3>2 DEF Route, PoolInv, HandedOver
    <3> QED BY <1>2, <2>2, <3>2, <3>3 DEF Route, PoolInv, PoolTyped
  <2> QED BY <2>1, <2>2, SumsStay, TimelyStays
<1>3. ASSUME NEW r \in Requests, Enqueue(r) PROVE Goal
  BY <1>3, WaitEnqueue
<1>4. ASSUME NEW r \in Requests, TimesOut(r) PROVE Goal
  <2>1. UNCHANGED <<left, mailbox, current, backlog, waited, ahead>>
    BY <1>4 DEF TimesOut, actorVars, history
  <2>2. ASSUME NEW q \in Requests, NEW b \in Actors, NEW i \in Positions(b),
               client'[q] = "waiting", At(q, b, i)'
        PROVE client[q] = "waiting" /\ At(q, b, i) /\ age'[q] = age[q]
    BY <1>4, <2>2 DEF TimesOut, actorVars, At, PoolInv, PoolTyped
  <2> QED BY <2>1, <2>2, SumsStay, TimelyStays
<1>5. ASSUME NEW a \in Actors, Begin(a) PROVE Goal
  BY <1>5, WaitBegin
<1>6. ASSUME NEW a \in Actors, NextCall(a) PROVE Goal
  <2>1. PICK r \in Requests : r = current[a]
    BY <1>6 DEF PoolInv, PoolTyped, NextCall
  <2>2. InHand(a)' = left[r] - 1
    <3>1. current' = current /\ left'[r] = left[r] - 1
      BY <1>6, <2>1 DEF NextCall, PoolInv, PoolTyped
    <3> QED BY <2>1, <3>1, ActorsAssumption DEF InHand
  <2>3. Spend(a, r, 1)
    BY <1>6, <2>1, <2>2 DEF Spend, NextCall
  <2>4. ASSUME NEW q \in Requests, NEW b \in Actors, NEW i \in Positions(b),
               client'[q] = "waiting", At(q, b, i)'
        PROVE client[q] = "waiting" /\ At(q, b, i) /\ age'[q] = age[q]
    BY <1>6, <2>4 DEF NextCall, clientVars, At
  <2>5. 1 \in Nat /\ 1 >= 1
    OBVIOUS
  <2> QED BY <2>3, <2>4, <2>5, WaitSpend
<1>7. ASSUME NEW a \in Actors, Complete(a) PROVE Goal
  <2>1. PICK r \in Requests : r = current[a]
    BY <1>7 DEF PoolInv, PoolTyped, Complete
  <2>2. PICK d \in Nat : d = left[r] /\ d >= 1
    <3>1. At(r, a, 0)
      BY <2>1 DEF At
    <3>2. left[r] \in Nat /\ left[r] > 0
      BY <3>1 DEF PoolInv, PoolTyped, HandedOver
    <3> QED BY <3>2
  <2>3. left[r] - d = 0
    BY <2>2
  <2>4. InHand(a)' = left[r] - d
    <3>1. current'[a] = NoActor
      BY <1>7 DEF Complete, PoolInv, PoolTyped
    <3> QED BY <2>3, <3>1 DEF InHand
  <2>5. \A b \in Actors \ {a} : current'[b] = current[b]
    BY <1>7 DEF Complete, PoolInv, PoolTyped
  <2>6. Spend(a, r, d)
    BY <1>7, <2>1, <2>2, <2>3, <2>4, <2>5 DEF Spend, Complete
  <2>7. ASSUME NEW q \in Requests, NEW b \in Actors, NEW i \in Positions(b),
               client'[q] = "waiting", At(q, b, i)'
        PROVE client[q] = "waiting" /\ At(q, b, i) /\ age'[q] = age[q]
    <3>1. i \in Int
      BY DEF Positions
    <3>2. At(q, b, i) /\ q # r
      BY <1>7, <2>1, <2>7, <3>1, CompleteMoves DEF PoolInv
    <3> QED BY <1>7, <2>1, <2>7, <3>2 DEF Complete, PoolInv, PoolTyped
  <2> QED BY <2>2, <2>6, <2>7, WaitSpend
<1>8. ASSUME Tick PROVE Goal
  BY <1>8, WaitTick
<1>9. ASSUME UNCHANGED <<left, mailbox, current, backlog, waited, ahead, client, age, chosen>>
      PROVE Goal
  <2>1. ASSUME NEW q \in Requests, NEW b \in Actors, NEW i \in Positions(b),
               client'[q] = "waiting", At(q, b, i)'
        PROVE client[q] = "waiting" /\ At(q, b, i) /\ age'[q] = age[q]
    BY <1>9, <2>1 DEF At
  <2> QED BY <1>9, <2>1, SumsStay, TimelyStays
<1>10. ASSUME Exit PROVE Goal
  <2>1. PICK new \in [Actors -> [Nat -> Int]] : \A a \in Actors, i \in Nat : new[a][i] = 0
    <3>1. [a \in Actors |-> [i \in Nat |-> 0]] \in [Actors -> [Nat -> Int]]
      OBVIOUS
    <3> QED BY <3>1
  <2>2. ASSUME NEW a \in Actors
        PROVE /\ current'[a] = NoActor /\ mailbox'[a] = <<>> /\ backlog'[a] = 0
              /\ Len(mailbox'[a]) = 0
    <3>1. mailbox'[a] = <<>>
      BY <1>10 DEF Exit
    <3> QED BY <1>10, <3>1 DEF Exit
  <2>3. Sums(new)'
    BY <2>1, <2>2 DEF Sums, InHand, Positions
  <2>4. ASSUME NEW q \in Requests, NEW b \in Actors, NEW i \in Positions(b)',
               client'[q] = "waiting"
        PROVE FALSE
    BY <1>10, <2>4 DEF Exit
  <2>5. Timely(new)'
    BY <2>4 DEF Timely
  <2> QED BY <2>3, <2>5
<1>11. Terminate => Goal
  BY <1>9 DEF Terminate, clientVars, actorVars, history
<1>12. UNCHANGED vars => Goal
  BY <1>9 DEF vars, clientVars, actorVars, history
<1> HIDE DEF Goal
<1>13. Goal
  BY <1>1, <1>2, <1>3, <1>4, <1>5, <1>6, <1>7, <1>8, <1>10, <1>11, <1>12, PoolCases
<1> QED BY <1>13 DEF Goal

LEMMA HistoryTypedNext ==
    PoolInv /\ HistoryTyped /\ [Next]_vars => HistoryTyped'
<1> SUFFICES ASSUME PoolInv, HistoryTyped, [Next]_vars PROVE HistoryTyped'
  OBVIOUS
<1>1. ASSUME UNCHANGED history PROVE HistoryTyped'
  BY <1>1 DEF history, HistoryTyped
<1>2. ASSUME NEW r \in Requests, Enqueue(r) PROVE HistoryTyped'
  <2>1. PICK a \in Actors : a = chosen[r]
    BY <1>2, Enqueued DEF PoolInv
  <2>2. backlog[a] + left[r] \in Int
    BY DEF HistoryTyped, PoolInv, PoolTyped
  <2> QED BY <1>2, <2>1, <2>2 DEF Enqueue, HistoryTyped
<1>3. ASSUME NEW a \in Actors, NextCall(a) PROVE HistoryTyped'
  BY <1>3 DEF NextCall, HistoryTyped
<1>4. ASSUME NEW a \in Actors, Complete(a) PROVE HistoryTyped'
  <2>1. PICK r \in Requests : r = current[a]
    BY <1>4 DEF PoolInv, PoolTyped, Complete
  <2>2. backlog[a] - left[r] \in Int
    BY DEF HistoryTyped, PoolInv, PoolTyped
  <2> QED BY <1>4, <2>1, <2>2 DEF Complete, HistoryTyped
<1>5. ASSUME Exit PROVE HistoryTyped'
  BY <1>5 DEF Exit, HistoryTyped
<1>6. ASSUME NEW r \in Requests, Refuse(r) PROVE HistoryTyped'
  BY <1>1, <1>6 DEF Refuse
<1>7. ASSUME NEW r \in Requests, Route(r) PROVE HistoryTyped'
  BY <1>1, <1>7 DEF Route
<1>8. ASSUME NEW r \in Requests, TimesOut(r) PROVE HistoryTyped'
  BY <1>1, <1>8 DEF TimesOut
<1>9. ASSUME NEW a \in Actors, Begin(a) PROVE HistoryTyped'
  BY <1>1, <1>9 DEF Begin
<1>10. Tick => HistoryTyped'
  BY <1>1 DEF Tick
<1>11. Terminate => HistoryTyped'
  BY <1>1 DEF Terminate
<1>12. UNCHANGED vars => HistoryTyped'
  BY <1>1 DEF vars
<1> QED BY <1>2, <1>3, <1>4, <1>5, <1>6, <1>7, <1>8, <1>9, <1>10, <1>11, <1>12,
           PoolCases

(* A client that has waited for RequestTimeout had that much ahead of it. *)
LEMMA TimedOutIsOverdue ==
    ASSUME PoolInv, HistoryTyped, NotYetWaited, Kept, NEW r \in Requests, TimesOut(r),
           NEW calls, Sums(calls), Timely(calls)
    PROVE ahead[r] * CallLimit >= RequestTimeout
<1>1. client[r] = "waiting" /\ age[r] = RequestTimeout /\ RequestTimeout > 0
  BY PoolAssumption DEF TimesOut
<1>2. PICK a \in Actors, i \in Int : At(r, a, i)
  BY <1>1 DEF Kept
<1>3. chosen[r] = NoActor
  BY <1>1 DEF NotYetWaited
<1>4. i \in Positions(a)
  <2>1. i >= 0
    BY <1>2, <1>3, MailboxDomain, ActorsAssumption DEF At, PoolInv
  <2> QED BY <1>2, <2>1, AtPosition DEF PoolInv
<1>5. PICK c \in Int, h \in Int : c = calls[a][i] /\ h = ahead[r] /\ c >= 1
  BY <1>2, <1>4, CallsPositive DEF HistoryTyped
<1>6. RequestTimeout <= (h - c) * CallLimit + waited[a]
  BY <1>1, <1>2, <1>4, <1>5 DEF Timely
<1>7. PICK v \in Int, w \in Int : v = (h - c) * CallLimit /\ w = h * CallLimit
  <2>1. h - c \in Int
    OBVIOUS
  <2> QED BY <2>1, Worth
<1>8. v + CallLimit <= w
  <2>1. h - c \in Int /\ h - c + 1 <= h
    BY <1>5
  <2> QED BY <1>7, <2>1, Worth
<1>9. waited[a] \in 0..CallLimit /\ CallLimit \in Nat /\ RequestTimeout \in Nat
  BY PoolAssumption DEF PoolInv, PoolTyped
<1>10. RequestTimeout <= w
  BY <1>6, <1>7, <1>8, <1>9
<1> QED BY <1>5, <1>7, <1>9, <1>10

LEMMA OverdueNext ==
    ASSUME PoolInv, WaitInv, [Next]_vars
    PROVE OnlyOverdueTimesOut'
<1> USE DEF PoolInv, OnlyOverdueTimesOut
<1>1. HistoryTyped /\ NotYetWaited /\ Kept /\ OnlyOverdueTimesOut
  BY DEF WaitInv
<1>2. ASSUME \A r \in Requests : client'[r] = "timedOut" => client[r] = "timedOut",
             UNCHANGED ahead
      PROVE OnlyOverdueTimesOut'
  BY <1>1, <1>2
<1>3. ASSUME NEW r \in Requests, Refuse(r) PROVE OnlyOverdueTimesOut'
  BY <1>2, <1>3 DEF Refuse, history, PoolTyped
<1>4. ASSUME NEW r \in Requests, Route(r) PROVE OnlyOverdueTimesOut'
  BY <1>2, <1>4 DEF Route, history, PoolTyped
<1>5. ASSUME NEW r \in Requests, Enqueue(r) PROVE OnlyOverdueTimesOut'
  <2>1. client' = client /\ client[r] = "waiting"
    BY <1>1, <1>5 DEF Enqueue, clientVars, NotYetWaited
  <2>2. ASSUME NEW q \in Requests \ {r} PROVE ahead'[q] = ahead[q]
    BY <1>1, <1>5 DEF Enqueue, HistoryTyped
  <2> QED BY <1>1, <2>1, <2>2
<1>6. ASSUME NEW r \in Requests, TimesOut(r) PROVE OnlyOverdueTimesOut'
  <2>1. ahead[r] * CallLimit >= RequestTimeout
    BY <1>1, <1>6, TimedOutIsOverdue DEF WaitInv
  <2>2. ASSUME NEW q \in Requests \ {r} PROVE client'[q] = client[q]
    BY <1>6 DEF TimesOut, PoolTyped
  <2>3. ahead' = ahead
    BY <1>6 DEF TimesOut, history
  <2> QED BY <1>1, <2>1, <2>2, <2>3
<1>7. ASSUME NEW a \in Actors, Begin(a) PROVE OnlyOverdueTimesOut'
  BY <1>2, <1>7 DEF Begin, clientVars, history
<1>8. ASSUME NEW a \in Actors, NextCall(a) PROVE OnlyOverdueTimesOut'
  BY <1>2, <1>8 DEF NextCall, clientVars
<1>9. ASSUME NEW a \in Actors, Complete(a) PROVE OnlyOverdueTimesOut'
  <2>1. ASSUME NEW q \in Requests, client'[q] = "timedOut" PROVE client[q] = "timedOut"
    BY <1>9, <2>1 DEF Complete, PoolTyped
  <2>2. ahead' = ahead
    BY <1>9 DEF Complete
  <2> QED BY <1>2, <2>1, <2>2
<1>10. Tick => OnlyOverdueTimesOut'
  BY <1>2 DEF Tick, history
<1>11. Terminate => OnlyOverdueTimesOut'
  BY <1>2 DEF Terminate, clientVars, history
<1>12. Exit => OnlyOverdueTimesOut'
  BY <1>2 DEF Exit, PoolTyped
<1>13. UNCHANGED vars => OnlyOverdueTimesOut'
  BY <1>2 DEF vars, clientVars, history
<1> QED BY <1>3, <1>4, <1>5, <1>6, <1>7, <1>8, <1>9, <1>10, <1>11, <1>12, <1>13,
           PoolCases

LEMMA WaitInit == Init => WaitInv
<1> SUFFICES ASSUME Init PROVE WaitInv
  OBVIOUS
<1>1. HistoryTyped /\ NotYetWaited /\ Kept /\ OnlyOverdueTimesOut
  BY DEF Init, HistoryTyped, NotYetWaited, Kept, OnlyOverdueTimesOut
<1>2. PICK calls \in [Actors -> [Nat -> Int]] :
         calls = [a \in Actors |-> [n \in Nat |-> 0]]
  <2>1. [n \in Nat |-> 0] \in [Nat -> Int]
    OBVIOUS
  <2>2. [a \in Actors |-> [n \in Nat |-> 0]] \in [Actors -> [Nat -> Int]]
    BY <2>1
  <2> QED BY <2>2
<1>3. Sums(calls)
  BY <1>2, SumsInit
<1>4. Timely(calls)
  BY DEF Timely, Init
<1> QED BY <1>1, <1>3, <1>4 DEF WaitInv

LEMMA WaitInvHolds == Spec => []WaitInv
<1>1. PoolInv /\ WaitInv /\ [Next]_vars => WaitInv'
  <2> SUFFICES ASSUME PoolInv, WaitInv, [Next]_vars PROVE WaitInv'
    OBVIOUS
  <2>1. HistoryTyped' /\ NotYetWaited' /\ Kept'
    BY HistoryTypedNext, NotYetWaitedNext, KeptNext DEF WaitInv
  <2>2. OnlyOverdueTimesOut'
    BY OverdueNext
  <2>3. PICK calls \in [Actors -> [Nat -> Int]] : Sums(calls) /\ Timely(calls)
    BY DEF WaitInv
  <2>4. \E new \in [Actors -> [Nat -> Int]] : Sums(new)' /\ Timely(new)'
    BY <2>3, WaitNext DEF WaitInv
  <2> QED BY <2>1, <2>2, <2>4 DEF WaitInv
<1> QED BY <1>1, WaitInit, PoolInvHolds, PTL DEF Spec

(* Whatever the messages, the actors and the limits: a client is told 503   *)
(* only when the calls that were ahead of its message when it was queued,   *)
(* and its own, each at its limit, make up the timeout.                     *)
(* ApplicationMain.scala:56-74, Helpers.scala:24-38.                        *)
THEOREM OnlyOverdueIsTimedOut == Spec => []OnlyOverdueTimesOut
<1>1. WaitInv => OnlyOverdueTimesOut
  BY DEF WaitInv
<1> QED BY <1>1, WaitInvHolds, PTL

(* A message whose client waits is with the pool, in one place: the router  *)
(* has picked an actor, it waits in a mailbox, or it is served.             *)
(* ApplicationMain.scala:56-74.                                             *)
THEOREM WaitedForIsHeld == Spec => []Kept
<1>1. WaitInv => Kept
  BY DEF WaitInv
<1> QED BY <1>1, WaitInvHolds, PTL
==============================================================================
