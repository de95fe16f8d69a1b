------------------------ MODULE SchemaRefinementProofs ------------------------
(***************************************************************************)
(* That SchemaService implements WorkerPool in every instance, and         *)
(* SchemaRegistry in those with one actor where no call fails.             *)
(***************************************************************************)
EXTENDS SchemaRefinement, SchemaServiceProofs

(***************************************************************************)
(* The pool: a step of one request moves that request alone from stage to  *)
(* stage, and the database moves none.                                     *)
(***************************************************************************)
LEMMA StageOf ==
    \A r \in Requests :
       /\ phase[r] \in Serving => Stage[r] = "serving"
       /\ phase[r] = "answered" => Stage[r] = "done"
       /\ phase[r] \in {"unsent", "queued", "lost"} => Stage[r] = phase[r]
BY DEF Stage, Serving

LEMMA StageMoves ==
    ASSUME NEW r \in Requests, NEW p,
           TypeOK, phase' = [phase EXCEPT ![r] = p]
    PROVE /\ p \in Serving => Stage' = [Stage EXCEPT ![r] = "serving"]
          /\ p = "answered" => Stage' = [Stage EXCEPT ![r] = "done"]
          /\ p = "queued" => Stage' = [Stage EXCEPT ![r] = "queued"]
BY DEF TypeOK, Stage, Serving

LEMMA StageStays ==
    ASSUME UNCHANGED phase
    PROVE UNCHANGED Stage
BY DEF Stage

(* Between two calls of one request its stage does not change. *)
LEMMA StageServing ==
    ASSUME NEW r \in Requests, NEW p \in Serving, TypeOK, phase[r] \in Serving,
           phase' = [phase EXCEPT ![r] = p]
    PROVE UNCHANGED Stage
<1>1. ASSUME NEW q \in Requests PROVE phase'[q] \in Serving <=> phase[q] \in Serving
  BY DEF TypeOK
<1>2. ASSUME NEW q \in Requests, phase[q] \notin Serving PROVE phase'[q] = phase[q]
  BY <1>2 DEF TypeOK
<1> QED BY <1>1, <1>2 DEF Stage

(* WorkerPool counts with the same Cardinality. *)
LEMMA SameCardinality == \A S : Workers!Cardinality(S) = Cardinality(S)
BY DEF Workers!Cardinality, Cardinality

LEMMA RoomIsRoom ==
    ASSUME TypeOK, Cardinality(InService) < PoolSize
    PROVE Workers!HasRoom
<1>1. ASSUME NEW r \in Requests PROVE Stage[r] = "serving" <=> phase[r] \in Serving
  BY DEF TypeOK, Phases, Stage, Serving
<1>2. Workers!In("serving") = InService
  BY <1>1 DEF Workers!In, InService
<1> QED BY <1>2, SameCardinality DEF Workers!HasRoom

LEMMA PoolStep ==
    ASSUME TypeOK, [Next]_vars
    PROVE Workers!Next \/ UNCHANGED Stage
<1> USE StageOf, StageMoves, StageStays, StageServing
<1>1. ASSUME NEW r \in Requests, Send(r) PROVE Workers!Next
  <2>1. Stage[r] = "unsent" /\ Stage' = [Stage EXCEPT ![r] = "queued"]
    BY <1>1 DEF Send, Goto
  <2> QED BY <2>1 DEF Workers!Next, Workers!Send, Workers!Move
<1>2. ASSUME NEW r \in Requests, Take(r) PROVE Workers!Next
  <2>1. FirstCall(message[r]) \in Serving
    BY MessagesAssumption DEF FirstCall, Operations, Serving, TypeOK
  <2>2. Stage[r] = "queued" /\ Stage' = [Stage EXCEPT ![r] = "serving"]
    BY <1>2, <2>1 DEF Take, Goto
  <2>3. Workers!HasRoom
    BY <1>2, RoomIsRoom DEF Take
  <2> QED BY <2>2, <2>3 DEF Workers!Next, Workers!Take, Workers!Move
<1>3. ASSUME NEW r \in Requests, RejectInvalid(r) PROVE Workers!Next
  <2>1. Stage[r] = "queued" /\ Stage' = [Stage EXCEPT ![r] = "done"]
    BY <1>3 DEF RejectInvalid, Finish
  <2>2. Workers!HasRoom
    BY <1>3, RoomIsRoom DEF RejectInvalid
  <2> QED BY <2>1, <2>2 DEF Workers!Next, Workers!Dismiss, Workers!Move
<1>4. ASSUME NEW r \in Requests, phase[r] \in Serving,
             phase' = [phase EXCEPT ![r] = "answered"]
      PROVE Workers!Next
  <2>1. Stage[r] = "serving" /\ Stage' = [Stage EXCEPT ![r] = "done"]
    BY <1>4
  <2> QED BY <2>1 DEF Workers!Next, Workers!Finish, Workers!Move
<1>5. ASSUME NEW r \in Requests,
             FindExact(r) \/ ReadLastMajor(r) \/ ReadLastMinor(r) \/ FindDoomed(r)
      PROVE Workers!Next \/ UNCHANGED Stage
  <2>1. phase[r] \in Serving
    BY <1>5 DEF FindExact, ReadLastMajor, ReadLastMinor, FindDoomed, Serving
  <2>2. \/ phase' = [phase EXCEPT ![r] = "answered"]
        \/ \E p \in Serving : phase' = [phase EXCEPT ![r] = p]
    BY <1>5 DEF FindExact, ReadLastMajor, ReadLastMinor, FindDoomed, Finish, Goto,
                Serving
  <2> QED BY <1>4, <2>1, <2>2
<1>6. ASSUME NEW r \in Requests,
             \/ AnswerInsert(r) \/ GetByName(r) \/ GetVersion(r)
             \/ AnswerDelete(r) \/ CallFails(r)
      PROVE Workers!Next
  <2>1. phase[r] \in Serving /\ phase' = [phase EXCEPT ![r] = "answered"]
    BY <1>6 DEF AnswerInsert, GetByName, GetVersion, AnswerDelete, CallFails,
                InService, Finish, Serving
  <2> QED BY <1>4, <2>1
<1>7. ASSUME NEW r \in Requests, ApplyInsert(r) \/ ApplyDelete(r)
      PROVE UNCHANGED Stage
  BY <1>7 DEF ApplyInsert, ApplyDelete
<1>8. CASE Crash
  <2>1. Stage' = [r \in Requests |-> IF Stage[r] \in {"queued", "serving"}
                                     THEN "lost" ELSE Stage[r]]
    BY <1>8 DEF Crash, Stage, Serving, TypeOK, Phases
  <2> QED BY <2>1 DEF Workers!Next, Workers!Stop
<1>9. CASE UNCHANGED vars
  BY <1>9 DEF vars
<1> QED BY <1>1, <1>2, <1>3, <1>5, <1>6, <1>7, <1>8, <1>9, NextCases

(* The schema actors are a pool of PoolSize workers, through failures, late  *)
(* writes and the stop of the process: every step serves, answers or drops   *)
(* requests as WorkerPool allows, or is invisible to it.                     *)
THEOREM ServiceImplementsWorkerPool == Spec => ImplementsWorkerPool
<1>1. Init => Workers!Init
  BY DEF Init, Workers!Init, Stage, Serving
<1>2. TypeOK /\ [Next]_vars => [Workers!Next]_Stage
  BY PoolStep
<1> QED BY <1>1, <1>2, TypeCorrect, PTL
        DEF Spec, ImplementsWorkerPool, Workers!Spec

-----------------------------------------------------------------------------
(***************************************************************************)
(* One actor, and no call that fails: the request in service is alone with *)
(* the collection, so what its reads found still holds when the database   *)
(* executes its write.                                                     *)
(***************************************************************************)
OneActorNoFaults == PoolSize = 1 /\ ~MayFail /\ ~MayCrash

NoDuplicateSeed ==
    \A d, e \in Seed :
       <<d.name, d.majorVersion, d.minorVersion>>
          = <<e.name, e.majorVersion, e.minorVersion>> => d = e

InsertPending(r) == phase[r] = "insert" /\ write[r] = "issued"
DeletePending(r) == phase[r] = "delete" /\ write[r] = "issued"

NothingLost ==
    \A r \in Requests : /\ phase[r] # "lost"
                        /\ write[r] = "issued" => InsertPending(r) \/ DeletePending(r)

(* What the request in service has found out, and what holds still. *)
Learned(r) ==
    /\ phase[r] \in {"findExact", "lastMajor", "lastMinor", "insert"} =>
          ~Invalid(message[r])
    /\ phase[r] \in {"lastMajor", "lastMinor"} \/ InsertPending(r) => ~Exists(r)
    /\ phase[r] = "lastMinor" \/ InsertPending(r) => ~SkipsMajor(r)
    /\ InsertPending(r) => LastMinorRead(r) + 1 = message[r].minorVersion
    /\ DeletePending(r) => \E d \in MatchingRequest(r) : found[r] = {d}
    /\ message[r].op = "create" => found[r] = {}

SerialInv == NothingLost /\ NoDuplicates /\ \A r \in Requests : Learned(r)

LEMMA OneInService ==
    ASSUME OneActorNoFaults, PoolInv, NEW p \in InService, NEW q \in InService
    PROVE p = q
<1>1. IsFiniteSet(InService) /\ Cardinality(InService) <= 1
  BY DEF OneActorNoFaults, PoolInv
<1>2. {p, q} \subseteq InService
  OBVIOUS
<1>3. IsFiniteSet({p, q}) /\ Cardinality({p, q}) <= Cardinality(InService)
  BY <1>1, <1>2, FS_Subset
<1>4. Cardinality({p, q}) \in Nat /\ Cardinality(InService) \in Nat
  BY <1>1, <1>3, FS_CardinalityType
<1>5. Cardinality({p, q}) <= 1
  BY <1>1, <1>3, <1>4
<1>6. ASSUME p # q PROVE FALSE
  <2>1. IsFiniteSet({p}) /\ Cardinality({p}) = 1
    BY FS_Singleton
  <2>2. Cardinality({p} \cup {q}) = 2
    BY <1>6, <2>1, FS_AddElement
  <2>3. {p} \cup {q} = {p, q}
    OBVIOUS
  <2> QED BY <1>5, <2>2, <2>3
<1> QED BY <1>6

(* A step of one request, or of the database for it, leaves the others be. *)
LEMMA OthersStay ==
    ASSUME TypeOK, NEW r \in Requests, NEW q \in Requests, q # r,
           RequestStep(r) \/ ApplyInsert(r) \/ ApplyDelete(r)
    PROVE /\ phase'[q] = phase[q] /\ answer'[q] = answer[q]
          /\ write'[q] = write[q] /\ found'[q] = found[q]
          /\ effect'[q] = effect[q]
<1> USE DEF TypeOK, requestVars, storeVars
<1>1. CASE \/ Send(r) \/ Take(r) \/ RejectInvalid(r) \/ FindExact(r)
           \/ ReadLastMajor(r) \/ ReadLastMinor(r) \/ AnswerInsert(r)
           \/ AnswerDelete(r) \/ CallFails(r)
  BY <1>1 DEF Send, Take, RejectInvalid, FindExact, ReadLastMajor, ReadLastMinor,
     AnswerInsert, AnswerDelete, CallFails, Finish, Goto, Issue
<1>2. CASE GetByName(r) \/ GetVersion(r) \/ FindDoomed(r)
  BY <1>2 DEF GetByName, GetVersion, FindDoomed, FindFirst, Finish, Goto, Issue
<1>3. CASE ApplyInsert(r) \/ ApplyDelete(r)
  BY <1>3 DEF ApplyInsert, ApplyDelete
<1> QED BY <1>1, <1>2, <1>3 DEF RequestStep

LEMMA LearnedStays ==
    ASSUME NEW r \in Requests, Learned(r), UNCHANGED <<schemas, message>>,
           phase'[r] = phase[r], write'[r] = write[r], found'[r] = found[r]
    PROVE Learned(r)'
<1>1. /\ MatchingRequest(r)' = MatchingRequest(r)
      /\ Exists(r)' <=> Exists(r)
      /\ SkipsMajor(r)' <=> SkipsMajor(r)
      /\ LastMinorRead(r)' = LastMinorRead(r)
  BY DEF MatchingRequest, Exists, SkipsMajor, LastMinorRead
<1> QED BY <1>1 DEF Learned, InsertPending, DeletePending

(* What each call of the request itself adds to what it knows. *)
LEMMA LearnedNext ==
    ASSUME OneActorNoFaults, TypeOK, WriteInv, NEW r \in Requests, Learned(r),
           RequestStep(r)
    PROVE Learned(r)'
<1> USE DEF TypeOK, WriteInv, PhaseFitsOperation, OneWrite, BeforeWrite,
            InsertPending, DeletePending, requestVars, storeVars
<1>1. UNCHANGED <<schemas, message>>
  BY StoreUnchanged
<1>2. /\ MatchingRequest(r)' = MatchingRequest(r)
      /\ Exists(r)' <=> Exists(r)
      /\ SkipsMajor(r)' <=> SkipsMajor(r)
      /\ LastMinorRead(r)' = LastMinorRead(r)
  BY <1>1 DEF MatchingRequest, Exists, SkipsMajor, LastMinorRead
<1>3. CASE Send(r)
  BY <1>1, <1>2, <1>3 DEF Learned, Send, Goto
<1>4. CASE Take(r)
  <2>1. /\ message[r].op = "create" => FirstCall(message[r]) = "findExact"
        /\ FirstCall(message[r]) \in {"findExact", "getByName", "getVersion",
                                      "findDoomed"}
        /\ FirstCall(message[r]) = "findExact" => message[r].op = "create"
    BY MessagesAssumption DEF FirstCall, Operations
  <2> QED BY <1>1, <1>2, <1>4, <2>1 DEF Learned, Take, Goto
<1>5. CASE RejectInvalid(r) \/ AnswerInsert(r) \/ AnswerDelete(r) \/ CallFails(r)
  BY <1>1, <1>2, <1>5 DEF Learned, RejectInvalid, AnswerInsert, AnswerDelete,
                          CallFails, Finish
<1>6. CASE FindExact(r)
  BY <1>1, <1>2, <1>6 DEF Learned, FindExact, Finish, Goto
<1>7. CASE ReadLastMajor(r)
  BY <1>1, <1>2, <1>7 DEF Learned, ReadLastMajor, Finish, Goto
<1>8. CASE ReadLastMinor(r)
  BY <1>1, <1>2, <1>8 DEF Learned, ReadLastMinor, Issue, Finish, Goto
<1>9. CASE GetByName(r) \/ GetVersion(r)
  <2>1. message[r].op # "create" /\ phase'[r] = "answered"
    BY <1>9 DEF GetByName, GetVersion, Finish
  <2> QED BY <1>1, <2>1 DEF Learned
<1>10. CASE FindDoomed(r)
  <2>1. message[r].op = "delete"
    BY <1>10 DEF FindDoomed
  <2>2. CASE phase'[r] = "answered"
    BY <1>1, <2>1, <2>2 DEF Learned
  <2>3. CASE phase'[r] = "delete"
    <3>1. \E d \in MatchingRequest(r) : found'[r] = {d}
      BY <1>10, <2>3 DEF FindDoomed, FindFirst, Finish
    <3> QED BY <1>1, <1>2, <2>1, <2>3, <3>1 DEF Learned
  <2> QED BY <1>10, <2>2, <2>3 DEF FindDoomed, Finish, Goto
<1> QED BY <1>3, <1>4, <1>5, <1>6, <1>7, <1>8, <1>9, <1>10 DEF RequestStep

LEMMA NothingLostNext ==
    ASSUME OneActorNoFaults, TypeOK, WriteInv, NothingLost, [Next]_vars
    PROVE NothingLost'
<1> USE DEF TypeOK, WriteInv, OneWrite, BeforeWrite, NothingLost, InsertPending,
            DeletePending, OneActorNoFaults, requestVars, storeVars
<1>1. ASSUME NEW r \in Requests,
             \/ Send(r) \/ RejectInvalid(r) \/ FindExact(r) \/ ReadLastMajor(r)
             \/ ReadLastMinor(r) \/ AnswerInsert(r) \/ AnswerDelete(r)
      PROVE NothingLost'
  BY <1>1 DEF Send, RejectInvalid, FindExact, ReadLastMajor, ReadLastMinor,
     AnswerInsert, AnswerDelete, Finish, Goto, Issue
<1>2. ASSUME NEW r \in Requests, Take(r) PROVE NothingLost'
  <2>1. FirstCall(message[r]) # "lost"
    BY MessagesAssumption DEF FirstCall, Operations
  <2> QED BY <1>2, <2>1 DEF Take, Goto
<1>3. ASSUME NEW r \in Requests, GetByName(r) \/ GetVersion(r) \/ FindDoomed(r)
      PROVE NothingLost'
  BY <1>3 DEF GetByName, GetVersion, FindDoomed, Finish, Goto, Issue
<1>4. ASSUME NEW r \in Requests, ApplyInsert(r) \/ ApplyDelete(r)
      PROVE NothingLost'
  BY <1>4 DEF ApplyInsert, ApplyDelete
<1>5. ~Crash /\ \A r \in Requests : ~CallFails(r)
  BY DEF Crash, CallFails
<1>6. CASE UNCHANGED vars
  BY <1>6 DEF vars
<1> QED BY <1>1, <1>2, <1>3, <1>4, <1>5, <1>6, NextCases

(* The request whose write the database executes is the one in service. *)
LEMMA PendingIsAlone ==
    ASSUME OneActorNoFaults, PoolInv, NothingLost,
           NEW r \in Requests, write[r] = "issued"
    PROVE /\ r \in InService
          /\ \A q \in Requests : q # r => phase[q] \notin Serving
<1>1. r \in InService
  BY DEF NothingLost, InsertPending, DeletePending, InService, Serving
<1> QED BY <1>1, OneInService DEF InService

LEMMA SerialNext ==
    ASSUME OneActorNoFaults, TypeOK, WriteInv, PoolInv, SerialInv, [Next]_vars
    PROVE SerialInv'
<1>1. NothingLost'
  BY NothingLostNext DEF SerialInv
<1>2. ASSUME NEW r \in Requests, RequestStep(r)
      PROVE NoDuplicates' /\ \A q \in Requests : Learned(q)'
  <2>1. UNCHANGED <<schemas, message>>
    BY <1>2, StoreUnchanged
  <2>2. Learned(r)'
    BY <1>2, LearnedNext DEF SerialInv
  <2>3. ASSUME NEW q \in Requests, q # r PROVE Learned(q)'
    BY <1>2, <2>1, <2>3, OthersStay, LearnedStays DEF SerialInv
  <2> QED BY <2>1, <2>2, <2>3 DEF SerialInv, NoDuplicates
<1>3. ASSUME NEW r \in Requests, ApplyInsert(r) \/ ApplyDelete(r)
      PROVE \A q \in Requests : Learned(q)'
  <2>1. /\ UNCHANGED <<phase, found, message>>
        /\ write[r] = "issued"
        /\ write' = [write EXCEPT ![r] = "done"]
    BY <1>3 DEF ApplyInsert, ApplyDelete, requestVars
  <2>2. Learned(r)'
    <3>1. phase[r] \in {"insert", "delete"} /\ write'[r] # "issued"
      BY <2>1 DEF TypeOK, SerialInv, NothingLost, InsertPending, DeletePending
    <3> QED BY <2>1, <3>1 DEF SerialInv, Learned, InsertPending, DeletePending
  <2>3. ASSUME NEW q \in Requests, q # r PROVE Learned(q)'
    <3>1. phase[q] \notin Serving
      BY <2>1, <2>3, PendingIsAlone DEF SerialInv
    <3> QED BY <2>1, <3>1 DEF SerialInv, Learned, InsertPending, DeletePending,
                              Serving
  <2> QED BY <2>2, <2>3
<1>4. ASSUME NEW r \in Requests, ApplyInsert(r) PROVE NoDuplicates'
  <2>1. schemas' \subseteq schemas \cup {DocumentOf(r)}
    BY <1>4 DEF ApplyInsert
  <2>2. ~Exists(r)
    <3>1. write[r] = "issued" /\ message[r].op = "create"
      BY <1>4 DEF ApplyInsert
    <3>2. InsertPending(r)
      BY <3>1 DEF SerialInv, NothingLost, DeletePending, WriteInv,
                  PhaseFitsOperation
    <3> QED BY <3>2 DEF SerialInv, Learned
  <2>3. \A d \in schemas : <<d.name, d.majorVersion, d.minorVersion>>
                              # <<DocumentOf(r).name, DocumentOf(r).majorVersion,
                                  DocumentOf(r).minorVersion>>
    BY <2>2 DEF Exists, MatchingRequest, Matching, OfMajor, Named, DocumentOf
  <2> QED BY <2>1, <2>3 DEF SerialInv, NoDuplicates
<1>5. ASSUME NEW r \in Requests, ApplyDelete(r) PROVE NoDuplicates'
  <2>1. schemas' \subseteq schemas
    BY <1>5, DeleteEffect
  <2> QED BY <2>1 DEF SerialInv, NoDuplicates
<1>6. CASE UNCHANGED vars
  BY <1>1, <1>6, LearnedStays DEF SerialInv, NoDuplicates, vars
<1>7. ~Crash
  BY DEF Crash, OneActorNoFaults
<1> QED BY <1>1, <1>2, <1>3, <1>4, <1>5, <1>6, <1>7, NextCases
           DEF SerialInv, RequestStep

LEMMA SerialInit ==
    ASSUME NoDuplicateSeed, Init
    PROVE SerialInv
BY DEF Init, NoDuplicateSeed, SerialInv, NothingLost, NoDuplicates, Learned,
       InsertPending, DeletePending

LEMMA SerialCorrect ==
    ASSUME OneActorNoFaults, NoDuplicateSeed
    PROVE Spec => []SerialInv
<1>1. Init => SerialInv
  BY SerialInit
<1>2. TypeOK /\ WriteInv /\ PoolInv /\ SerialInv /\ [Next]_vars => SerialInv'
  BY SerialNext
<1> QED BY <1>1, <1>2, TypeCorrect, WriteCorrect, PoolIsBounded, PTL DEF Spec

(* With one actor and no failed call no version is ever stored twice: the    *)
(* duplicates of a deployment come from its other actors and from timeouts.  *)
THEOREM OneActorStoresNoDuplicates ==
    ASSUME OneActorNoFaults, NoDuplicateSeed
    PROVE Spec => []NoDuplicates
<1>1. SerialInv => NoDuplicates
  BY DEF SerialInv
<1> QED BY <1>1, SerialCorrect, PTL

-----------------------------------------------------------------------------
(***************************************************************************)
(* The step that decides on a request is the step SchemaRegistry serves it *)
(* in; every other step leaves the verdicts, the reports and the           *)
(* collection as they are.                                                 *)
(***************************************************************************)

(* SchemaRegistry asks the same queries. *)
LEMMA SameQueries ==
    /\ \A docs, n : Registry!Named(docs, n) = Named(docs, n)
    /\ \A docs, n, M, m : Registry!Matching(docs, n, M, m) = Matching(docs, n, M, m)
    /\ \A docs, n : Registry!LastMajorVersion(docs, n) = LastMajorVersion(docs, n)
    /\ \A docs, n, M :
          Registry!LastMinorVersion(docs, n, M) = LastMinorVersion(docs, n, M)
<1>1. \A docs, n : Registry!Named(docs, n) = Named(docs, n)
  BY DEF Registry!Named, Named
<1>2. \A docs, n, M : Registry!OfMajor(docs, n, M) = OfMajor(docs, n, M)
  BY <1>1 DEF Registry!OfMajor, OfMajor
<1>3. \A docs, n, M, m : Registry!Matching(docs, n, M, m) = Matching(docs, n, M, m)
  BY <1>2 DEF Registry!Matching, Matching
<1>4. \A numbers : Registry!Highest(numbers) = Highest(numbers)
  BY DEF Registry!Highest, Highest
<1> QED
  BY <1>1, <1>2, <1>3, <1>4 DEF Registry!LastMajorVersion, LastMajorVersion,
     Registry!LastMinorVersion, LastMinorVersion

(* The judgement of one collection, in the terms of the actor's checks. *)
LEMMA JudgementIs ==
    ASSUME NEW r \in Requests
    PROVE LET m == message[r]
              judgement == Registry!Judgement(m)
          IN  /\ Invalid(m) =>
                    judgement = IF m.majorVersion < 1 THEN "badMajor"
                                ELSE IF m.minorVersion < 1 THEN "badMinor"
                                ELSE "blankApplication"
              /\ ~Invalid(m) =>
                    judgement = IF Exists(r) THEN "exists"
                                ELSE IF SkipsMajor(r) THEN "skipsMajor"
                                ELSE IF LastMinorRead(r) + 1 # m.minorVersion
                                THEN "skipsMinor" ELSE "created"
BY SameQueries DEF Registry!Judgement, Invalid, Exists, MatchingRequest, SkipsMajor,
   LastMinorRead

LEMMA VerdictOf ==
    ASSUME NEW r \in Requests
    PROVE /\ write[r] # "done" => Verdict[r] = answer[r]
          /\ write[r] = "done" /\ effect[r] = {} => Verdict[r] = "error"
          /\ write[r] = "done" /\ effect[r] # {} =>
                Verdict[r] = IF message[r].op = "create" THEN "created" ELSE "ok"
          /\ Verdict[r] = "none" => Reported[r] = {}
          /\ Verdict[r] # "none" => Reported[r] = found[r]
BY DEF Verdict, Reported

(* A request that is not decided on has reported nothing. *)
LEMMA Undecided ==
    ASSUME WriteInv, NEW r \in Requests, phase[r] # "answered", write[r] # "done"
    PROVE Verdict[r] = "none" /\ Reported[r] = {}
BY VerdictOf DEF WriteInv, OneWrite

(* A step of one request decides on no other. *)
LEMMA OneDecided ==
    ASSUME TypeOK, NEW r \in Requests,
           RequestStep(r) \/ ApplyInsert(r) \/ ApplyDelete(r)
    PROVE /\ Verdict' = [Verdict EXCEPT ![r] = Verdict'[r]]
          /\ Reported' = [Reported EXCEPT ![r] = Reported'[r]]
          /\ Verdict'[r] = Verdict[r] => Verdict' = Verdict
          /\ Reported'[r] = Reported[r] => Reported' = Reported
<1>1. message' = message
  BY StoreUnchanged DEF ApplyInsert, ApplyDelete, requestVars
<1>2. ASSUME NEW q \in Requests, q # r
      PROVE Verdict'[q] = Verdict[q] /\ Reported'[q] = Reported[q]
  BY <1>1, <1>2, OthersStay DEF Verdict, Reported
<1>3. /\ Verdict = [q \in Requests |-> Verdict[q]]
      /\ Verdict' = [q \in Requests |-> Verdict'[q]]
      /\ Reported = [q \in Requests |-> Reported[q]]
      /\ Reported' = [q \in Requests |-> Reported'[q]]
  BY DEF Verdict, Reported
<1>4. Verdict' = [Verdict EXCEPT ![r] = Verdict'[r]]
  BY <1>2, <1>3
<1>5. Reported' = [Reported EXCEPT ![r] = Reported'[r]]
  BY <1>2, <1>3
<1>6. Verdict'[r] = Verdict[r] => Verdict' = Verdict
  BY <1>2, <1>3
<1>7. Reported'[r] = Reported[r] => Reported' = Reported
  BY <1>2, <1>3
<1> QED BY <1>4, <1>5, <1>6, <1>7

(* The calls after which a request is still undecided, and the answer to a   *)
(* write that was decided on when the database executed it.                  *)
LEMMA InvisibleSteps ==
    ASSUME TypeOK, WriteInv, NEW r \in Requests, RequestStep(r),
           \/ phase'[r] # "answered" /\ write'[r] # "done" /\ write[r] # "done"
           \/ AnswerInsert(r) \/ AnswerDelete(r)
    PROVE UNCHANGED Registry!vars
<1> USE DEF TypeOK, WriteInv, OneWrite
<1>1. UNCHANGED <<schemas, effect, message>>
  BY StoreUnchanged
<1>2. CASE phase'[r] # "answered" /\ write'[r] # "done" /\ write[r] # "done"
  <2>1. phase[r] # "answered" /\ answer'[r] = "none"
    BY <1>2 DEF RequestStep, Send, Take, RejectInvalid, FindExact, ReadLastMajor,
       ReadLastMinor, AnswerInsert, GetByName, GetVersion, FindDoomed,
       AnswerDelete, CallFails, Finish, Goto, InService, Serving
  <2>2. Verdict[r] = "none" /\ Reported[r] = {}
    BY <1>2, <2>1, Undecided
  <2>3. Verdict'[r] = "none" /\ Reported'[r] = {}
    BY <1>2, <2>1 DEF Verdict, Reported
  <2>4. Verdict' = Verdict /\ Reported' = Reported
    BY <2>2, <2>3, OneDecided
  <2> QED BY <1>1, <2>4 DEF Registry!vars
<1>3. CASE AnswerInsert(r) \/ AnswerDelete(r)
  <2>1. write[r] = "done" /\ UNCHANGED <<write, found>>
    BY <1>3 DEF AnswerInsert, AnswerDelete, storeVars
  <2>2. Verdict'[r] = Verdict[r] /\ Reported'[r] = Reported[r]
    BY <1>1, <2>1 DEF Verdict, Reported
  <2>3. Verdict' = Verdict /\ Reported' = Reported
    BY <2>2, OneDecided
  <2> QED BY <1>1, <2>3 DEF Registry!vars
<1> QED BY <1>2, <1>3

(* A create is refused by the check that SchemaRegistry's judgement fails at. *)
LEMMA RefusedCreate ==
    ASSUME TypeOK, WriteInv, SerialInv, NEW r \in Requests,
           \/ RejectInvalid(r)
           \/ FindExact(r) /\ Exists(r)
           \/ ReadLastMajor(r) /\ SkipsMajor(r)
           \/ ReadLastMinor(r) /\ LastMinorRead(r) + 1 # message[r].minorVersion
    PROVE Registry!Serve(r)
<1> DEFINE judgement == Registry!Judgement(message[r])
<1> USE DEF TypeOK, requestVars, storeVars
<1>1. RequestStep(r)
  BY DEF RequestStep
<1>2. message[r].op = "create"
  BY DEF RejectInvalid, FindExact, ReadLastMajor, ReadLastMinor, WriteInv,
         PhaseFitsOperation
<1>3. phase[r] \in BeforeWrite /\ phase[r] # "answered"
  BY DEF RejectInvalid, FindExact, ReadLastMajor, ReadLastMinor, BeforeWrite
<1>4. write[r] = "none" /\ found[r] = {}
  BY <1>2, <1>3 DEF WriteInv, OneWrite, SerialInv, Learned
<1>5. /\ UNCHANGED <<schemas, message, write, effect, found>>
      /\ answer'[r] = judgement /\ judgement # "created"
  <2>1. CASE RejectInvalid(r)
    BY <2>1, JudgementIs DEF RejectInvalid, Finish
  <2>2. CASE FindExact(r) /\ Exists(r)
    <3>1. ~Invalid(message[r])
      BY <2>2 DEF FindExact, SerialInv, Learned
    <3> QED BY <2>2, <3>1, JudgementIs DEF FindExact, Finish
  <2>3. CASE ReadLastMajor(r) /\ SkipsMajor(r)
    <3>1. ~Invalid(message[r]) /\ ~Exists(r)
      BY <2>3 DEF ReadLastMajor, SerialInv, Learned
    <3> QED BY <2>3, <3>1, JudgementIs DEF ReadLastMajor, Finish
  <2>4. CASE ReadLastMinor(r) /\ LastMinorRead(r) + 1 # message[r].minorVersion
    <3>1. ~Invalid(message[r]) /\ ~Exists(r) /\ ~SkipsMajor(r)
      BY <2>4 DEF ReadLastMinor, SerialInv, Learned
    <3> QED BY <2>4, <3>1, JudgementIs DEF ReadLastMinor, Finish
  <2> QED BY <2>1, <2>2, <2>3, <2>4
<1>6. Verdict[r] = "none" /\ Reported[r] = {}
  BY <1>3, <1>4, Undecided
<1>7. Verdict'[r] = judgement /\ Reported'[r] = Reported[r]
  BY <1>4, <1>5, <1>6 DEF Verdict, Reported
<1>8. Verdict' = [Verdict EXCEPT ![r] = judgement] /\ Reported' = Reported
  BY <1>1, <1>7, OneDecided
<1> QED BY <1>2, <1>5, <1>6, <1>8 DEF Registry!Serve, Registry!Create,
           Registry!Decide

(* The database inserts the document of the create it is judged "created" by. *)
LEMMA AcceptedCreate ==
    ASSUME OneActorNoFaults, UniqueIndexes = {}, TypeOK, WriteInv, SerialInv,
           NEW r \in Requests, ApplyInsert(r)
    PROVE Registry!Serve(r)
<1> USE DEF TypeOK, requestVars
<1>1. /\ write[r] = "issued" /\ message[r].op = "create"
      /\ UNCHANGED <<phase, answer, found, message>>
      /\ write' = [write EXCEPT ![r] = "done"]
  BY DEF ApplyInsert
<1>2. InsertPending(r)
  BY <1>1 DEF SerialInv, NothingLost, DeletePending, WriteInv, PhaseFitsOperation
<1>3. Registry!Judgement(message[r]) = "created"
  BY <1>2, JudgementIs DEF SerialInv, Learned, InsertPending
<1>4. /\ schemas' = schemas \cup {DocumentOf(r)}
      /\ effect' = [effect EXCEPT ![r] = {DocumentOf(r)}]
  BY DEF ApplyInsert, Refused
<1>5. Verdict[r] = "none" /\ Reported[r] = {}
  BY <1>2, Undecided DEF InsertPending
<1>6. found[r] = {}
  BY <1>1 DEF SerialInv, Learned
<1>7. Verdict'[r] = "created" /\ Reported'[r] = {}
  BY <1>1, <1>4, <1>6 DEF Verdict, Reported
<1>8. Verdict' = [Verdict EXCEPT ![r] = "created"] /\ Reported' = Reported
  BY <1>5, <1>7, OneDecided
<1> QED BY <1>1, <1>3, <1>4, <1>5, <1>8 DEF Registry!Serve, Registry!Create,
           Registry!Decide, DocumentOf

LEMMA ServedRead ==
    ASSUME TypeOK, WriteInv, NEW r \in Requests, GetByName(r) \/ GetVersion(r)
    PROVE Registry!Serve(r)
<1> USE DEF TypeOK, requestVars, storeVars
<1>1. RequestStep(r)
  BY DEF RequestStep
<1>2. /\ phase[r] \in BeforeWrite /\ phase[r] # "answered"
      /\ UNCHANGED <<schemas, message, write, effect>>
  BY DEF GetByName, GetVersion, BeforeWrite
<1>3. write[r] = "none"
  BY <1>2 DEF WriteInv, OneWrite
<1>4. Verdict[r] = "none" /\ Reported[r] = {}
  BY <1>2, <1>3, Undecided
<1>5. answer'[r] = IF found'[r] = {} THEN "notFound" ELSE "ok"
  BY DEF GetByName, GetVersion, Finish
<1>6. Verdict'[r] = answer'[r] /\ Reported'[r] = found'[r]
  BY <1>2, <1>3, <1>5 DEF Verdict, Reported
<1>7. /\ Verdict' = [Verdict EXCEPT ![r] = IF found'[r] = {} THEN "notFound" ELSE "ok"]
      /\ Reported' = [Reported EXCEPT ![r] = found'[r]]
  BY <1>1, <1>5, <1>6, OneDecided
<1>8. CASE GetByName(r)
  <2>1. message[r].op = "get"
    BY <1>8 DEF GetByName, WriteInv, PhaseFitsOperation
  <2>2. found'[r] = Registry!Named(schemas, message[r].name)
    BY <1>8, SameQueries DEF GetByName
  <2> QED BY <1>2, <1>4, <1>7, <2>1, <2>2 DEF Registry!Serve, Registry!Get,
             Registry!Report, Registry!Decide
<1>9. CASE GetVersion(r)
  <2>1. message[r].op = "getVersion"
    BY <1>9 DEF GetVersion, WriteInv, PhaseFitsOperation
  <2>2. MatchingRequest(r) = Registry!Versioned(r)
    BY SameQueries DEF MatchingRequest, Registry!Versioned
  <2>3. \/ Registry!Versioned(r) = {} /\ found'[r] = {}
        \/ \E d \in Registry!Versioned(r) : found'[r] = {d}
    BY <1>9, <2>2 DEF GetVersion, FindFirst
  <2> QED BY <1>2, <1>4, <1>7, <2>1, <2>3 DEF Registry!Serve, Registry!GetVersion,
             Registry!Report, Registry!Decide
<1> QED BY <1>8, <1>9

(* A delete that finds nothing is decided on when it looks ... *)
LEMMA RefusedDelete ==
    ASSUME TypeOK, WriteInv, NEW r \in Requests, FindDoomed(r), found'[r] = {}
    PROVE Registry!Serve(r)
<1> USE DEF TypeOK, requestVars, storeVars
<1>1. RequestStep(r)
  BY DEF RequestStep
<1>2. /\ phase[r] = "findDoomed" /\ answer'[r] = "notFound"
      /\ UNCHANGED <<schemas, message, write, effect>>
  BY DEF FindDoomed, Finish
<1>3. write[r] = "none" /\ message[r].op = "delete"
  BY <1>2 DEF WriteInv, OneWrite, BeforeWrite, PhaseFitsOperation
<1>4. Verdict[r] = "none" /\ Reported[r] = {}
  BY <1>2, <1>3, Undecided
<1>5. Verdict'[r] = "notFound" /\ Reported'[r] = {}
  BY <1>2, <1>3 DEF Verdict, Reported
<1>6. /\ Verdict' = [Verdict EXCEPT ![r] = "notFound"]
      /\ Reported' = [Reported EXCEPT ![r] = {}]
  BY <1>1, <1>5, OneDecided
<1>7. MatchingRequest(r) = {}
  BY DEF FindDoomed, FindFirst
<1>8. Registry!Versioned(r) = {}
  BY <1>7, SameQueries DEF MatchingRequest, Registry!Versioned
<1> QED BY <1>2, <1>3, <1>4, <1>6, <1>8 DEF Registry!Serve, Registry!Delete,
           Registry!Report, Registry!Decide

(* ... and one that found a document when the database removes it: with one  *)
(* copy of each version it is the document the answer will report.           *)
LEMMA ServedDelete ==
    ASSUME OneActorNoFaults, TypeOK, WriteInv, SerialInv,
           NEW r \in Requests, ApplyDelete(r)
    PROVE Registry!Serve(r)
<1> USE DEF TypeOK, requestVars
<1>1. /\ write[r] = "issued" /\ message[r].op = "delete"
      /\ UNCHANGED <<phase, answer, found, message>>
      /\ write' = [write EXCEPT ![r] = "done"]
  BY DEF ApplyDelete
<1>2. DeletePending(r)
  BY <1>1 DEF SerialInv, NothingLost, InsertPending, WriteInv, PhaseFitsOperation
<1>3. PICK d \in MatchingRequest(r) : found[r] = {d}
  BY <1>2 DEF SerialInv, Learned
<1>4. PICK e \in MatchingRequest(r) : /\ schemas' = schemas \ {e}
                                      /\ effect' = [effect EXCEPT ![r] = {e}]
  BY <1>3 DEF ApplyDelete, TakenOut
<1>5. d = e
  BY <1>3, <1>4, MatchingIsOfVersion DEF SerialInv, NoDuplicates, OfVersionAsked
<1>6. Verdict[r] = "none" /\ Reported[r] = {}
  BY <1>2, Undecided DEF DeletePending
<1>7. Verdict'[r] = "ok" /\ Reported'[r] = {d}
  BY <1>1, <1>3, <1>4 DEF Verdict, Reported
<1>8. /\ Verdict' = [Verdict EXCEPT ![r] = "ok"]
      /\ Reported' = [Reported EXCEPT ![r] = {d}]
  BY <1>7, OneDecided
<1>9. d \in Registry!Versioned(r)
  BY <1>3, SameQueries DEF MatchingRequest, Registry!Versioned
<1> QED BY <1>1, <1>4, <1>5, <1>6, <1>8, <1>9 DEF Registry!Serve, Registry!Delete,
           Registry!Report, Registry!Decide

LEMMA RegistryStep ==
    ASSUME OneActorNoFaults, UniqueIndexes = {}, TypeOK, WriteInv, SerialInv,
           [Next]_vars
    PROVE [Registry!Next]_Registry!vars
<1> USE DEF TypeOK, requestVars, storeVars
<1>1. ASSUME NEW r \in Requests, Registry!Serve(r) PROVE Registry!Next
  BY <1>1 DEF Registry!Next
<1>2. ASSUME NEW r \in Requests, RequestStep(r),
             phase'[r] # "answered", write'[r] # "done", write[r] # "done"
      PROVE UNCHANGED Registry!vars
  BY <1>2, InvisibleSteps
<1>3. ASSUME NEW r \in Requests, Send(r) PROVE UNCHANGED Registry!vars
  <2>1. phase'[r] = "queued" /\ write[r] = "none" /\ UNCHANGED write
    BY <1>3 DEF Send, Goto, WriteInv, OneWrite, BeforeWrite
  <2> QED BY <1>2, <1>3, <2>1 DEF RequestStep
<1>4. ASSUME NEW r \in Requests, Take(r) PROVE UNCHANGED Registry!vars
  <2>1. FirstCall(message[r]) # "answered"
    BY MessagesAssumption DEF FirstCall, Operations
  <2>2. phase'[r] # "answered" /\ write[r] = "none" /\ UNCHANGED write
    BY <1>4, <2>1 DEF Take, Goto, WriteInv, OneWrite, BeforeWrite
  <2> QED BY <1>2, <1>4, <2>2 DEF RequestStep
<1>5. ASSUME NEW r \in Requests, RejectInvalid(r) PROVE Registry!Next
  BY <1>1, <1>5, RefusedCreate
<1>6. ASSUME NEW r \in Requests,
             FindExact(r) \/ ReadLastMajor(r) \/ ReadLastMinor(r)
      PROVE Registry!Next \/ UNCHANGED Registry!vars
  <2>1. CASE \/ FindExact(r) /\ Exists(r)
             \/ ReadLastMajor(r) /\ SkipsMajor(r)
             \/ ReadLastMinor(r) /\ LastMinorRead(r) + 1 # message[r].minorVersion
    BY <1>1, <2>1, RefusedCreate
  <2>2. CASE \/ FindExact(r) /\ ~Exists(r)
             \/ ReadLastMajor(r) /\ ~SkipsMajor(r)
             \/ ReadLastMinor(r) /\ LastMinorRead(r) + 1 = message[r].minorVersion
    <3>1. write[r] = "none"
      BY <2>2 DEF FindExact, ReadLastMajor, ReadLastMinor, WriteInv, OneWrite,
                  BeforeWrite
    <3>2. phase'[r] # "answered" /\ write'[r] # "done"
      BY <2>2, <3>1 DEF FindExact, ReadLastMajor, ReadLastMinor, Issue, Goto
    <3> QED BY <1>2, <1>6, <3>1, <3>2 DEF RequestStep
  <2> QED BY <1>6, <2>1, <2>2
<1>7. ASSUME NEW r \in Requests, AnswerInsert(r) \/ AnswerDelete(r)
      PROVE UNCHANGED Registry!vars
  BY <1>7, InvisibleSteps DEF RequestStep
<1>8. ASSUME NEW r \in Requests, GetByName(r) \/ GetVersion(r) PROVE Registry!Next
  BY <1>1, <1>8, ServedRead
<1>9. ASSUME NEW r \in Requests, FindDoomed(r)
      PROVE Registry!Next \/ UNCHANGED Registry!vars
  <2>1. CASE found'[r] = {}
    BY <1>1, <1>9, <2>1, RefusedDelete
  <2>2. CASE found'[r] # {}
    <3>1. /\ phase'[r] = "delete" /\ write[r] = "none"
          /\ write'[r] = "issued"
      BY <1>9, <2>2 DEF FindDoomed, Goto, Issue, WriteInv, OneWrite, BeforeWrite
    <3> QED BY <1>2, <1>9, <3>1 DEF RequestStep
  <2> QED BY <2>1, <2>2
<1>10. ASSUME NEW r \in Requests, ApplyInsert(r) \/ ApplyDelete(r)
       PROVE Registry!Next
  BY <1>1, <1>10, AcceptedCreate, ServedDelete
<1>11. ~Crash /\ \A r \in Requests : ~CallFails(r)
  BY DEF Crash, CallFails, OneActorNoFaults
<1>12. CASE UNCHANGED vars
  BY <1>12 DEF vars, Registry!vars, Verdict, Reported
<1> QED BY <1>3, <1>4, <1>5, <1>6, <1>7, <1>8, <1>9, <1>10, <1>11, <1>12, NextCases

(* With one actor, no failed call and no index, the schema endpoints behave  *)
(* as if every request were decided on in one step: each answer is the one   *)
(* SchemaRegistry gives on the collection of a single moment, and a delete   *)
(* removes the very document it reports.                                     *)
THEOREM OneActorImplementsRegistry ==
    ASSUME OneActorNoFaults, NoDuplicateSeed, UniqueIndexes = {}
    PROVE Spec => ImplementsRegistry
<1>1. Init => Registry!Init
  BY DEF Init, Registry!Init, Verdict, Reported
<1>2. TypeOK /\ WriteInv /\ SerialInv /\ [Next]_vars => [Registry!Next]_Registry!vars
  BY RegistryStep
<1> QED BY <1>1, <1>2, TypeCorrect, WriteCorrect, SerialCorrect, PTL
        DEF Spec, ImplementsRegistry, Registry!Spec
==============================================================================
