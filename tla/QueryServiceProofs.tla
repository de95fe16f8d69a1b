-------------------------- MODULE QueryServiceProofs --------------------------
(***************************************************************************)
(* Theorems about the actors that read the schemas collection while the    *)
(* schema actors write it, for every instance of QueryService.             *)
(***************************************************************************)
EXTENDS QueryService, SchemaVisibilityProofs, WellFoundedInduction

(* A step is one of one query, of the schema actors, or a stop.  Each is     *)
(* recorded in the history.                                                  *)
QueryRequestStep(q) ==
    \/ QSend(q) \/ QTake(q)
    \/ FindExactMatch(q) \/ FindPriorMinor(q)
    \/ ReadLastOfPriorMajor(q) \/ FindPriorMajor(q)
    \/ GetAll(q) \/ QueryFails(q)

LEMMA QueryCases ==
    ASSUME [QueryNext]_systemVars
    PROVE \/ /\ \E q \in Queries : QueryRequestStep(q)
             /\ UNCHANGED <<asked, vars>>
             /\ Observe
          \/ SchemaStep /\ Observe
          \/ Stop /\ Observe
          \/ UNCHANGED systemVars
BY DEF QueryNext, QueryStep, QueryRequestStep

(* To the schema actors each is a step of theirs or none. *)
LEMMA QueryStepIsSchemaStep ==
    ASSUME TypeOK, [QueryNext]_systemVars
    PROVE [Next]_vars
<1>1. CASE SchemaStep
  BY <1>1 DEF SchemaStep, Next
<1>2. CASE Stop
  <2>1. \A r \in Requests : phase[r] \notin QueryServing
    BY DEF TypeOK, Phases, Serving, QueryServing
  <2>2. phase' = [r \in Requests |-> IF phase[r] \in Serving \cup {"queued"}
                                     THEN "lost" ELSE phase[r]]
    BY <1>2, <2>1 DEF Stop
  <2>3. CASE \E r \in Requests : phase[r] \in Serving \cup {"queued"}
    BY <1>2, <2>2, <2>3 DEF Stop, Crash, Next
  <2>4. CASE \A r \in Requests : phase[r] \notin Serving \cup {"queued"}
    <3>1. phase' = phase
      BY <2>2, <2>4 DEF TypeOK
    <3> QED BY <1>2, <3>1 DEF Stop, vars, requestVars, storeVars
  <2> QED BY <2>3, <2>4
<1>3. CASE UNCHANGED vars
  BY <1>3
<1> QED BY <1>1, <1>2, <1>3, QueryCases DEF systemVars

(* The queries take nothing from the schema actors: beside them the schema   *)
(* service behaves as it does alone.                                         *)
THEOREM QueriesLeaveServiceAlone == QuerySpec => Spec
<1>1. QueryInit => Init /\ TypeOK
  BY TypeInit DEF QueryInit
<1>2. TypeOK /\ [QueryNext]_systemVars => [Next]_vars
  BY QueryStepIsSchemaStep
<1>3. TypeOK /\ [QueryNext]_systemVars => TypeOK'
  BY <1>2, TypeNext
<1> QED BY <1>1, <1>2, <1>3, PTL DEF QuerySpec, Spec

-----------------------------------------------------------------------------
(***************************************************************************)
(* What a check can rely on in the collection: it is finite, and no create *)
(* stores a version below 1.1.                                             *)
(***************************************************************************)
PastValidation(r) ==
    /\ message[r].op = "create"
    /\ \/ phase[r] \in {"findExact", "lastMajor", "lastMinor", "insert"}
       \/ write[r] # "none"

ValidInv == \A r \in Requests : PastValidation(r) => ~Invalid(message[r])

LEMMA ValidNext ==
    ASSUME TypeOK, WriteInv, ValidInv, [Next]_vars
    PROVE ValidInv'
<1> SUFFICES ASSUME NEW r \in Requests, PastValidation(r)'
             PROVE PastValidation(r) \/ ~Invalid(message[r])
  <2>1. message' = message
    BY MessagesStay
  <2> QED BY <2>1 DEF ValidInv, Invalid
<1> USE DEF PastValidation, TypeOK, requestVars, storeVars
<1>1. ASSUME NEW q \in Requests, RequestStep(q)
      PROVE PastValidation(r) \/ ~Invalid(message[r])
  <2>1. CASE Take(q)
    BY <2>1 DEF Take, Goto
  <2>2. CASE Send(q) \/ RejectInvalid(q) \/ FindExact(q) \/ ReadLastMajor(q)
    BY <2>2 DEF Send, RejectInvalid, FindExact, ReadLastMajor, Finish, Goto,
                WriteInv, PhaseFitsOperation
  <2>3. CASE ReadLastMinor(q)
    BY <2>3 DEF ReadLastMinor, Issue, Finish, Goto, WriteInv, PhaseFitsOperation
  <2>4. CASE AnswerInsert(q) \/ GetByName(q) \/ GetVersion(q) \/ AnswerDelete(q)
             \/ CallFails(q)
    BY <2>4 DEF AnswerInsert, GetByName, GetVersion, AnswerDelete, CallFails, Finish
  <2>5. CASE FindDoomed(q)
    <3>1. message[q].op = "delete"
      BY <2>5 DEF FindDoomed, WriteInv, PhaseFitsOperation
    <3> QED BY <2>5, <3>1 DEF FindDoomed, Issue, Finish, Goto
  <2> QED BY <1>1, <2>1, <2>2, <2>3, <2>4, <2>5 DEF RequestStep
<1>2. ASSUME NEW q \in Requests, ApplyInsert(q) \/ ApplyDelete(q)
      PROVE PastValidation(r)
  BY <1>2 DEF ApplyInsert, ApplyDelete
<1>3. CASE Crash
  BY <1>3 DEF Crash
<1>4. CASE UNCHANGED vars
  BY <1>4 DEF vars
<1> QED BY <1>1, <1>2, <1>3, <1>4, NextCases DEF RequestStep

(* What a create stores has the version that passed the validation. *)
LEMMA InsertedIsValid ==
    ASSUME TypeOK, WriteInv, ValidInv, NEW d \in Inserted
    PROVE /\ d.majorVersion \in Nat \ {0}
          /\ d.minorVersion \in Nat \ {0}
<1>1. PICK r \in By("create") : d \in effect[r]
  BY DEF Inserted
<1>2. r \in Requests /\ d = DocumentOf(r) /\ PastValidation(r)
  BY <1>1 DEF By, WriteInv, OwnEffect, OneWrite, PastValidation
<1>3. message[r].majorVersion \in Int /\ message[r].minorVersion \in Int
  BY <1>2, MessagesAssumption DEF TypeOK
<1>4. ~(message[r].majorVersion < 1) /\ ~(message[r].minorVersion < 1)
  BY <1>2 DEF ValidInv, Invalid
<1>5. /\ d.majorVersion = message[r].majorVersion
      /\ d.minorVersion = message[r].minorVersion
  BY <1>2 DEF DocumentOf
<1> QED BY <1>3, <1>4, <1>5

LEMMA ValidCorrect == Spec => []ValidInv
<1>1. Init => ValidInv
  BY DEF Init, ValidInv, PastValidation
<1>2. TypeOK /\ WriteInv /\ ValidInv /\ [Next]_vars => ValidInv'
  BY ValidNext
<1> QED BY <1>1, <1>2, TypeCorrect, WriteCorrect, PTL DEF Spec

LEMMA FiniteStoreNext ==
    ASSUME TypeOK, WriteInv, IsFiniteSet(schemas), [Next]_vars
    PROVE IsFiniteSet(schemas')
<1>1. \/ schemas' \subseteq schemas
      \/ \E r \in Requests : schemas' = schemas \cup {DocumentOf(r)}
  <2>1. ASSUME NEW r \in Requests, ApplyInsert(r)
        PROVE schemas' = schemas \/ schemas' = schemas \cup {DocumentOf(r)}
    BY <2>1 DEF ApplyInsert
  <2>2. ASSUME NEW r \in Requests, ApplyDelete(r) PROVE schemas' \subseteq schemas
    BY <2>2 DEF ApplyDelete, TakenOut
  <2> QED BY <2>1, <2>2, StoreCases
<1>2. CASE schemas' \subseteq schemas
  BY <1>2, FS_Subset
<1>3. ASSUME NEW r \in Requests, schemas' = schemas \cup {DocumentOf(r)}
      PROVE IsFiniteSet(schemas')
  BY <1>3, FS_AddElement
<1> QED BY <1>1, <1>2, <1>3

LEMMA FiniteStore ==
    ASSUME IsFiniteSet(Seed)
    PROVE Spec => []IsFiniteSet(schemas)
<1>1. Init => IsFiniteSet(schemas)
  BY DEF Init
<1>2. TypeOK /\ WriteInv /\ IsFiniteSet(schemas) /\ [Next]_vars
         => IsFiniteSet(schemas)'
  BY FiniteStoreNext
<1> QED BY <1>1, <1>2, TypeCorrect, WriteCorrect, PTL DEF Spec

-----------------------------------------------------------------------------
(* The two version queries of a finite collection return the highest version *)
(* number there is: a check that looks for the last version of a major       *)
(* version finds a document when there is one.                               *)
LEMMA LeastNatural ==
    ASSUME NEW T \in SUBSET Nat, T # {}
    PROVE \E x \in T : \A y \in T : x <= y
<1>1. PICK x \in T : \A y \in T : ~ (<<y, x>> \in OpToRel(<, Nat))
  BY NatLessThanWellFounded, WFMin, Zenon
<1>2. \A y \in T : ~(y < x)
  BY <1>1 DEF OpToRel
<1> QED BY <1>2

LEMMA FiniteHasHighest ==
    ASSUME NEW S \in SUBSET Int, IsFiniteSet(S), S # {}
    PROVE \E n \in S : \A k \in S : k <= n
<1> DEFINE above(n) == {k \in S : k > n}
           counts == {Cardinality(above(n)) : n \in S}
<1>1. \A n \in S : IsFiniteSet(above(n)) /\ Cardinality(above(n)) \in Nat
  BY FS_Subset, FS_CardinalityType
<1>2. PICK n \in S : \A k \in S : Cardinality(above(n)) <= Cardinality(above(k))
  <2>1. counts \in SUBSET Nat /\ counts # {}
    BY <1>1
  <2>2. PICK c \in counts : \A y \in counts : c <= y
    BY <2>1, LeastNatural
  <2> QED BY <2>2
<1>3. ASSUME NEW k \in S, k > n PROVE FALSE
  <2>1. above(k) \subseteq above(n) /\ k \in above(n) /\ k \notin above(k)
    <3>1. \A j \in S : j \in Int /\ n \in Int /\ k \in Int
      OBVIOUS
    <3>2. \A j \in S : j > k => j > n
      BY <1>3, <3>1
    <3>3. k > n /\ ~(k > k)
      BY <1>3, <3>1
    <3> QED BY <3>2, <3>3
  <2> HIDE DEF above
  <2>2. /\ Cardinality(above(k)) <= Cardinality(above(n))
        /\ Cardinality(above(n)) = Cardinality(above(k)) => above(n) = above(k)
    BY <1>1, <2>1, FS_Subset
  <2>3. Cardinality(above(n)) <= Cardinality(above(k))
    BY <1>2
  <2> QED BY <1>1, <2>1, <2>2, <2>3
<1> QED BY <1>3

LEMMA HighestOfFinite ==
    ASSUME NEW S \in SUBSET Int, IsFiniteSet(S), S # {}
    PROVE Highest(S) \in S /\ \A k \in S : k <= Highest(S)
<1> DEFINE tops == {n \in S : \A k \in S : k <= n}
<1>1. tops # {}
  BY FiniteHasHighest
<1>2. Highest(S) \in tops
  BY <1>1 DEF Highest
<1> QED BY <1>2

LEMMA LastMinorIsHeld ==
    ASSUME NEW docs, IsFiniteSet(docs), \A d \in docs : d.minorVersion \in Int,
           NEW n, NEW M, OfMajor(docs, n, M) # {}
    PROVE Matching(docs, n, M, LastMinorVersion(docs, n, M)) # {}
<1> DEFINE held == OfMajor(docs, n, M)
           minors == {d.minorVersion : d \in held}
           f == [d \in held |-> d.minorVersion]
<1>1. held \subseteq docs
  BY QueriesSelect
<1>2. IsFiniteSet(held)
  BY <1>1, FS_Subset
<1>3. f \in Surjection(held, minors)
  BY DEF Surjection
<1>4. IsFiniteSet(minors)
  BY <1>2, <1>3, FS_Surjection
<1>5. minors \in SUBSET Int /\ minors # {}
  BY <1>1
<1>6. Highest(minors) \in minors
  BY <1>4, <1>5, HighestOfFinite
<1> QED BY <1>6 DEF LastMinorVersion, Matching

-----------------------------------------------------------------------------
(* The history a step leaves behind. *)
LEMMA Observed ==
    ASSUME Observe, NEW q \in Queries
    PROVE LET served == qphase'[q] \in QueryServing /\ asked[q].op = "check"
          IN  /\ judgements'[q] = IF served
                                  THEN judgements[q] \cup {Judged(schemas', asked[q])}
                                  ELSE judgements[q]
              /\ removed'[q] <=> \/ removed[q]
                                 \/ /\ served
                                    /\ \E d \in schemas \ schemas' :
                                          d.name = asked[q].name
<1>1. judgements' = [p \in Queries |->
                       IF qphase'[p] \in QueryServing /\ asked[p].op = "check"
                       THEN judgements[p] \cup {Judged(schemas', asked[p])}
                       ELSE judgements[p]]
  BY DEF Observe
<1>2. removed' = [p \in Queries |->
                    \/ removed[p]
                    \/ /\ p \in {o \in Queries : qphase'[o] \in QueryServing
                                                   /\ asked[o].op = "check"}
                       /\ \E d \in schemas \ schemas' : d.name = asked[p].name]
  BY DEF Observe
<1>3. removed'[q] <=> \/ removed[q]
                      \/ /\ qphase'[q] \in QueryServing /\ asked[q].op = "check"
                         /\ \E d \in schemas \ schemas' : d.name = asked[q].name
  BY <1>2, Zenon
<1> QED BY <1>1, <1>3

LEMMA JudgedVerdict ==
    ASSUME NEW docs, NEW m
    PROVE Judged(docs, m).verdict \in Verdicts
BY DEF Judged, Verdicts

(* What an answer is made of. *)
QueryAnswer(q, v, docs) ==
    /\ qphase' = [qphase EXCEPT ![q] = "answered"]
    /\ verdict' = [verdict EXCEPT ![q] = v]
    /\ baseline' = [baseline EXCEPT ![q] = docs]
    /\ UNCHANGED <<lastMinor, qknown>>

LEMMA QueryStepCases ==
    ASSUME NEW q \in Queries, QueryRequestStep(q)
    PROVE \/ QSend(q)
          \/ QTake(q)
          \/ /\ qphase[q] = "exact"
             /\ \/ \E d \in Exact(schemas, asked[q]) : QueryAnswer(q, "same", {d})
                \/ /\ Exact(schemas, asked[q]) = {}
                   /\ qphase' = [qphase EXCEPT ![q] = "priorMinor"]
                   /\ UNCHANGED <<answerVars, qknown>>
          \/ /\ qphase[q] = "priorMinor"
             /\ \/ \E d \in PriorMinor(schemas, asked[q]) :
                      QueryAnswer(q, "minorUpgrade", {d})
                \/ /\ PriorMinor(schemas, asked[q]) = {}
                   /\ qphase' = [qphase EXCEPT ![q] = "lastOfPriorMajor"]
                   /\ UNCHANGED <<answerVars, qknown>>
          \/ /\ qphase[q] = "lastOfPriorMajor"
             /\ qphase' = [qphase EXCEPT ![q] = "priorMajor"]
             /\ lastMinor' = [lastMinor EXCEPT ![q] = LastOfPriorMajor(schemas, asked[q])]
             /\ UNCHANGED <<verdict, baseline, qknown>>
          \/ /\ qphase[q] = "priorMajor"
             /\ \/ \E d \in PriorMajor(schemas, asked[q], lastMinor[q]) :
                      QueryAnswer(q, "majorUpgrade", {d})
                \/ /\ PriorMajor(schemas, asked[q], lastMinor[q]) = {}
                   /\ QueryAnswer(q, "notFound", {})
          \/ qphase[q] = "getAll" /\ QueryAnswer(q, "ok", schemas)
          \/ qphase[q] \in QueryServing /\ QueryAnswer(q, "error", {})
<1> USE DEF QueryAnswer, Compare, QFinish, QGoto, answerVars
<1>1. CASE FindExactMatch(q)
  BY <1>1 DEF FindExactMatch
<1>2. CASE FindPriorMinor(q)
  BY <1>2 DEF FindPriorMinor
<1>3. CASE ReadLastOfPriorMajor(q)
  BY <1>3 DEF ReadLastOfPriorMajor, LastMinorToTry
<1>4. CASE FindPriorMajor(q)
  BY <1>4 DEF FindPriorMajor
<1>5. CASE GetAll(q)
  BY <1>5 DEF GetAll
<1>6. CASE QueryFails(q)
  BY <1>6 DEF QueryFails
<1> QED BY <1>1, <1>2, <1>3, <1>4, <1>5, <1>6 DEF QueryRequestStep

(* What a lookup returns was stored. *)
LEMMA LookupsSelect ==
    ASSUME Ledger, NEW m, NEW n
    PROVE /\ schemas \subseteq EverStored
          /\ Exact(schemas, m) \subseteq EverStored
          /\ PriorMinor(schemas, m) \subseteq EverStored
          /\ PriorMajor(schemas, m, n) \subseteq EverStored
<1>1. schemas \subseteq EverStored
  BY DEF Ledger, EverStored
<1> QED BY <1>1, QueriesSelect DEF Exact, PriorMinor, PriorMajor

-----------------------------------------------------------------------------
(* The versions the collection starts with passed the same validation. *)
ValidSeed == \A d \in Seed : d.minorVersion \in Nat

LEMMA LastMinorIsNatural ==
    ASSUME ValidSeed, TypeOK, WriteInv, ValidInv, Ledger, NEW n, NEW M
    PROVE LastMinorVersion(schemas, n, M) \in Nat
<1>1. \A d \in schemas : d.minorVersion \in Nat
  BY InsertedIsValid DEF Ledger, ValidSeed
<1>2. {d.minorVersion : d \in OfMajor(schemas, n, M)} \subseteq Nat
  BY <1>1, QueriesSelect
<1> QED BY <1>2, HighestIsMember DEF LastMinorVersion

LEMMA QueryTypeNext ==
    ASSUME ValidSeed
    PROVE TypeOK /\ WriteInv /\ HonestAnswers /\ ValidInv /\ Ledger /\ QueryTypeOK
             /\ [QueryNext]_systemVars => QueryTypeOK'
<1> SUFFICES ASSUME TypeOK, WriteInv, HonestAnswers, ValidInv, Ledger, QueryTypeOK,
                    [QueryNext]_systemVars
             PROVE QueryTypeOK'
  OBVIOUS
<1>1. EverStored \subseteq EverStored'
  BY QueryStepIsSchemaStep, EverStoredGrows
<1>2. asked' = asked
  BY QueryCases DEF SchemaStep, Stop, systemVars, queryVars
<1>3. ASSUME Observe
      PROVE /\ removed' \in [Queries -> BOOLEAN]
            /\ \A q \in Queries : \A j \in judgements'[q] : j.verdict \in Verdicts
  <2>1. removed' \in [Queries -> BOOLEAN]
    BY <1>3 DEF Observe
  <2>2. \A q \in Queries : \A j \in judgements'[q] : j.verdict \in Verdicts
    <3> SUFFICES ASSUME NEW q \in Queries, NEW j \in judgements'[q]
                 PROVE j.verdict \in Verdicts
      OBVIOUS
    <3>1. j \in judgements[q] \/ j = Judged(schemas', asked[q])
      BY <1>3, Observed
    <3>2. CASE j \in judgements[q]
      BY <3>2 DEF QueryTypeOK
    <3>3. CASE j = Judged(schemas', asked[q])
      BY <3>3, JudgedVerdict
    <3> QED BY <3>1, <3>2, <3>3
  <2> QED BY <2>1, <2>2
<1> DEFINE StateOK ==
              /\ qphase' \in [Queries -> {"unsent", "queued", "answered", "lost"}
                                            \cup QueryServing]
              /\ verdict' \in [Queries -> {"none", "ok", "error"} \cup Verdicts]
              /\ lastMinor' \in [Queries -> Nat]
              /\ baseline' \in [Queries -> SUBSET EverStored]
              /\ qknown' \in [Queries -> SUBSET EverStored]
<1>4. ASSUME NEW q \in Queries, QueryRequestStep(q) PROVE StateOK
  <2>1. ASSUME QSend(q) PROVE StateOK
    <3>1. Acknowledged \subseteq EverStored
      BY AcknowledgedWasInserted DEF EverStored
    <3> QED BY <2>1, <3>1 DEF QSend, QGoto, answerVars, QueryTypeOK
  <2>2. ASSUME QTake(q) PROVE StateOK
    BY <2>2 DEF QTake, QGoto, answerVars, QueryTypeOK, QueryServing
  <2>3. ASSUME NEW v \in {"ok", "error"} \cup Verdicts, NEW docs \in SUBSET EverStored,
               QueryAnswer(q, v, docs)
        PROVE StateOK
    BY <2>3 DEF QueryAnswer, QueryTypeOK
  <2>4. ASSUME NEW p \in QueryServing, qphase' = [qphase EXCEPT ![q] = p],
               UNCHANGED <<verdict, baseline, qknown>>,
               \/ lastMinor' = lastMinor
               \/ lastMinor' = [lastMinor EXCEPT ![q] = LastOfPriorMajor(schemas, asked[q])]
        PROVE StateOK
    <3>1. LastOfPriorMajor(schemas, asked[q]) \in Nat
      BY LastMinorIsNatural DEF LastOfPriorMajor
    <3> QED BY <2>4, <3>1 DEF QueryTypeOK
  <2>5. /\ schemas \subseteq EverStored /\ {} \subseteq EverStored
        /\ \A d \in Exact(schemas, asked[q]) : {d} \subseteq EverStored
        /\ \A d \in PriorMinor(schemas, asked[q]) : {d} \subseteq EverStored
        /\ \A n : \A d \in PriorMajor(schemas, asked[q], n) : {d} \subseteq EverStored
    BY LookupsSelect
  <2> HIDE DEF StateOK
  <2>6. /\ {"same", "minorUpgrade", "majorUpgrade", "notFound"} \subseteq Verdicts
        /\ {"priorMinor", "lastOfPriorMajor", "priorMajor"} \subseteq QueryServing
    BY DEF Verdicts, QueryServing
  <2>7. \/ QSend(q) \/ QTake(q)
        \/ \E v \in {"ok", "error"} \cup Verdicts, docs \in SUBSET EverStored :
              QueryAnswer(q, v, docs)
        \/ \E p \in QueryServing :
              /\ qphase' = [qphase EXCEPT ![q] = p]
              /\ UNCHANGED <<verdict, baseline, qknown>>
              /\ \/ lastMinor' = lastMinor
                 \/ lastMinor' = [lastMinor EXCEPT ![q] =
                                    LastOfPriorMajor(schemas, asked[q])]
    <3> USE <2>5, <2>6 DEF answerVars
    <3>1. ASSUME NEW d, NEW n, \/ d \in Exact(schemas, asked[q])
                               \/ d \in PriorMinor(schemas, asked[q])
                               \/ d \in PriorMajor(schemas, asked[q], n)
          PROVE {d} \in SUBSET EverStored
      BY <3>1
    <3> QED BY <1>4, <3>1, QueryStepCases
  <2> QED BY <2>1, <2>2, <2>3, <2>4, <2>7
<1>5. ASSUME SchemaStep PROVE StateOK
  BY <1>5 DEF SchemaStep, answerVars, QueryTypeOK
<1>6. ASSUME Stop PROVE StateOK
  BY <1>6 DEF Stop, answerVars, QueryTypeOK
<1>7. CASE UNCHANGED systemVars
  BY <1>7 DEF systemVars, vars, queryVars, answerVars, historyVars, QueryTypeOK,
              EverStored, Inserted, By
<1>8. CASE StateOK /\ Observe
  <2>1. /\ baseline' \in [Queries -> SUBSET EverStored']
        /\ qknown' \in [Queries -> SUBSET EverStored']
    BY <1>1, <1>8
  <2> QED BY <1>2, <1>3, <1>8, <2>1 DEF QueryTypeOK
<1> HIDE DEF StateOK
<1> QED BY <1>4, <1>5, <1>6, <1>7, <1>8, QueryCases

(* Every variable of the queries keeps its type; what they answer with and   *)
(* what they knew was stored.                                                *)
THEOREM QueryTypeCorrect ==
    ASSUME ValidSeed
    PROVE QuerySpec => []QueryTypeOK
<1>1. QueryInit => QueryTypeOK
  BY DEF QueryInit, QueryTypeOK
<1>2. TypeOK /\ WriteInv /\ HonestAnswers /\ ValidInv /\ Ledger /\ QueryTypeOK
         /\ [QueryNext]_systemVars => QueryTypeOK'
  BY QueryTypeNext
<1> QED BY <1>1, <1>2, QueriesLeaveServiceAlone, TypeCorrect, WriteCorrect,
           AnswersAreHonest, ValidCorrect, LedgerBalances, PTL DEF QuerySpec

-----------------------------------------------------------------------------
(* A query is in the phases of what it asks for, and has no answer before    *)
(* its last one.                                                             *)
CheckServing == {"exact", "priorMinor", "lastOfPriorMajor", "priorMajor"}

QueryPhaseInv ==
    \A q \in Queries : /\ qphase[q] \in CheckServing => asked[q].op = "check"
                       /\ qphase[q] = "getAll" => asked[q].op = "list"
                       /\ qphase[q] # "answered" => verdict[q] = "none"

LEMMA AskedStays ==
    ASSUME [QueryNext]_systemVars
    PROVE asked' = asked
BY QueryCases DEF SchemaStep, Stop, systemVars, queryVars

(* A step of one query leaves the others as they were ... *)
LEMMA OtherQueriesStay ==
    ASSUME QueryTypeOK, NEW q \in Queries, QueryRequestStep(q), NEW p \in Queries, p # q
    PROVE /\ qphase'[p] = qphase[p] /\ verdict'[p] = verdict[p]
          /\ lastMinor'[p] = lastMinor[p] /\ baseline'[p] = baseline[p]
          /\ qknown'[p] = qknown[p]
<1> USE DEF QueryTypeOK, QueryAnswer, answerVars
<1>1. CASE QSend(q) \/ QTake(q)
  BY <1>1 DEF QSend, QTake, QGoto
<1>2. CASE ~(QSend(q) \/ QTake(q))
  BY <1>2, QueryStepCases
<1> QED BY <1>1, <1>2

(* ... and every other step leaves all of them, or drops them. *)
LEMMA QueriesUntouched ==
    ASSUME QueryTypeOK, SchemaStep \/ Stop \/ UNCHANGED systemVars, NEW p \in Queries
    PROVE /\ qphase'[p] = qphase[p]
             \/ (qphase'[p] = "lost" /\ qphase[p] \in QueryServing \cup {"queued"})
          /\ UNCHANGED <<verdict, lastMinor, baseline, qknown>>
<1>1. CASE SchemaStep
  BY <1>1 DEF SchemaStep, answerVars
<1>2. CASE Stop
  <2>1. UNCHANGED <<verdict, lastMinor, baseline, qknown>>
    BY <1>2 DEF Stop, answerVars
  <2>2. qphase'[p] = qphase[p] \/ (/\ qphase'[p] = "lost"
                                   /\ qphase[p] \in Serving \cup QueryServing \cup {"queued"})
    BY <1>2 DEF Stop
  <2>3. qphase[p] \notin Serving
    BY DEF QueryTypeOK, QueryServing, Serving
  <2> QED BY <2>1, <2>2, <2>3
<1>3. CASE UNCHANGED systemVars
  BY <1>3 DEF systemVars, queryVars, answerVars
<1> QED BY <1>1, <1>2, <1>3

LEMMA QueryPhaseNext ==
    QueryTypeOK /\ QueryPhaseInv /\ [QueryNext]_systemVars => QueryPhaseInv'
<1> SUFFICES ASSUME QueryTypeOK, QueryPhaseInv, [QueryNext]_systemVars,
                    NEW p \in Queries
             PROVE /\ qphase'[p] \in CheckServing => asked[p].op = "check"
                   /\ qphase'[p] = "getAll" => asked[p].op = "list"
                   /\ qphase'[p] # "answered" => verdict'[p] = "none"
  BY AskedStays DEF QueryPhaseInv
<1> USE DEF QueryPhaseInv, CheckServing, QueryServing
<1>1. ASSUME NEW q \in Queries, QueryRequestStep(q), p # q
      PROVE UNCHANGED <<qphase[p], verdict[p]>>
  BY <1>1, OtherQueriesStay
<1>2. ASSUME QueryRequestStep(p)
      PROVE /\ qphase'[p] \in CheckServing => asked[p].op = "check"
            /\ qphase'[p] = "getAll" => asked[p].op = "list"
            /\ qphase'[p] # "answered" => verdict'[p] = "none"
  <2>1. CASE QSend(p)
    BY <2>1 DEF QSend, QGoto, answerVars, QueryTypeOK
  <2>2. CASE QTake(p)
    <3>1. asked[p].op \in {"check", "list"}
      BY QueryMessagesAssumption DEF QueryTypeOK
    <3> QED BY <2>2, <3>1 DEF QTake, QGoto, answerVars, QueryTypeOK
  <2>3. CASE ~(QSend(p) \/ QTake(p))
    BY <1>2, <2>3, QueryStepCases DEF QueryAnswer, answerVars, QueryTypeOK
  <2> QED BY <2>1, <2>2, <2>3
<1>3. ASSUME SchemaStep \/ Stop \/ UNCHANGED systemVars
      PROVE /\ qphase'[p] \in CheckServing => asked[p].op = "check"
            /\ qphase'[p] = "getAll" => asked[p].op = "list"
            /\ qphase'[p] # "answered" => verdict'[p] = "none"
  BY <1>3, QueriesUntouched
<1> QED BY <1>1, <1>2, <1>3, QueryCases

LEMMA QueryPhaseCorrect ==
    ASSUME ValidSeed
    PROVE QuerySpec => []QueryPhaseInv
<1>1. QueryInit => QueryPhaseInv
  BY DEF QueryInit, QueryPhaseInv, CheckServing
<1>2. QueryTypeOK /\ QueryPhaseInv /\ [QueryNext]_systemVars => QueryPhaseInv'
  BY QueryPhaseNext
<1> QED BY <1>1, <1>2, QueryTypeCorrect, PTL DEF QuerySpec

-----------------------------------------------------------------------------
(***************************************************************************)
(* A document that was acknowledged when the query was sent had been       *)
(* inserted, so a read of the query finds it or comes after a delete of    *)
(* its version was issued.                                                 *)
(***************************************************************************)
Finds(q, d) ==
    /\ qphase[q] \in CheckServing \ {"exact"} => d \notin Exact({d}, asked[q])
    /\ verdict[q] \notin {"none", "error"} =>
          IF asked[q].op = "list" THEN d \in baseline[q]
          ELSE d \in Exact({d}, asked[q]) => verdict[q] = "same"

QueriedInv ==
    \A q \in Queries : \A d \in qknown[q] :
       d \in Inserted /\ (Finds(q, d) \/ DeleteIssued(d))

LEMMA InsertedIsFound ==
    ASSUME WriteInv, Ledger, NEW d \in Inserted, ~DeleteIssued(d), NEW m
    PROVE /\ d \in schemas
          /\ d \in Exact({d}, m) => d \in Exact(schemas, m)
<1>1. d \in schemas
  BY MissingWasDeleted
<1> QED BY <1>1 DEF Exact, Matching, OfMajor, Named

LEMMA QueriedNext ==
    TypeOK /\ WriteInv /\ HonestAnswers /\ Ledger /\ QueryTypeOK /\ QueryPhaseInv
       /\ QueriedInv /\ [QueryNext]_systemVars => QueriedInv'
<1> SUFFICES ASSUME TypeOK, WriteInv, HonestAnswers, Ledger, QueryTypeOK,
                    QueryPhaseInv, QueriedInv, [QueryNext]_systemVars,
                    NEW p \in Queries, NEW d \in qknown'[p]
             PROVE d \in Inserted' /\ (Finds(p, d)' \/ DeleteIssued(d)')
  BY DEF QueriedInv
<1>0. asked' = asked /\ [Next]_vars
  BY AskedStays, QueryStepIsSchemaStep
<1>1. CASE d \in Inserted /\ DeleteIssued(d)
  BY <1>0, <1>1, InsertedGrows, DeleteIssuedStays
<1>2. CASE d \in qknown[p] /\ Finds(p, d) /\ ~DeleteIssued(d)
  <2>1. d \in Inserted /\ d \in Inserted'
    BY <1>0, <1>2, InsertedGrows DEF QueriedInv
  <2>2. ASSUME UNCHANGED <<qphase[p], verdict[p], baseline[p]>> PROVE Finds(p, d)'
    BY <1>0, <1>2, <2>2 DEF Finds, Exact, Matching, OfMajor, Named
  <2>3. ASSUME QueryRequestStep(p) PROVE Finds(p, d)'
    <3>1. d \in schemas /\ (d \in Exact({d}, asked[p]) => d \in Exact(schemas, asked[p]))
      BY <1>2, <2>1, InsertedIsFound
    <3>2. (Exact({d}, asked[p]))' = Exact({d}, asked[p])
      BY <1>0 DEF Exact, Matching, OfMajor, Named
    <3> DEFINE exact == d \in Exact({d}, asked[p])
    <3>3. Finds(p, d)' <=>
             /\ qphase'[p] \in CheckServing \ {"exact"} => ~exact
             /\ verdict'[p] \notin {"none", "error"} =>
                   IF asked[p].op = "list" THEN d \in baseline'[p]
                   ELSE exact => verdict'[p] = "same"
      BY <1>0, <3>2 DEF Finds
    <3>4. /\ qphase[p] \in CheckServing \ {"exact"} => ~exact
          /\ exact => Exact(schemas, asked[p]) # {}
      BY <1>2, <3>1 DEF Finds
    <3>5. /\ qphase[p] \in CheckServing => asked[p].op = "check"
          /\ qphase[p] = "getAll" => asked[p].op = "list"
          /\ qphase[p] # "answered" => verdict[p] = "none"
      BY DEF QueryPhaseInv
    <3> HIDE DEF exact
    <3> USE DEF CheckServing
    <3>6. CASE QSend(p) \/ QTake(p)
      BY <3>3, <3>5, <3>6 DEF QSend, QTake, QGoto, answerVars, QueryTypeOK
    <3>7. CASE ~(QSend(p) \/ QTake(p))
      BY <2>3, <3>1, <3>3, <3>4, <3>5, <3>7, QueryStepCases
         DEF QueryAnswer, answerVars, QueryTypeOK
    <3> QED BY <3>6, <3>7
  <2>4. ASSUME SchemaStep \/ Stop \/ UNCHANGED systemVars PROVE Finds(p, d)'
    <3>1. UNCHANGED <<verdict, baseline>>
          /\ (qphase'[p] = qphase[p] \/ qphase'[p] = "lost")
      BY <2>4, QueriesUntouched
    <3> QED BY <1>0, <1>2, <3>1
            DEF Finds, CheckServing, Exact, Matching, OfMajor, Named
  <2> QED BY <2>1, <2>2, <2>3, <2>4, QueryCases, OtherQueriesStay
<1>3. CASE d \notin qknown[p]
  <2>1. QSend(p) /\ d \in Acknowledged
    <3>1. ASSUME NEW q \in Queries, QueryRequestStep(q)
          PROVE QSend(p) /\ d \in Acknowledged
      BY <1>3, <3>1, QueryStepCases, OtherQueriesStay
         DEF QSend, QTake, QueryAnswer, QueryTypeOK
    <3> QED BY <1>3, <3>1, QueryCases, QueriesUntouched
  <2>2. d \in Inserted'
    BY <1>0, <2>1, AcknowledgedWasInserted, InsertedGrows
  <2>3. qphase'[p] = "queued" /\ verdict'[p] = "none"
    BY <2>1 DEF QSend, QGoto, answerVars, QueryTypeOK, QueryPhaseInv
  <2> QED BY <2>2, <2>3 DEF Finds, CheckServing
<1> QED BY <1>1, <1>2, <1>3 DEF QueriedInv

(* What was acknowledged before a query was sent is in every list, and a     *)
(* check of its version compares with that version, unless a DELETE of it    *)
(* has been issued: no race between the reads of a check and the writes of   *)
(* others, no failure and no stop hides it.                                  *)
THEOREM AcknowledgedIsAlwaysQueried ==
    ASSUME ValidSeed
    PROVE QuerySpec => []AcknowledgedIsQueried
<1>1. QueryInit => QueriedInv
  BY DEF QueryInit, QueriedInv
<1>2. TypeOK /\ WriteInv /\ HonestAnswers /\ Ledger /\ QueryTypeOK /\ QueryPhaseInv
         /\ QueriedInv /\ [QueryNext]_systemVars => QueriedInv'
  BY QueriedNext
<1>3. QueriedInv => AcknowledgedIsQueried
  BY DEF QueriedInv, Finds, AcknowledgedIsQueried
<1> QED BY <1>1, <1>2, <1>3, QueriesLeaveServiceAlone, TypeCorrect, WriteCorrect,
           AnswersAreHonest, LedgerBalances, QueryTypeCorrect, QueryPhaseCorrect,
           PTL DEF QuerySpec

-----------------------------------------------------------------------------
(***************************************************************************)
(* What one read of a finite collection leads to, and what that says of    *)
(* each of the four lookups.                                               *)
(***************************************************************************)
LEMMA JudgedCases ==
    ASSUME NEW docs, NEW m
    PROVE LET j == Judged(docs, m)
              last == LastOfPriorMajor(docs, m)
          IN  \/ /\ Exact(docs, m) # {}
                 /\ j.verdict = "same"
                 /\ j.version = Version(m.majorVersion, m.minorVersion)
              \/ /\ Exact(docs, m) = {} /\ PriorMinor(docs, m) # {}
                 /\ j.verdict = "minorUpgrade"
                 /\ j.version = Version(m.majorVersion, m.minorVersion - 1)
              \/ /\ Exact(docs, m) = {} /\ PriorMinor(docs, m) = {}
                 /\ PriorMajor(docs, m, last) # {}
                 /\ j.verdict = "majorUpgrade"
                 /\ j.version = Version(m.majorVersion - 1, last)
              \/ /\ Exact(docs, m) = {} /\ PriorMinor(docs, m) = {}
                 /\ PriorMajor(docs, m, last) = {}
                 /\ j.verdict = "notFound"
BY DEF Judged

LEMMA LookupVersions ==
    ASSUME NEW docs, NEW m, NEW n, NEW d
    PROVE /\ d \in Exact(docs, m) =>
                Version(d.majorVersion, d.minorVersion)
                   = Version(m.majorVersion, m.minorVersion)
          /\ d \in PriorMinor(docs, m) =>
                Version(d.majorVersion, d.minorVersion)
                   = Version(m.majorVersion, m.minorVersion - 1)
          /\ d \in PriorMajor(docs, m, n) =>
                Version(d.majorVersion, d.minorVersion)
                   = Version(m.majorVersion - 1, n)
BY DEF Exact, PriorMinor, PriorMajor, Matching, OfMajor, Named

(* Where there is a document of the prior major version, the last of them is *)
(* found.                                                                    *)
PriorMajors(docs, m) == OfMajor(docs, m.name, m.majorVersion - 1)

LEMMA LastOfPriorMajorIsHeld ==
    ASSUME NEW docs, IsFiniteSet(docs), \A d \in docs : d.minorVersion \in Int, NEW m
    PROVE /\ PriorMajors(docs, m) # {} =>
                PriorMajor(docs, m, LastOfPriorMajor(docs, m)) # {}
          /\ \A n : PriorMajor(docs, m, n) \subseteq PriorMajors(docs, m)
BY LastMinorIsHeld DEF PriorMajors, PriorMajor, LastOfPriorMajor, Matching

-----------------------------------------------------------------------------
(***************************************************************************)
(* While a check is in service the present collection is among those it    *)
(* was judged by, so are the ones its earlier reads saw: one that had no   *)
(* exact match, one that had no prior minor version, and one whose last    *)
(* minor version of the prior major is the one it remembers.               *)
(***************************************************************************)
Progress(q) ==
    /\ qphase[q] \in CheckServing => Judged(schemas, asked[q]) \in judgements[q]
    /\ qphase[q] \in {"priorMinor", "lastOfPriorMajor", "priorMajor"} =>
          \E j \in judgements[q] : j.verdict # "same"
    /\ qphase[q] \in {"lastOfPriorMajor", "priorMajor"} =>
          \E j \in judgements[q] : j.verdict # "minorUpgrade"
    /\ qphase[q] = "priorMajor" =>
          \E j \in judgements[q] : j.verdict = "majorUpgrade" =>
             j.version = Version(asked[q].majorVersion - 1, lastMinor[q])

Steady(q) ==
    verdict[q] \in Verdicts =>
       \A j \in judgements[q] :
          judgements[q] = {j} =>
             /\ verdict[q] = j.verdict
             /\ \A d \in baseline[q] : Version(d.majorVersion, d.minorVersion) = j.version

SteadyInv == \A q \in Queries : Progress(q) /\ Steady(q)

(* A step that is not of the query itself keeps both. *)
LEMMA SteadyBeside ==
    ASSUME QueryTypeOK, QueryPhaseInv, Observe, asked' = asked, NEW p \in Queries,
           Progress(p), Steady(p),
           \/ qphase'[p] = qphase[p]
           \/ qphase'[p] = "lost" /\ qphase[p] \in QueryServing \cup {"queued"},
           UNCHANGED <<verdict[p], lastMinor[p], baseline[p]>>
    PROVE Progress(p)' /\ Steady(p)'
<1> USE DEF CheckServing, QueryServing
<1>1. judgements[p] \subseteq judgements'[p]
  BY Observed
<1>2. qphase'[p] \in CheckServing => Judged(schemas', asked'[p]) \in judgements'[p]
  BY Observed DEF QueryPhaseInv
<1>3. Progress(p)'
  BY <1>1, <1>2 DEF Progress
<1>4. Steady(p)'
  <2>1. CASE qphase[p] # "answered"
    BY <2>1 DEF QueryPhaseInv, Steady, Verdicts
  <2>2. CASE qphase[p] = "answered"
    <3>1. judgements'[p] = judgements[p]
      BY <2>2, Observed
    <3> QED BY <3>1 DEF Steady
  <2> QED BY <2>1, <2>2
<1> QED BY <1>3, <1>4

(* An answer with which every judgement agrees that is the only one. *)
LEMMA SteadyAnswer ==
    ASSUME QueryTypeOK, Observe, NEW p \in Queries, NEW v, NEW docs,
           QueryAnswer(p, v, docs),
           \A j : judgements[p] = {j} /\ v \in Verdicts =>
              v = j.verdict /\ \A d \in docs : Version(d.majorVersion, d.minorVersion)
                                                  = j.version
    PROVE Progress(p)' /\ Steady(p)'
<1>1. /\ qphase'[p] = "answered" /\ verdict'[p] = v /\ baseline'[p] = docs
  BY DEF QueryAnswer, QueryTypeOK
<1>2. judgements'[p] = judgements[p]
  BY <1>1, Observed DEF QueryServing
<1>3. Progress(p)'
  BY <1>1 DEF Progress, CheckServing
<1>4. Steady(p)'
  BY <1>1, <1>2 DEF Steady
<1> QED BY <1>3, <1>4

(* A lookup that found nothing: the collection it saw is among the judges. *)
LEMMA SteadyMove ==
    ASSUME QueryTypeOK, QueryPhaseInv, Observe, UNCHANGED <<asked, schemas>>,
           NEW p \in Queries, qphase[p] # "answered",
           qphase'[p] \in CheckServing => asked[p].op = "check",
           verdict'[p] = verdict[p]
    PROVE /\ Steady(p)'
          /\ judgements[p] \subseteq judgements'[p]
          /\ qphase'[p] \in CheckServing => Judged(schemas, asked[p]) \in judgements'[p]
          /\ (Judged(schemas, asked[p]))' = Judged(schemas, asked[p])
<1>1. verdict'[p] = "none"
  BY DEF QueryPhaseInv
<1>2. Steady(p)'
  BY <1>1 DEF Steady, Verdicts
<1>3. judgements[p] \subseteq judgements'[p]
  BY Observed
<1>4. qphase'[p] \in CheckServing => Judged(schemas, asked[p]) \in judgements'[p]
  BY Observed DEF CheckServing, QueryServing
<1>5. (Judged(schemas, asked[p]))' = Judged(schemas, asked[p])
  OBVIOUS
<1> QED BY <1>2, <1>3, <1>4, <1>5

LEMMA SteadyStep ==
    ASSUME QueryTypeOK, QueryPhaseInv, Observe, UNCHANGED <<asked, schemas>>,
           IsFiniteSet(schemas), \A d \in schemas : d.minorVersion \in Int,
           NEW p \in Queries, QueryRequestStep(p), Progress(p)
    PROVE Progress(p)' /\ Steady(p)'
<1> DEFINE m == asked[p]
           now == Judged(schemas, m)
           last == LastOfPriorMajor(schemas, m)
<1>0. /\ \/ /\ Exact(schemas, m) # {}
            /\ now.verdict = "same"
            /\ now.version = Version(m.majorVersion, m.minorVersion)
         \/ /\ Exact(schemas, m) = {} /\ PriorMinor(schemas, m) # {}
            /\ now.verdict = "minorUpgrade"
            /\ now.version = Version(m.majorVersion, m.minorVersion - 1)
         \/ /\ Exact(schemas, m) = {} /\ PriorMinor(schemas, m) = {}
            /\ PriorMajor(schemas, m, last) # {}
            /\ now.verdict = "majorUpgrade"
            /\ now.version = Version(m.majorVersion - 1, last)
         \/ /\ Exact(schemas, m) = {} /\ PriorMinor(schemas, m) = {}
            /\ PriorMajor(schemas, m, last) = {}
            /\ now.verdict = "notFound"
      /\ qphase[p] \in CheckServing => now \in judgements[p]
      /\ qphase[p] \in CheckServing => m.op = "check"
  BY JudgedCases DEF Progress, QueryPhaseInv
<1> HIDE DEF now, last
<1>1. CASE QSend(p) \/ QTake(p)
  <2>1. /\ qphase[p] # "answered" /\ verdict'[p] = verdict[p]
        /\ qphase'[p] \in {"queued", "getAll", "exact"}
        /\ qphase'[p] = "exact" => m.op = "check"
    BY <1>1 DEF QSend, QTake, QGoto, answerVars, QueryTypeOK
  <2>2. /\ Steady(p)'
        /\ qphase'[p] \in CheckServing => (Judged(schemas, asked[p]) \in judgements[p])'
    BY <2>1, SteadyMove DEF CheckServing
  <2> QED BY <2>1, <2>2 DEF Progress
<1>2. CASE /\ qphase[p] = "exact"
           /\ \/ \E d \in Exact(schemas, m) : QueryAnswer(p, "same", {d})
              \/ /\ Exact(schemas, m) = {}
                 /\ qphase' = [qphase EXCEPT ![p] = "priorMinor"]
                 /\ UNCHANGED answerVars
  <2>1. ASSUME NEW d \in Exact(schemas, m), QueryAnswer(p, "same", {d})
        PROVE Progress(p)' /\ Steady(p)'
    <3>1. Version(d.majorVersion, d.minorVersion) = now.version /\ now.verdict = "same"
      BY <1>0, <2>1, LookupVersions
    <3> QED BY <1>0, <1>2, <2>1, <3>1, SteadyAnswer DEF CheckServing
  <2>2. ASSUME Exact(schemas, m) = {}, qphase' = [qphase EXCEPT ![p] = "priorMinor"],
               UNCHANGED answerVars
        PROVE Progress(p)' /\ Steady(p)'
    <3>1. qphase'[p] = "priorMinor" /\ verdict'[p] = verdict[p]
      BY <2>2 DEF QueryTypeOK, answerVars
    <3>2. Steady(p)' /\ now \in judgements'[p] /\ (Judged(schemas, asked[p]))' = now
      BY <1>0, <1>2, <3>1, SteadyMove DEF CheckServing, now
    <3> QED BY <1>0, <2>2, <3>1, <3>2 DEF Progress
  <2> QED BY <1>2, <2>1, <2>2
<1>3. CASE /\ qphase[p] = "priorMinor"
           /\ \/ \E d \in PriorMinor(schemas, m) : QueryAnswer(p, "minorUpgrade", {d})
              \/ /\ PriorMinor(schemas, m) = {}
                 /\ qphase' = [qphase EXCEPT ![p] = "lastOfPriorMajor"]
                 /\ UNCHANGED answerVars
  <2>1. PICK j0 \in judgements[p] : j0.verdict # "same"
    BY <1>3 DEF Progress
  <2>2. ASSUME NEW d \in PriorMinor(schemas, m), QueryAnswer(p, "minorUpgrade", {d})
        PROVE Progress(p)' /\ Steady(p)'
    <3>1. /\ now.verdict = "same" \/ now.verdict = "minorUpgrade"
          /\ now.verdict = "minorUpgrade" =>
                now.version = Version(d.majorVersion, d.minorVersion)
      BY <1>0, <2>2, LookupVersions
    <3> QED BY <1>0, <1>3, <2>1, <2>2, <3>1, SteadyAnswer DEF CheckServing
  <2>3. ASSUME PriorMinor(schemas, m) = {},
               qphase' = [qphase EXCEPT ![p] = "lastOfPriorMajor"],
               UNCHANGED answerVars
        PROVE Progress(p)' /\ Steady(p)'
    <3>1. qphase'[p] = "lastOfPriorMajor" /\ verdict'[p] = verdict[p]
      BY <2>3 DEF QueryTypeOK, answerVars
    <3>2. /\ Steady(p)' /\ now \in judgements'[p] /\ j0 \in judgements'[p]
          /\ (Judged(schemas, asked[p]))' = now
      BY <1>0, <1>3, <2>1, <3>1, SteadyMove DEF CheckServing, now
    <3>3. now.verdict # "minorUpgrade"
      BY <1>0, <2>3
    <3> QED BY <2>1, <3>1, <3>2, <3>3 DEF Progress
  <2> QED BY <1>3, <2>2, <2>3
<1>4. CASE /\ qphase[p] = "lastOfPriorMajor"
           /\ qphase' = [qphase EXCEPT ![p] = "priorMajor"]
           /\ lastMinor' = [lastMinor EXCEPT ![p] = last]
           /\ UNCHANGED <<verdict, baseline>>
  <2>1. /\ qphase'[p] = "priorMajor" /\ verdict'[p] = verdict[p]
        /\ lastMinor'[p] = last
    BY <1>4 DEF QueryTypeOK
  <2>2. PICK j0 \in judgements[p] : j0.verdict # "same"
    BY <1>4 DEF Progress
  <2>3. PICK j1 \in judgements[p] : j1.verdict # "minorUpgrade"
    BY <1>4 DEF Progress
  <2>4. /\ Steady(p)' /\ now \in judgements'[p]
        /\ j0 \in judgements'[p] /\ j1 \in judgements'[p]
        /\ (Judged(schemas, asked[p]))' = now
    BY <1>0, <1>4, <2>1, <2>2, <2>3, SteadyMove DEF CheckServing, now
  <2>5. now.verdict = "majorUpgrade" => now.version = Version(m.majorVersion - 1, last)
    BY <1>0
  <2>6. asked'[p] = m
    OBVIOUS
  <2> QED BY <2>1, <2>2, <2>3, <2>4, <2>5, <2>6 DEF Progress
<1>5. CASE /\ qphase[p] = "priorMajor"
           /\ \/ \E d \in PriorMajor(schemas, m, lastMinor[p]) :
                    QueryAnswer(p, "majorUpgrade", {d})
              \/ /\ PriorMajor(schemas, m, lastMinor[p]) = {}
                 /\ QueryAnswer(p, "notFound", {})
  <2>1. PICK j0 \in judgements[p] : j0.verdict # "same"
    BY <1>5 DEF Progress
  <2>2. PICK j1 \in judgements[p] : j1.verdict # "minorUpgrade"
    BY <1>5 DEF Progress
  <2>3. PICK j2 \in judgements[p] : j2.verdict = "majorUpgrade" =>
             j2.version = Version(m.majorVersion - 1, lastMinor[p])
    BY <1>5 DEF Progress
  <2>4. ASSUME NEW d \in PriorMajor(schemas, m, lastMinor[p]),
               QueryAnswer(p, "majorUpgrade", {d})
        PROVE Progress(p)' /\ Steady(p)'
    <3>1. PriorMajor(schemas, m, last) # {}
      BY <2>4, LastOfPriorMajorIsHeld DEF last
    <3>2. now.verdict \in {"same", "minorUpgrade", "majorUpgrade"}
      BY <1>0, <3>1
    <3>3. Version(d.majorVersion, d.minorVersion)
             = Version(m.majorVersion - 1, lastMinor[p])
      BY <2>4, LookupVersions
    <3> QED BY <1>0, <1>5, <2>1, <2>2, <2>3, <2>4, <3>2, <3>3, SteadyAnswer
            DEF CheckServing
  <2>5. ASSUME PriorMajor(schemas, m, lastMinor[p]) = {}, QueryAnswer(p, "notFound", {})
        PROVE Progress(p)' /\ Steady(p)'
    <3>1. ASSUME now.verdict = "majorUpgrade",
                 now.version = Version(m.majorVersion - 1, lastMinor[p])
          PROVE FALSE
      <4>1. /\ PriorMajor(schemas, m, last) # {}
            /\ Version(m.majorVersion - 1, last) = Version(m.majorVersion - 1, lastMinor[p])
        BY <1>0, <3>1
      <4>2. last = lastMinor[p]
        BY <4>1 DEF Version
      <4> QED BY <2>5, <4>1, <4>2
    <3>2. now.verdict \in {"same", "minorUpgrade", "majorUpgrade", "notFound"}
      BY <1>0
    <3> QED BY <1>0, <1>5, <2>1, <2>2, <2>3, <2>5, <3>1, <3>2, SteadyAnswer
            DEF CheckServing
  <2> QED BY <1>5, <2>4, <2>5
<1>6. ASSUME NEW v \in {"ok", "error"}, NEW docs, QueryAnswer(p, v, docs)
      PROVE Progress(p)' /\ Steady(p)'
  BY <1>6, SteadyAnswer DEF Verdicts
<1> QED BY <1>1, <1>2, <1>3, <1>4, <1>5, <1>6, QueryStepCases DEF last, answerVars

LEMMA SteadyNext ==
    TypeOK /\ IsFiniteSet(schemas) /\ QueryTypeOK /\ QueryPhaseInv /\ SteadyInv
       /\ [QueryNext]_systemVars => SteadyInv'
<1> SUFFICES ASSUME TypeOK, IsFiniteSet(schemas), QueryTypeOK, QueryPhaseInv,
                    SteadyInv, [QueryNext]_systemVars, NEW p \in Queries
             PROVE Progress(p)' /\ Steady(p)'
  BY DEF SteadyInv
<1>0. Progress(p) /\ Steady(p) /\ asked' = asked
  BY AskedStays DEF SteadyInv
<1>1. ASSUME NEW q \in Queries, QueryRequestStep(q), UNCHANGED vars, Observe
      PROVE Progress(p)' /\ Steady(p)'
  <2>1. CASE q = p
    <3>1. \A d \in schemas : d.minorVersion \in Int
      BY SeedAssumption DEF TypeOK, Documents
    <3>2. schemas' = schemas
      BY <1>1 DEF vars
    <3> QED BY <1>0, <1>1, <2>1, <3>1, <3>2, SteadyStep
  <2>2. CASE q # p
    BY <1>0, <1>1, <2>2, OtherQueriesStay, SteadyBeside
  <2> QED BY <2>1, <2>2
<1>2. CASE (SchemaStep \/ Stop) /\ Observe
  BY <1>0, <1>2, QueriesUntouched, SteadyBeside
<1>3. CASE UNCHANGED systemVars
  BY <1>0, <1>3 DEF Progress, Steady, systemVars, vars, queryVars, answerVars, historyVars
<1> QED BY <1>1, <1>2, <1>3, QueryCases

(* Four reads at four moments give the answer that one read would have given *)
(* at all of them, whatever was written meanwhile, if there is one: a check  *)
(* is only ever wrong about a collection whose answer changed under it.      *)
THEOREM SteadyCheckIsAlwaysRight ==
    ASSUME IsFiniteSet(Seed), ValidSeed
    PROVE QuerySpec => []SteadyCheckIsRight
<1>1. QueryInit => SteadyInv
  BY DEF QueryInit, SteadyInv, Progress, Steady, CheckServing, Verdicts
<1>2. TypeOK /\ IsFiniteSet(schemas) /\ QueryTypeOK /\ QueryPhaseInv /\ SteadyInv
         /\ [QueryNext]_systemVars => SteadyInv'
  BY SteadyNext
<1>3. SteadyInv => SteadyCheckIsRight
  BY DEF SteadyInv, Steady, SteadyCheckIsRight
<1> QED BY <1>1, <1>2, <1>3, QueriesLeaveServiceAlone, TypeCorrect, FiniteStore,
           QueryTypeCorrect, QueryPhaseCorrect, PTL DEF QuerySpec

-----------------------------------------------------------------------------
(***************************************************************************)
(* While no document of its name is removed, what the lookups of a check   *)
(* may find only grows: a collection judged "notFound" for each read that  *)
(* came too early is judged so for all, and any other was judged by what   *)
(* is still there to be found.                                             *)
(***************************************************************************)
StillFound(q, j) ==
    /\ j.verdict # "same"
    /\ qphase[q] = "priorMinor" =>
          /\ j.verdict = "minorUpgrade" => PriorMinor(schemas, asked[q]) # {}
          /\ j.verdict = "majorUpgrade" => PriorMajors(schemas, asked[q]) # {}
    /\ qphase[q] = "lastOfPriorMajor" =>
          /\ j.verdict # "minorUpgrade"
          /\ j.verdict = "majorUpgrade" => PriorMajors(schemas, asked[q]) # {}
    /\ qphase[q] = "priorMajor" =>
          /\ j.verdict # "minorUpgrade"
          /\ j.verdict = "majorUpgrade" =>
                PriorMajor(schemas, asked[q], lastMinor[q]) # {}

Justified(q) ==
    \/ removed[q]
    \/ /\ qphase[q] \in {"priorMinor", "lastOfPriorMajor", "priorMajor"} =>
             \E j \in judgements[q] : StillFound(q, j)
       /\ verdict[q] = "notFound" =>
             \E j \in judgements[q] : j.verdict = "notFound"

JustifiedInv == \A q \in Queries : Justified(q)

LEMMA LookupsGrow ==
    ASSUME NEW docs, NEW more, NEW m,
           \A d \in docs \ more : d.name # m.name
    PROVE /\ PriorMinor(docs, m) \subseteq PriorMinor(more, m)
          /\ PriorMajors(docs, m) \subseteq PriorMajors(more, m)
          /\ \A n : PriorMajor(docs, m, n) \subseteq PriorMajor(more, m, n)
BY DEF PriorMinor, PriorMajors, PriorMajor, Matching, OfMajor, Named

LEMMA JustifiedBeside ==
    ASSUME QueryTypeOK, QueryPhaseInv, Observe, asked' = asked, NEW p \in Queries,
           Justified(p),
           \/ qphase'[p] = qphase[p]
           \/ qphase'[p] = "lost" /\ qphase[p] \in QueryServing \cup {"queued"},
           UNCHANGED <<verdict[p], lastMinor[p], baseline[p]>>
    PROVE Justified(p)'
<1> USE DEF CheckServing, QueryServing
<1>1. /\ judgements[p] \subseteq judgements'[p]
      /\ removed[p] => removed'[p]
  BY Observed
<1>2. CASE removed[p]
  BY <1>1, <1>2 DEF Justified
<1>3. CASE ~removed[p] /\ ~removed'[p]
  <2>1. verdict'[p] = "notFound" => \E j \in judgements'[p] : j.verdict = "notFound"
    BY <1>1, <1>3 DEF Justified
  <2>2. ASSUME qphase'[p] \in {"priorMinor", "lastOfPriorMajor", "priorMajor"}
        PROVE \E j \in judgements'[p] : StillFound(p, j)'
    <3>1. qphase'[p] = qphase[p] /\ asked[p].op = "check"
      BY <2>2 DEF QueryPhaseInv
    <3>2. \A d \in schemas \ schemas' : d.name # asked[p].name
      BY <1>3, <2>2, <3>1, Observed
    <3>3. /\ PriorMinor(schemas, asked[p]) \subseteq PriorMinor(schemas', asked'[p])
          /\ PriorMajors(schemas, asked[p]) \subseteq PriorMajors(schemas', asked'[p])
          /\ PriorMajor(schemas, asked[p], lastMinor[p])
                \subseteq PriorMajor(schemas', asked'[p], lastMinor'[p])
      BY <3>2, LookupsGrow
    <3>4. PICK j \in judgements[p] : StillFound(p, j)
      BY <1>3, <2>2, <3>1 DEF Justified
    <3>5. StillFound(p, j)'
      BY <3>1, <3>3, <3>4 DEF StillFound
    <3> QED BY <1>1, <3>4, <3>5
  <2> QED BY <2>1, <2>2 DEF Justified
<1>4. CASE removed'[p]
  BY <1>4 DEF Justified
<1> QED BY <1>2, <1>3, <1>4

LEMMA JustifiedStep ==
    ASSUME QueryTypeOK, QueryPhaseInv, Observe, UNCHANGED <<asked, schemas>>,
           IsFiniteSet(schemas), \A d \in schemas : d.minorVersion \in Int,
           NEW p \in Queries, QueryRequestStep(p), Progress(p), Justified(p)
    PROVE Justified(p)'
<1> DEFINE m == asked[p]
           now == Judged(schemas, m)
           last == LastOfPriorMajor(schemas, m)
<1>0. /\ judgements[p] \subseteq judgements'[p]
      /\ removed[p] => removed'[p]
      /\ qphase[p] \in CheckServing => now \in judgements'[p]
  BY Observed DEF Progress
<1>1. ASSUME removed[p] PROVE Justified(p)'
  BY <1>0, <1>1 DEF Justified
<1> USE DEF QueryTypeOK, answerVars
<1>2. CASE QSend(p) \/ QTake(p)
  <2>1. verdict'[p] = "none" /\ qphase'[p] \in {"queued", "getAll", "exact"}
    BY <1>2 DEF QSend, QTake, QGoto, QueryPhaseInv
  <2> QED BY <2>1 DEF Justified
<1>3. CASE /\ qphase[p] = "exact"
           /\ Exact(schemas, m) = {}
           /\ qphase' = [qphase EXCEPT ![p] = "priorMinor"]
           /\ UNCHANGED answerVars
  <2>1. qphase'[p] = "priorMinor" /\ verdict'[p] = "none" /\ asked'[p] = m
    BY <1>3 DEF QueryPhaseInv
  <2>2. /\ now.verdict # "same"
        /\ now.verdict = "minorUpgrade" => PriorMinor(schemas, m) # {}
        /\ now.verdict = "majorUpgrade" => PriorMajors(schemas, m) # {}
    BY <1>3, JudgedCases, LastOfPriorMajorIsHeld
  <2> HIDE DEF now
  <2>3. PICK j \in judgements'[p] : j = now
    BY <1>0, <1>3 DEF CheckServing
  <2>4. StillFound(p, j)'
    BY <2>1, <2>2, <2>3 DEF StillFound
  <2> QED BY <2>1, <2>4 DEF Justified
<1>4. CASE /\ qphase[p] = "priorMinor"
           /\ PriorMinor(schemas, m) = {}
           /\ qphase' = [qphase EXCEPT ![p] = "lastOfPriorMajor"]
           /\ UNCHANGED answerVars
           /\ ~removed[p]
  <2>1. qphase'[p] = "lastOfPriorMajor" /\ verdict'[p] = "none" /\ asked'[p] = m
    BY <1>4 DEF QueryPhaseInv
  <2>2. PICK j \in judgements[p] : StillFound(p, j)
    BY <1>4 DEF Justified
  <2>3. StillFound(p, j)'
    BY <1>4, <2>1, <2>2 DEF StillFound
  <2> QED BY <1>0, <2>1, <2>2, <2>3 DEF Justified
<1>5. CASE /\ qphase[p] = "lastOfPriorMajor"
           /\ qphase' = [qphase EXCEPT ![p] = "priorMajor"]
           /\ lastMinor' = [lastMinor EXCEPT ![p] = last]
           /\ UNCHANGED <<verdict, baseline>>
           /\ ~removed[p]
  <2>1. /\ qphase'[p] = "priorMajor" /\ verdict'[p] = "none" /\ asked'[p] = m
        /\ lastMinor'[p] = last
    BY <1>5 DEF QueryPhaseInv
  <2>2. PICK j \in judgements[p] : StillFound(p, j)
    BY <1>5 DEF Justified
  <2>3. PriorMajors(schemas, m) # {} => PriorMajor(schemas, m, last) # {}
    BY LastOfPriorMajorIsHeld
  <2> HIDE DEF last
  <2>4. StillFound(p, j)'
    BY <1>5, <2>1, <2>2, <2>3 DEF StillFound
  <2> QED BY <1>0, <2>1, <2>2, <2>4 DEF Justified
<1>6. CASE /\ qphase[p] = "priorMajor"
           /\ PriorMajor(schemas, m, lastMinor[p]) = {}
           /\ QueryAnswer(p, "notFound", {})
           /\ ~removed[p]
  <2>1. PICK j \in judgements[p] : StillFound(p, j)
    BY <1>6 DEF Justified
  <2>2. j.verdict = "notFound"
    BY <1>6, <2>1 DEF StillFound, Verdicts
  <2>3. qphase'[p] = "answered"
    BY <1>6 DEF QueryAnswer
  <2> QED BY <1>0, <2>1, <2>2, <2>3 DEF Justified
<1>7. ASSUME NEW v, v # "notFound", NEW docs, QueryAnswer(p, v, docs)
      PROVE Justified(p)'
  <2>1. qphase'[p] = "answered" /\ verdict'[p] = v
    BY <1>7 DEF QueryAnswer
  <2> QED BY <1>7, <2>1 DEF Justified
<1> HIDE DEF QueryTypeOK, last
<1> QED BY <1>1, <1>2, <1>3, <1>4, <1>5, <1>6, <1>7, QueryStepCases DEF last

LEMMA JustifiedNext ==
    TypeOK /\ IsFiniteSet(schemas) /\ QueryTypeOK /\ QueryPhaseInv /\ SteadyInv
       /\ JustifiedInv /\ [QueryNext]_systemVars => JustifiedInv'
<1> SUFFICES ASSUME TypeOK, IsFiniteSet(schemas), QueryTypeOK, QueryPhaseInv,
                    SteadyInv, JustifiedInv, [QueryNext]_systemVars, NEW p \in Queries
             PROVE Justified(p)'
  BY DEF JustifiedInv
<1>0. Justified(p) /\ Progress(p) /\ asked' = asked
  BY AskedStays DEF SteadyInv, JustifiedInv
<1>1. ASSUME NEW q \in Queries, QueryRequestStep(q), UNCHANGED vars, Observe
      PROVE Justified(p)'
  <2>1. CASE q = p
    <3>1. \A d \in schemas : d.minorVersion \in Int
      BY SeedAssumption DEF TypeOK, Documents
    <3>2. schemas' = schemas
      BY <1>1 DEF vars
    <3> QED BY <1>0, <1>1, <2>1, <3>1, <3>2, JustifiedStep
  <2>2. CASE q # p
    BY <1>0, <1>1, <2>2, OtherQueriesStay, JustifiedBeside
  <2> QED BY <2>1, <2>2
<1>2. CASE (SchemaStep \/ Stop) /\ Observe
  BY <1>0, <1>2, QueriesUntouched, JustifiedBeside
<1>3. CASE UNCHANGED systemVars
  BY <1>0, <1>3 DEF Justified, StillFound, systemVars, vars, queryVars, answerVars,
                    historyVars
<1> QED BY <1>1, <1>2, <1>3, QueryCases

(* A check is answered 404 only if at some moment of its service there was   *)
(* nothing to compare with, or a schema of that name was deleted meanwhile:  *)
(* racing creates alone never make a stored baseline unfindable.             *)
THEOREM NotFoundIsAlwaysJustified ==
    ASSUME IsFiniteSet(Seed), ValidSeed
    PROVE QuerySpec => []NotFoundIsJustified
<1>1. QueryInit => JustifiedInv
  BY DEF QueryInit, JustifiedInv, Justified
<1>2. TypeOK /\ IsFiniteSet(schemas) /\ QueryTypeOK /\ QueryPhaseInv /\ SteadyInv
         /\ JustifiedInv /\ [QueryNext]_systemVars => JustifiedInv'
  BY JustifiedNext
<1>3. JustifiedInv => NotFoundIsJustified
  BY DEF JustifiedInv, Justified, NotFoundIsJustified
<1>4. QueryInit => SteadyInv
  BY DEF QueryInit, SteadyInv, Progress, Steady, CheckServing, Verdicts
<1>5. TypeOK /\ IsFiniteSet(schemas) /\ QueryTypeOK /\ QueryPhaseInv /\ SteadyInv
         /\ [QueryNext]_systemVars => SteadyInv'
  BY SteadyNext
<1> QED BY <1>1, <1>2, <1>3, <1>4, <1>5, QueriesLeaveServiceAlone, TypeCorrect,
           FiniteStore, QueryTypeCorrect, QueryPhaseCorrect, PTL DEF QuerySpec
===============================================================================
