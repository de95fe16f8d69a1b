------------------------- MODULE SchemaServiceProofs -------------------------
(***************************************************************************)
(* Theorems about SchemaService, for every set of requests and messages,   *)
(* every size of the pool and every index.                                 *)
(***************************************************************************)
EXTENDS SchemaService, FiniteSetTheorems, TLAPS

(* The steps of one request, and the step of the whole process. *)
LEMMA NextCases ==
    ASSUME Next
    PROVE \/ \E r \in Requests : \/ Send(r) \/ Take(r) \/ RejectInvalid(r)
                                 \/ FindExact(r) \/ ReadLastMajor(r)
                                 \/ ReadLastMinor(r) \/ AnswerInsert(r)
                                 \/ GetByName(r) \/ GetVersion(r)
                                 \/ FindDoomed(r) \/ AnswerDelete(r)
                                 \/ CallFails(r)
                                 \/ ApplyInsert(r) \/ ApplyDelete(r)
          \/ Crash
BY DEF Next, ActorStep, ApplyWrite

(* What a query returns comes from the collection. *)
LEMMA QueriesSelect ==
    ASSUME NEW docs, NEW n, NEW M, NEW m
    PROVE /\ Named(docs, n) \subseteq docs
          /\ OfMajor(docs, n, M) \subseteq docs
          /\ Matching(docs, n, M, m) \subseteq docs
BY DEF Named, OfMajor, Matching

LEMMA DocumentOfType ==
    ASSUME TypeOK, NEW r \in Requests
    PROVE DocumentOf(r) \in Documents
BY MessagesAssumption DEF TypeOK, Documents, DocumentOf

-----------------------------------------------------------------------------
LEMMA TypeInit == Init => TypeOK
BY DEF Init, TypeOK, Documents, Phases, Serving, Answers

LEMMA TypeNext == TypeOK /\ [Next]_vars => TypeOK'
<1> SUFFICES ASSUME TypeOK, [Next]_vars PROVE TypeOK'
  OBVIOUS
<1> USE DEF requestVars, storeVars
<1>1. ASSUME NEW r \in Requests, Send(r) PROVE TypeOK'
  <2>1. Acknowledged \subseteq Documents
    BY DEF TypeOK, Acknowledged
  <2> QED BY <1>1, <2>1 DEF TypeOK, Send, Goto, Phases
<1>2. ASSUME NEW r \in Requests, Take(r) PROVE TypeOK'
  <2>1. FirstCall(message[r]) \in Phases
    BY MessagesAssumption DEF TypeOK, FirstCall, Operations, Phases, Serving
  <2> QED BY <1>2, <2>1 DEF TypeOK, Take, Goto
<1>3. ASSUME NEW r \in Requests, RejectInvalid(r) PROVE TypeOK'
  BY <1>3 DEF TypeOK, RejectInvalid, Finish, Phases, Answers, Rejections
<1>4. ASSUME NEW r \in Requests, FindExact(r) PROVE TypeOK'
  BY <1>4 DEF TypeOK, FindExact, Finish, Goto, Phases, Serving, Answers, Rejections
<1>5. ASSUME NEW r \in Requests, ReadLastMajor(r) PROVE TypeOK'
  BY <1>5 DEF TypeOK, ReadLastMajor, Finish, Goto, Phases, Serving, Answers, Rejections
<1>6. ASSUME NEW r \in Requests, ReadLastMinor(r) PROVE TypeOK'
  BY <1>6 DEF TypeOK, ReadLastMinor, Issue, Finish, Goto, Phases, Serving,
              Answers, Rejections
<1>7. ASSUME NEW r \in Requests, AnswerInsert(r) PROVE TypeOK'
  BY <1>7 DEF TypeOK, AnswerInsert, Finish, Phases, Answers
<1>8. ASSUME NEW r \in Requests, GetByName(r) PROVE TypeOK'
  BY <1>8, QueriesSelect DEF TypeOK, GetByName, Finish, Phases, Answers
<1>9. ASSUME NEW r \in Requests, FindFirst(r)
      PROVE found' \in [Requests -> SUBSET Documents]
  BY <1>9, QueriesSelect DEF TypeOK, FindFirst, MatchingRequest
<1>10. ASSUME NEW r \in Requests, GetVersion(r) PROVE TypeOK'
  BY <1>9, <1>10 DEF TypeOK, GetVersion, Finish, Phases, Answers
<1>11. ASSUME NEW r \in Requests, FindDoomed(r) PROVE TypeOK'
  BY <1>9, <1>11 DEF TypeOK, FindDoomed, Issue, Finish, Goto, Phases, Serving, Answers
<1>12. ASSUME NEW r \in Requests, AnswerDelete(r) PROVE TypeOK'
  BY <1>12 DEF TypeOK, AnswerDelete, Finish, Phases, Answers
<1>13. ASSUME NEW r \in Requests, CallFails(r) PROVE TypeOK'
  BY <1>13 DEF TypeOK, CallFails, Finish, Phases, Answers
<1>14. ASSUME NEW r \in Requests, ApplyInsert(r) PROVE TypeOK'
  BY <1>14, DocumentOfType DEF TypeOK, ApplyInsert
<1>15. ASSUME NEW r \in Requests, ApplyDelete(r) PROVE TypeOK'
  BY <1>15, QueriesSelect DEF TypeOK, ApplyDelete, TakenOut, MatchingRequest
<1>16. ASSUME Crash PROVE TypeOK'
  BY <1>16 DEF TypeOK, Crash, Phases
<1>17. ASSUME UNCHANGED vars PROVE TypeOK'
  BY <1>17 DEF TypeOK, vars
<1> QED
  BY <1>1, <1>2, <1>3, <1>4, <1>5, <1>6, <1>7, <1>8, <1>10, <1>11, <1>12,
     <1>13, <1>14, <1>15, <1>16, <1>17, NextCases

(* Every variable keeps its type. *)
THEOREM TypeCorrect == Spec => []TypeOK
BY TypeInit, TypeNext, PTL DEF Spec

-----------------------------------------------------------------------------
(***************************************************************************)
(* The life of a write.  A request issues at most one, in its last call;   *)
(* before that it has no effect, and once the database has executed it the *)
(* effect never changes.  A create can only add its own document, a delete *)
(* can only take out one document of its version.                          *)
(***************************************************************************)
BeforeWrite == {"unsent", "queued", "findExact", "lastMajor", "lastMinor",
                "getByName", "getVersion", "findDoomed"}

PhaseFitsOperation(r) ==
    /\ phase[r] \in {"findExact", "lastMajor", "lastMinor", "insert"} =>
          message[r].op = "create"
    /\ phase[r] = "getByName" => message[r].op = "get"
    /\ phase[r] = "getVersion" => message[r].op = "getVersion"
    /\ phase[r] \in {"findDoomed", "delete"} => message[r].op = "delete"

OneWrite(r) ==
    /\ phase[r] \in BeforeWrite => write[r] = "none"
    /\ phase[r] \in {"insert", "delete"} => write[r] # "none"
    /\ phase[r] # "answered" => answer[r] = "none"
    /\ write[r] # "done" => effect[r] = {}
    /\ write[r] # "none" => message[r].op \in {"create", "delete"}

OfVersionAsked(r, d) ==
    /\ d.name = message[r].name
    /\ d.majorVersion = message[r].majorVersion
    /\ d.minorVersion = message[r].minorVersion

OwnEffect(r) ==
    /\ message[r].op = "create" => effect[r] \subseteq {DocumentOf(r)}
    /\ message[r].op = "delete" /\ effect[r] # {} =>
          \E d \in effect[r] : effect[r] = {d} /\ OfVersionAsked(r, d)

WriteInv == \A r \in Requests : PhaseFitsOperation(r) /\ OneWrite(r) /\ OwnEffect(r)

LEMMA MatchingIsOfVersion ==
    ASSUME NEW r \in Requests, NEW d \in MatchingRequest(r)
    PROVE d \in schemas /\ OfVersionAsked(r, d)
BY DEF MatchingRequest, Matching, OfMajor, Named, OfVersionAsked

LEMMA WriteInit == Init => WriteInv
BY DEF Init, WriteInv, PhaseFitsOperation, OneWrite, OwnEffect, BeforeWrite

LEMMA WriteNext == TypeOK /\ WriteInv /\ HonestAnswers /\ [Next]_vars
                      => WriteInv' /\ HonestAnswers'
<1> SUFFICES ASSUME TypeOK, WriteInv, HonestAnswers, [Next]_vars
             PROVE WriteInv' /\ HonestAnswers'
  OBVIOUS
<1> USE DEF TypeOK, requestVars, storeVars, WriteInv, PhaseFitsOperation,
            OneWrite, OwnEffect, BeforeWrite, OfVersionAsked, HonestAnswers,
            Rejections, DocumentOf
<1>1. ASSUME NEW r \in Requests, Send(r) PROVE WriteInv' /\ HonestAnswers'
  BY <1>1 DEF Send, Goto
<1>2. ASSUME NEW r \in Requests, Take(r) PROVE WriteInv' /\ HonestAnswers'
  <2>1. /\ message[r].op = "create" => FirstCall(message[r]) = "findExact"
        /\ message[r].op = "get" => FirstCall(message[r]) = "getByName"
        /\ message[r].op = "getVersion" => FirstCall(message[r]) = "getVersion"
        /\ message[r].op = "delete" => FirstCall(message[r]) = "findDoomed"
    BY DEF FirstCall
  <2>2. message[r].op \in {"create", "get", "getVersion", "delete"}
    BY MessagesAssumption DEF Operations
  <2> QED BY <1>2, <2>1, <2>2 DEF Take, Goto
<1>3. ASSUME NEW r \in Requests, RejectInvalid(r) PROVE WriteInv' /\ HonestAnswers'
  BY <1>3 DEF RejectInvalid, Finish
<1>4. ASSUME NEW r \in Requests, FindExact(r) PROVE WriteInv' /\ HonestAnswers'
  BY <1>4 DEF FindExact, Finish, Goto
<1>5. ASSUME NEW r \in Requests, ReadLastMajor(r) PROVE WriteInv' /\ HonestAnswers'
  BY <1>5 DEF ReadLastMajor, Finish, Goto
<1>6. ASSUME NEW r \in Requests, ReadLastMinor(r) PROVE WriteInv' /\ HonestAnswers'
  BY <1>6 DEF ReadLastMinor, Issue, Finish, Goto
<1>7. ASSUME NEW r \in Requests, AnswerInsert(r) PROVE WriteInv' /\ HonestAnswers'
  BY <1>7 DEF AnswerInsert, Finish
<1>8. ASSUME NEW r \in Requests, GetByName(r) PROVE WriteInv' /\ HonestAnswers'
  BY <1>8 DEF GetByName, Finish
<1>9. ASSUME NEW r \in Requests, GetVersion(r) PROVE WriteInv' /\ HonestAnswers'
  BY <1>9 DEF GetVersion, Finish
<1>10. ASSUME NEW r \in Requests, FindDoomed(r) PROVE WriteInv' /\ HonestAnswers'
  BY <1>10 DEF FindDoomed, Issue, Finish, Goto
<1>11. ASSUME NEW r \in Requests, AnswerDelete(r) PROVE WriteInv' /\ HonestAnswers'
  BY <1>11 DEF AnswerDelete, HasDeleted, Finish
<1>12. ASSUME NEW r \in Requests, CallFails(r) PROVE WriteInv' /\ HonestAnswers'
  BY <1>12 DEF CallFails, Finish
<1>13. ASSUME NEW r \in Requests, ApplyInsert(r) PROVE WriteInv' /\ HonestAnswers'
  BY <1>13 DEF ApplyInsert
<1>14. ASSUME NEW r \in Requests, ApplyDelete(r) PROVE WriteInv' /\ HonestAnswers'
  <2>1. CASE MatchingRequest(r) = {}
    BY <1>14, <2>1 DEF ApplyDelete
  <2>2. CASE MatchingRequest(r) # {}
    <3>1. PICK d \in MatchingRequest(r) : effect' = [effect EXCEPT ![r] = {d}]
      BY <1>14, <2>2 DEF ApplyDelete
    <3>2. OfVersionAsked(r, d)
      BY MatchingIsOfVersion
    <3>3. /\ write[r] = "issued"
          /\ message[r].op = "delete"
          /\ write' = [write EXCEPT ![r] = "done"]
          /\ UNCHANGED <<phase, answer, message>>
      BY <1>14 DEF ApplyDelete
    <3> QED BY <3>1, <3>2, <3>3
  <2> QED BY <2>1, <2>2
<1>15. ASSUME Crash PROVE WriteInv' /\ HonestAnswers'
  <2>1. /\ UNCHANGED <<answer, message, write, effect>>
        /\ \A r \in Requests : phase'[r] = phase[r] \/ phase'[r] = "lost"
    BY <1>15 DEF Crash
  <2>2. \A r \in Requests : answer[r] # "none" => phase'[r] = "answered"
    BY <1>15 DEF Crash, Serving
  <2>3. WriteInv'
    BY <2>1, <2>2
  <2> QED BY <2>1, <2>3
<1>16. ASSUME UNCHANGED vars PROVE WriteInv' /\ HonestAnswers'
  BY <1>16 DEF vars
<1> QED
  BY <1>1, <1>2, <1>3, <1>4, <1>5, <1>6, <1>7, <1>8, <1>9, <1>10, <1>11, <1>12,
     <1>13, <1>14, <1>15, <1>16, NextCases

LEMMA HonestInit == Init => HonestAnswers
BY DEF Init, HonestAnswers, Rejections

THEOREM WriteCorrect == Spec => []WriteInv
<1>1. Init => TypeOK /\ WriteInv /\ HonestAnswers
  BY TypeInit, WriteInit, HonestInit
<1>2. TypeOK /\ WriteInv /\ HonestAnswers /\ [Next]_vars
         => (TypeOK /\ WriteInv /\ HonestAnswers)'
  BY TypeNext, WriteNext
<1> QED BY <1>1, <1>2, PTL DEF Spec

(* An answer says what became of the request's write: 201 means its document *)
(* was inserted, 200 to a DELETE that one document of that version was taken *)
(* out, and a 400 or 404 that nothing was or will be written.  It holds for  *)
(* any number of actors, with every call failing and the process crashing.   *)
THEOREM AnswersAreHonest == Spec => []HonestAnswers
<1>1. Init => TypeOK /\ WriteInv /\ HonestAnswers
  BY TypeInit, WriteInit, HonestInit
<1>2. TypeOK /\ WriteInv /\ HonestAnswers /\ [Next]_vars
         => (TypeOK /\ WriteInv /\ HonestAnswers)'
  BY TypeNext, WriteNext
<1> QED BY <1>1, <1>2, PTL DEF Spec

-----------------------------------------------------------------------------
(* The steps of one request other than the two the database takes. *)
RequestStep(r) ==
    \/ Send(r) \/ Take(r) \/ RejectInvalid(r) \/ FindExact(r)
    \/ ReadLastMajor(r) \/ ReadLastMinor(r) \/ AnswerInsert(r)
    \/ GetByName(r) \/ GetVersion(r) \/ FindDoomed(r) \/ AnswerDelete(r)
    \/ CallFails(r)

(* Only the database changes the collection, and no step changes a message. *)
LEMMA StoreUnchanged ==
    ASSUME NEW r \in Requests, RequestStep(r) \/ Crash \/ UNCHANGED vars
    PROVE UNCHANGED <<schemas, effect, message>>
BY DEF RequestStep, Send, Take, RejectInvalid, FindExact, ReadLastMajor,
       ReadLastMinor, Issue, AnswerInsert, GetByName, GetVersion, FindDoomed,
       AnswerDelete, CallFails, Crash, requestVars, storeVars, vars

LEMMA StoreCases ==
    ASSUME [Next]_vars
    PROVE \/ UNCHANGED <<schemas, effect, message>>
          \/ \E r \in Requests : ApplyInsert(r)
          \/ \E r \in Requests : ApplyDelete(r)
BY NextCases, StoreUnchanged DEF RequestStep, Send, Take, RejectInvalid,
   FindExact, ReadLastMajor, ReadLastMinor, Issue, AnswerInsert, GetByName,
   GetVersion, FindDoomed, AnswerDelete, CallFails, Crash, requestVars,
   storeVars, vars

(* An insert the database accepts adds a document that was never there. *)
LEMMA InsertedIsNew ==
    ASSUME TypeOK, WriteInv, NEW r \in Requests, ApplyInsert(r)
    PROVE DocumentOf(r) \notin Seed \cup Inserted
<1>1. DocumentOf(r).id = r
  BY DEF DocumentOf
<1>2. DocumentOf(r) \notin Seed
  BY <1>1, SeedAssumption
<1>3. effect[r] = {}
  BY DEF WriteInv, OneWrite, ApplyInsert
<1>4. ASSUME NEW q \in By("create"), DocumentOf(r) \in effect[q] PROVE FALSE
  <2>1. q \in Requests /\ DocumentOf(r) = DocumentOf(q)
    BY <1>4 DEF By, WriteInv, OwnEffect
  <2>2. q = r
    BY <1>1, <2>1 DEF DocumentOf
  <2> QED BY <1>3, <1>4, <2>2
<1> QED BY <1>2, <1>4 DEF Inserted

(* How the two writes of the database change what has come and gone. *)
LEMMA InsertEffect ==
    ASSUME TypeOK, WriteInv, NEW r \in Requests, ApplyInsert(r)
    PROVE /\ \A op : By(op)' = By(op)
          /\ Removed' = Removed
          /\ \/ schemas' = schemas /\ Inserted' = Inserted
             \/ /\ schemas' = schemas \cup {DocumentOf(r)}
                /\ Inserted' = Inserted \cup {DocumentOf(r)}
<1>1. message' = message /\ r \in By("create") /\ r \notin By("delete")
  BY DEF ApplyInsert, requestVars, By
<1>2. \A op : By(op)' = By(op)
  BY <1>1 DEF By
<1>3. \A q \in Requests : q # r => effect'[q] = effect[q]
  BY DEF ApplyInsert, TypeOK
<1>4. Removed' = Removed
  <2>1. \A q \in By("delete") : effect'[q] = effect[q]
    BY <1>1, <1>3 DEF By
  <2> QED BY <1>2, <2>1 DEF Removed
<1>5. CASE UNCHANGED <<schemas, effect>>
  BY <1>2, <1>4, <1>5 DEF Inserted
<1>6. CASE /\ schemas' = schemas \cup {DocumentOf(r)}
           /\ effect' = [effect EXCEPT ![r] = {DocumentOf(r)}]
  <2>1. effect[r] = {}
    BY DEF WriteInv, OneWrite, ApplyInsert
  <2>2. effect'[r] = {DocumentOf(r)}
    BY <1>6 DEF TypeOK
  <2>3. Inserted' \subseteq Inserted \cup {DocumentOf(r)}
    BY <1>2, <1>3, <2>2 DEF Inserted, By
  <2>4. Inserted \cup {DocumentOf(r)} \subseteq Inserted'
    BY <1>1, <1>2, <1>3, <2>1, <2>2 DEF Inserted, By
  <2> QED BY <1>2, <1>4, <1>6, <2>3, <2>4
<1> QED BY <1>5, <1>6 DEF ApplyInsert

LEMMA DeleteEffect ==
    ASSUME TypeOK, WriteInv, NEW r \in Requests, ApplyDelete(r)
    PROVE /\ \A op : By(op)' = By(op)
          /\ Inserted' = Inserted
          /\ \/ schemas' = schemas /\ effect' = effect
             \/ \E d \in schemas : /\ schemas' = schemas \ {d}
                                   /\ effect' = [effect EXCEPT ![r] = {d}]
                                   /\ Removed' = Removed \cup {d}
                                   /\ OfVersionAsked(r, d)
<1>1. message' = message /\ r \in By("delete") /\ r \notin By("create")
  BY DEF ApplyDelete, requestVars, By
<1>2. \A op : By(op)' = By(op)
  BY <1>1 DEF By
<1>3. \A q \in Requests : q # r => effect'[q] = effect[q]
  BY DEF ApplyDelete, TypeOK
<1>4. Inserted' = Inserted
  <2>1. \A q \in By("create") : effect'[q] = effect[q]
    BY <1>1, <1>3 DEF By
  <2> QED BY <1>2, <2>1 DEF Inserted
<1>5. CASE MatchingRequest(r) = {}
  BY <1>2, <1>4, <1>5 DEF ApplyDelete
<1>6. CASE MatchingRequest(r) # {}
  <2>1. PICK d \in MatchingRequest(r) :
             /\ schemas' = schemas \ {d}
             /\ effect' = [effect EXCEPT ![r] = {d}]
    BY <1>6 DEF ApplyDelete, TakenOut
  <2>2. d \in schemas /\ OfVersionAsked(r, d)
    BY MatchingIsOfVersion
  <2>3. effect[r] = {} /\ effect'[r] = {d}
    BY <2>1 DEF TypeOK, WriteInv, OneWrite, ApplyDelete
  <2>4. Removed' \subseteq Removed \cup {d}
    BY <1>2, <1>3, <2>3 DEF Removed, By
  <2>5. Removed \cup {d} \subseteq Removed'
    BY <1>1, <1>2, <1>3, <2>3 DEF Removed, By
  <2> QED BY <1>2, <1>4, <2>1, <2>2, <2>4, <2>5
<1> QED BY <1>5, <1>6

LEMMA LedgerNext == TypeOK /\ WriteInv /\ Ledger /\ [Next]_vars => Ledger'
<1> SUFFICES ASSUME TypeOK, WriteInv, Ledger, [Next]_vars PROVE Ledger'
  OBVIOUS
<1>1. CASE UNCHANGED <<schemas, effect, message>>
  BY <1>1 DEF Ledger, Inserted, Removed, By
<1>2. ASSUME NEW r \in Requests, ApplyInsert(r) PROVE Ledger'
  <2>1. DocumentOf(r) \notin Removed
    BY <1>2, InsertedIsNew DEF Ledger
  <2>2. \A q \in By("delete") : effect'[q] = effect[q]
    BY <1>2 DEF ApplyInsert, By, TypeOK
  <2> QED BY <1>2, <2>1, <2>2, InsertEffect DEF Ledger
<1>3. ASSUME NEW r \in Requests, ApplyDelete(r) PROVE Ledger'
  <2>1. CASE schemas' = schemas /\ effect' = effect
    BY <1>3, <2>1, DeleteEffect DEF Ledger, Removed
  <2>2. ASSUME NEW d \in schemas,
               schemas' = schemas \ {d},
               effect' = [effect EXCEPT ![r] = {d}],
               Removed' = Removed \cup {d}
        PROVE Ledger'
    <3>1. d \in Seed \cup Inserted /\ d \notin Removed
      BY DEF Ledger
    <3>2. /\ Inserted' = Inserted
          /\ By("delete")' = By("delete")
      BY <1>3, DeleteEffect
    <3>3. /\ schemas' = (Seed \cup Inserted') \ Removed'
          /\ Removed' \subseteq Seed \cup Inserted'
      BY <2>2, <3>1, <3>2 DEF Ledger
    <3>4. ASSUME NEW p \in By("delete"), NEW q \in By("delete"), p # q
          PROVE effect'[p] \cap effect'[q] = {}
      <4>1. d \notin effect[p] /\ d \notin effect[q]
        BY <3>1 DEF Removed
      <4>2. /\ effect'[p] = effect[p] \/ (p = r /\ effect'[p] = {d})
            /\ effect'[q] = effect[q] \/ (q = r /\ effect'[q] = {d})
        BY <2>2 DEF TypeOK, By
      <4> QED BY <3>4, <4>1, <4>2 DEF Ledger
    <3> QED BY <3>2, <3>3, <3>4 DEF Ledger
  <2> QED BY <1>3, <2>1, <2>2, DeleteEffect
<1> QED BY <1>1, <1>2, <1>3, StoreCases

(* Conservation: the collection is what was put in minus what was taken out, *)
(* each document put in by one create and taken out by at most one delete,   *)
(* through failures, late writes and crashes.                                *)
THEOREM LedgerBalances == Spec => []Ledger
<1>1. Init => Ledger
  BY DEF Init, Ledger, Inserted, Removed, By
<1>2. TypeOK /\ WriteInv /\ Ledger /\ [Next]_vars => Ledger'
  BY LedgerNext
<1> QED BY <1>1, <1>2, TypeCorrect, WriteCorrect, PTL DEF Spec

-----------------------------------------------------------------------------
(* The two queries that sort and take the first: nothing found reads as 0,   *)
(* anything else is the version of a stored document of that name.           *)
LEMMA HighestIsMember ==
    ASSUME NEW numbers
    PROVE Highest(numbers) = 0 \/ Highest(numbers) \in numbers
BY DEF Highest

LEMMA LastMajorIsStored ==
    ASSUME NEW docs, NEW n
    PROVE LastMajorVersion(docs, n) = 0
          \/ \E d \in docs : d.name = n /\ d.majorVersion = LastMajorVersion(docs, n)
<1>1. LastMajorVersion(docs, n) \in {d.majorVersion : d \in Named(docs, n)}
      \/ LastMajorVersion(docs, n) = 0
  BY HighestIsMember DEF LastMajorVersion
<1> QED BY <1>1 DEF Named

(***************************************************************************)
(* A create past the check of the major version carries what it saw: some  *)
(* document of the preceding major version had been stored by then, and    *)
(* having been stored is for ever.                                         *)
(***************************************************************************)
Preceded(r) ==
    message[r].majorVersion > 1 =>
       \E e \in EverStored : /\ e.name = message[r].name
                             /\ e.majorVersion = message[r].majorVersion - 1

PastMajorCheck(r) ==
    /\ message[r].op = "create"
    /\ phase[r] \in {"lastMinor", "insert"} \/ write[r] = "issued"

MajorsInv ==
    /\ MajorsInSequence
    /\ \A r \in Requests : PastMajorCheck(r) => Preceded(r)

LEMMA EverStoredGrows ==
    ASSUME TypeOK, WriteInv, Ledger, [Next]_vars
    PROVE /\ EverStored \subseteq EverStored'
          /\ \/ EverStored' = EverStored
             \/ \E r \in Requests :
                   /\ ApplyInsert(r)
                   /\ EverStored' = EverStored \cup {DocumentOf(r)}
<1>1. CASE UNCHANGED <<schemas, effect, message>>
  BY <1>1 DEF EverStored, Inserted, By
<1>2. ASSUME NEW r \in Requests, ApplyInsert(r)
      PROVE EverStored' = EverStored \/ EverStored' = EverStored \cup {DocumentOf(r)}
  BY <1>2, InsertEffect DEF EverStored
<1>3. ASSUME NEW r \in Requests, ApplyDelete(r) PROVE EverStored' = EverStored
  BY <1>3, DeleteEffect DEF EverStored
<1> QED BY <1>1, <1>2, <1>3, StoreCases

LEMMA MajorCheckPassed ==
    ASSUME TypeOK, Ledger, NEW r \in Requests, ReadLastMajor(r),
           ~SkipsMajor(r)
    PROVE Preceded(r)
<1> SUFFICES ASSUME message[r].majorVersion > 1
             PROVE \E e \in EverStored :
                      /\ e.name = message[r].name
                      /\ e.majorVersion = message[r].majorVersion - 1
  BY DEF Preceded
<1> DEFINE last == LastMajorVersion(schemas, message[r].name)
<1>1. message[r].majorVersion \in Int
  BY MessagesAssumption DEF TypeOK
<1>2. last + 1 = message[r].majorVersion
  BY DEF SkipsMajor
<1>3. last # 0
  BY <1>1, <1>2
<1>4. PICK d \in schemas : d.name = message[r].name /\ d.majorVersion = last
  BY <1>3, LastMajorIsStored
<1>5. d \in EverStored /\ d.majorVersion \in Int
  BY SeedAssumption DEF Ledger, EverStored, TypeOK, Documents
<1> QED BY <1>1, <1>2, <1>4, <1>5

LEMMA PastMajorCheckNext ==
    ASSUME TypeOK, WriteInv, Ledger, [Next]_vars, NEW r \in Requests,
           PastMajorCheck(r)'
    PROVE PastMajorCheck(r) \/ (ReadLastMajor(r) /\ ~SkipsMajor(r))
<1> USE DEF PastMajorCheck, TypeOK, requestVars, storeVars
<1>1. ASSUME NEW q \in Requests, RequestStep(q)
      PROVE PastMajorCheck(r) \/ (ReadLastMajor(r) /\ ~SkipsMajor(r))
  <2>1. CASE Send(q)
    BY <2>1 DEF Send, Goto
  <2>2. CASE Take(q)
    <3>1. FirstCall(message[q]) \notin {"lastMinor", "insert"}
      BY MessagesAssumption DEF FirstCall, Operations
    <3> QED BY <2>2, <3>1 DEF Take, Goto
  <2>3. CASE RejectInvalid(q) \/ FindExact(q)
    BY <2>3 DEF RejectInvalid, FindExact, Finish, Goto
  <2>4. CASE ReadLastMajor(q)
    BY <2>4 DEF ReadLastMajor, Finish, Goto
  <2>5. CASE ReadLastMinor(q)
    BY <2>5 DEF ReadLastMinor, Issue, Finish, Goto
  <2>6. CASE AnswerInsert(q) \/ GetByName(q) \/ GetVersion(q) \/ AnswerDelete(q)
             \/ CallFails(q)
    BY <2>6 DEF AnswerInsert, GetByName, GetVersion, AnswerDelete, CallFails, Finish
  <2>7. CASE FindDoomed(q)
    <3>1. message[q].op = "delete"
      BY <2>7 DEF FindDoomed, WriteInv, PhaseFitsOperation
    <3> QED BY <2>7, <3>1 DEF FindDoomed, Issue, Finish, Goto
  <2> QED BY <1>1, <2>1, <2>2, <2>3, <2>4, <2>5, <2>6, <2>7 DEF RequestStep
<1>2. ASSUME NEW q \in Requests, ApplyInsert(q) \/ ApplyDelete(q)
      PROVE PastMajorCheck(r)
  BY <1>2 DEF ApplyInsert, ApplyDelete
<1>3. CASE Crash
  BY <1>3 DEF Crash
<1>4. CASE UNCHANGED vars
  BY <1>4 DEF vars
<1> QED BY <1>1, <1>2, <1>3, <1>4, NextCases DEF RequestStep

LEMMA MajorsNext ==
    TypeOK /\ WriteInv /\ Ledger /\ MajorsInv /\ [Next]_vars => MajorsInv'
<1> SUFFICES ASSUME TypeOK, WriteInv, Ledger, MajorsInv, [Next]_vars
             PROVE MajorsInv'
  OBVIOUS
<1>1. message' = message
  BY StoreCases DEF ApplyInsert, ApplyDelete, requestVars
<1>2. ASSUME NEW r \in Requests, Preceded(r) PROVE Preceded(r)'
  BY <1>1, <1>2, EverStoredGrows DEF Preceded
<1>3. ASSUME NEW r \in Requests, PastMajorCheck(r)' PROVE Preceded(r)'
  <2>1. CASE PastMajorCheck(r)
    BY <1>2, <2>1 DEF MajorsInv
  <2>2. CASE ReadLastMajor(r) /\ ~SkipsMajor(r)
    BY <1>2, <2>2, MajorCheckPassed
  <2> QED BY <1>3, <2>1, <2>2, PastMajorCheckNext
<1>4. MajorsInSequence'
  <2>1. CASE EverStored' = EverStored
    BY <2>1 DEF MajorsInv, MajorsInSequence
  <2>2. ASSUME NEW r \in Requests, ApplyInsert(r),
               EverStored' = EverStored \cup {DocumentOf(r)}
        PROVE MajorsInSequence'
    <3>1. Preceded(r)
      BY <2>2 DEF MajorsInv, PastMajorCheck, ApplyInsert
    <3> QED BY <2>2, <3>1 DEF MajorsInv, MajorsInSequence, Preceded, DocumentOf
  <2> QED BY <2>1, <2>2, EverStoredGrows
<1> QED BY <1>3, <1>4 DEF MajorsInv

(* No major version is ever skipped: if version M.m of a name has been       *)
(* stored and M > 1, some version of major M - 1 has been stored too.  This  *)
(* part of the rule survives any interleaving, failure, late write or crash. *)
THEOREM MajorsNeverSkipped ==
    ASSUME \A d \in Seed : d.majorVersion > 1 =>
              \E e \in Seed : /\ e.name = d.name
                              /\ e.majorVersion = d.majorVersion - 1
    PROVE Spec => []MajorsInSequence
<1>1. Init => MajorsInv
  <2> SUFFICES ASSUME Init PROVE MajorsInv
    OBVIOUS
  <2>1. EverStored = Seed
    BY DEF Init, EverStored, Inserted, By
  <2>2. \A r \in Requests : ~PastMajorCheck(r)
    BY DEF Init, PastMajorCheck
  <2> QED BY <2>1, <2>2 DEF MajorsInv, MajorsInSequence
<1>2. TypeOK /\ WriteInv /\ Ledger /\ MajorsInv /\ [Next]_vars => MajorsInv'
  BY MajorsNext
<1>3. MajorsInv => MajorsInSequence
  BY DEF MajorsInv
<1> QED BY <1>1, <1>2, <1>3, TypeCorrect, WriteCorrect, LedgerBalances, PTL DEF Spec

-----------------------------------------------------------------------------
(***************************************************************************)
(* The two version checks read together.  In a collection of first         *)
(* versions the major check lets through 1 on an empty name and 2 on one   *)
(* that is stored; the minor check, which looks up the major version       *)
(* numbered minorVersion, then lets through only 1.1 on an empty name.     *)
(***************************************************************************)
LEMMA HighestOfOnes ==
    ASSUME NEW numbers, \A n \in numbers : n = 1
    PROVE Highest(numbers) = IF numbers = {} THEN 0 ELSE 1
<1>1. CASE numbers = {}
  BY <1>1 DEF Highest
<1>2. CASE numbers # {}
  <2>1. {n \in numbers : \A k \in numbers : k <= n} = {1}
    BY <1>2
  <2> QED BY <1>2, <2>1 DEF Highest
<1> QED BY <1>1, <1>2

FirstVersion(d) == d.majorVersion = 1 /\ d.minorVersion = 1

OnlyFirstVersion == \A d \in schemas : FirstVersion(d)

LEMMA FirstMajor ==
    ASSUME NEW docs, NEW n, \A d \in docs : FirstVersion(d)
    PROVE LastMajorVersion(docs, n) = IF Named(docs, n) = {} THEN 0 ELSE 1
<1> DEFINE majors == {d.majorVersion : d \in Named(docs, n)}
<1>1. \A k \in majors : k = 1
  BY QueriesSelect DEF FirstVersion
<1>2. majors = {} <=> Named(docs, n) = {}
  OBVIOUS
<1>3. Highest(majors) = IF majors = {} THEN 0 ELSE 1
  BY <1>1, HighestOfOnes
<1> QED BY <1>2, <1>3 DEF LastMajorVersion

LEMMA FirstMinor ==
    ASSUME NEW docs, NEW n, NEW M, \A d \in docs : FirstVersion(d)
    PROVE LastMinorVersion(docs, n, M) =
             IF M # 1 \/ Named(docs, n) = {} THEN 0 ELSE 1
<1> DEFINE minors == {d.minorVersion : d \in OfMajor(docs, n, M)}
<1>1. \A k \in minors : k = 1
  BY QueriesSelect DEF FirstVersion
<1>2. OfMajor(docs, n, M) = {} <=> (M # 1 \/ Named(docs, n) = {})
  BY QueriesSelect DEF OfMajor, FirstVersion
<1>3. minors = {} <=> OfMajor(docs, n, M) = {}
  OBVIOUS
<1>4. Highest(minors) = IF minors = {} THEN 0 ELSE 1
  BY <1>1, HighestOfOnes
<1> QED BY <1>2, <1>3, <1>4 DEF LastMinorVersion

FirstInv ==
    /\ OnlyFirstVersion
    /\ \A r \in Requests :
          /\ phase[r] = "lastMinor" =>
                \/ message[r].majorVersion = 1
                \/ Named(schemas, message[r].name) # {}
          /\ message[r].op = "create" /\ write[r] = "issued" =>
                message[r].majorVersion = 1 /\ message[r].minorVersion = 1

NoDeletes == \A m \in Messages : m.op # "delete"

LEMMA FirstNext ==
    ASSUME NoDeletes
    PROVE TypeOK /\ WriteInv /\ FirstInv /\ [Next]_vars => FirstInv'
<1> SUFFICES ASSUME TypeOK, WriteInv, FirstInv, [Next]_vars PROVE FirstInv'
  OBVIOUS
<1> USE DEF FirstInv, OnlyFirstVersion, requestVars, storeVars
<1>0. \A r \in Requests : /\ message[r].op # "delete"
                          /\ message[r].majorVersion \in Int
                          /\ message[r].minorVersion \in Int
  BY MessagesAssumption DEF NoDeletes, TypeOK
<1>1. ASSUME NEW r \in Requests, Send(r) PROVE FirstInv'
  BY <1>1 DEF Send, Goto, TypeOK
<1>2. ASSUME NEW r \in Requests, Take(r) PROVE FirstInv'
  <2>1. FirstCall(message[r]) # "lastMinor"
    BY MessagesAssumption DEF FirstCall, Operations, TypeOK
  <2> QED BY <1>2, <2>1 DEF Take, Goto, TypeOK
<1>3. ASSUME NEW r \in Requests, RejectInvalid(r) \/ FindExact(r) PROVE FirstInv'
  BY <1>3 DEF RejectInvalid, FindExact, Finish, Goto, TypeOK
<1>4. ASSUME NEW r \in Requests, ReadLastMajor(r) PROVE FirstInv'
  <2>1. ~SkipsMajor(r) => \/ message[r].majorVersion = 1
                          \/ Named(schemas, message[r].name) # {}
    BY <1>0, FirstMajor DEF SkipsMajor
  <2> QED BY <1>4, <2>1 DEF ReadLastMajor, Finish, Goto, TypeOK
<1>5. ASSUME NEW r \in Requests, ReadLastMinor(r) PROVE FirstInv'
  <2>1. LastMinorRead(r) + 1 = message[r].minorVersion =>
           message[r].minorVersion = 1 /\ Named(schemas, message[r].name) = {}
    BY <1>0, FirstMinor DEF LastMinorRead
  <2>2. phase[r] = "lastMinor"
    BY <1>5 DEF ReadLastMinor
  <2>3. LastMinorRead(r) + 1 = message[r].minorVersion =>
           message[r].majorVersion = 1 /\ message[r].minorVersion = 1
    BY <2>1, <2>2
  <2> QED BY <1>5, <2>3 DEF ReadLastMinor, Issue, Finish, Goto, TypeOK
<1>6. ASSUME NEW r \in Requests,
             \/ AnswerInsert(r) \/ GetByName(r) \/ GetVersion(r)
             \/ AnswerDelete(r) \/ CallFails(r)
      PROVE FirstInv'
  BY <1>6 DEF AnswerInsert, GetByName, GetVersion, AnswerDelete, CallFails,
              Finish, TypeOK
<1>7. ASSUME NEW r \in Requests, FindDoomed(r) PROVE FALSE
  BY <1>0, <1>7 DEF FindDoomed, WriteInv, PhaseFitsOperation
<1>8. ASSUME NEW r \in Requests, ApplyInsert(r) PROVE FirstInv'
  <2>1. FirstVersion(DocumentOf(r))
    BY <1>8 DEF ApplyInsert, FirstVersion, DocumentOf
  <2>2. schemas \subseteq schemas' /\ schemas' \subseteq schemas \cup {DocumentOf(r)}
    BY <1>8 DEF ApplyInsert
  <2>3. \A n : Named(schemas, n) # {} => Named(schemas', n) # {}
    BY <2>2 DEF Named
  <2> QED BY <1>8, <2>1, <2>2, <2>3 DEF ApplyInsert, TypeOK
<1>9. ASSUME NEW r \in Requests, ApplyDelete(r) PROVE FALSE
  BY <1>0, <1>9 DEF ApplyDelete
<1>10. ASSUME Crash PROVE FirstInv'
  BY <1>10 DEF Crash, TypeOK
<1>11. ASSUME UNCHANGED vars PROVE FirstInv'
  BY <1>11 DEF vars
<1> QED BY <1>1, <1>2, <1>3, <1>4, <1>5, <1>6, <1>7, <1>8, <1>9, <1>10, <1>11,
           NextCases

(* How far the defect of ReportsLastMinor goes. Line 37 looks the last minor *)
(* version up under the minor version asked for, so, against the rule it is  *)
(* there to enforce ("New minor version must be: ...", lines 39-44), nothing *)
(* follows 1.1: without deletes, a collection that starts empty, or with     *)
(* first versions only, never holds another version, whatever the number of  *)
(* actors, failures and crashes. A correction of the line refutes this.      *)
THEOREM OnlyFirstVersionIsEverCreated ==
    ASSUME NoDeletes, \A d \in Seed : FirstVersion(d)
    PROVE Spec => []OnlyFirstVersion
<1>1. Init => FirstInv
  BY DEF Init, FirstInv, OnlyFirstVersion
<1>2. TypeOK /\ WriteInv /\ FirstInv /\ [Next]_vars => FirstInv'
  BY FirstNext
<1>3. FirstInv => OnlyFirstVersion
  BY DEF FirstInv
<1> QED BY <1>1, <1>2, <1>3, TypeCorrect, WriteCorrect, PTL DEF Spec

-----------------------------------------------------------------------------
(* The pool never serves more requests than it has actors. *)
PoolInv == IsFiniteSet(InService) /\ Cardinality(InService) <= PoolSize

LEMMA ServingShrinks ==
    ASSUME TypeOK, [Next]_vars
    PROVE InService' \subseteq InService
          \/ \E r \in Requests : Take(r) /\ InService' = InService \cup {r}
<1> USE DEF TypeOK, InService, Serving
<1>1. ASSUME NEW r \in Requests,
             Send(r) \/ FindExact(r) \/ ReadLastMajor(r) \/ ReadLastMinor(r)
      PROVE InService' \subseteq InService
  BY <1>1 DEF Send, FindExact, ReadLastMajor, ReadLastMinor, Finish, Goto
<1>2. ASSUME NEW r \in Requests,
             \/ RejectInvalid(r) \/ AnswerInsert(r) \/ GetByName(r)
             \/ GetVersion(r) \/ FindDoomed(r) \/ AnswerDelete(r) \/ CallFails(r)
      PROVE InService' \subseteq InService
  BY <1>2 DEF RejectInvalid, AnswerInsert, GetByName, GetVersion, FindDoomed,
              AnswerDelete, CallFails, Finish, Goto
<1>3. ASSUME NEW r \in Requests, Take(r) PROVE InService' = InService \cup {r}
  <2>1. FirstCall(message[r]) \in Serving
    BY MessagesAssumption DEF FirstCall, Operations
  <2>2. phase' = [phase EXCEPT ![r] = FirstCall(message[r])]
    BY <1>3 DEF Take, Goto
  <2> QED BY <2>1, <2>2
<1>4. ASSUME \/ \E r \in Requests : ApplyInsert(r) \/ ApplyDelete(r)
             \/ Crash \/ UNCHANGED vars
      PROVE InService' \subseteq InService
  BY <1>4 DEF ApplyInsert, ApplyDelete, Crash, vars
<1> QED BY <1>1, <1>2, <1>3, <1>4, NextCases

LEMMA PoolNext == TypeOK /\ PoolInv /\ [Next]_vars => PoolInv'
<1> SUFFICES ASSUME TypeOK, PoolInv, [Next]_vars PROVE PoolInv'
  OBVIOUS
<1>1. CASE InService' \subseteq InService
  <2>1. /\ IsFiniteSet(InService')
        /\ Cardinality(InService') <= Cardinality(InService)
        /\ Cardinality(InService') \in Nat
        /\ Cardinality(InService) \in Nat
    BY <1>1, FS_Subset, FS_CardinalityType DEF PoolInv
  <2> QED BY <2>1, PoolSizeAssumption DEF PoolInv
<1>2. ASSUME NEW r \in Requests, Take(r), InService' = InService \cup {r}
      PROVE PoolInv'
  <2>1. Cardinality(InService) < PoolSize
    BY <1>2 DEF Take
  <2>2. /\ IsFiniteSet(InService')
        /\ Cardinality(InService') <= Cardinality(InService) + 1
        /\ Cardinality(InService) \in Nat
    <3>1. IsFiniteSet(InService) /\ Cardinality(InService) \in Nat
      BY FS_CardinalityType DEF PoolInv
    <3>2. /\ IsFiniteSet(InService \cup {r})
          /\ Cardinality(InService \cup {r}) =
                IF r \in InService THEN Cardinality(InService)
                                  ELSE Cardinality(InService) + 1
      BY <3>1, FS_AddElement
    <3>3. Cardinality(InService \cup {r}) <= Cardinality(InService) + 1
      BY <3>1, <3>2
    <3> QED BY <1>2, <3>1, <3>2, <3>3
  <2>3. Cardinality(InService') \in Nat
    BY <2>2, FS_CardinalityType
  <2> QED BY <2>1, <2>2, <2>3, PoolSizeAssumption DEF PoolInv
<1> QED BY <1>1, <1>2, ServingShrinks

(* No more requests are between their first call and their answer than the   *)
(* pool has actors.                                                          *)
THEOREM PoolIsBounded == Spec => []PoolInv
<1>1. Init => PoolInv
  <2> SUFFICES ASSUME Init PROVE PoolInv
    OBVIOUS
  <2>1. InService = {}
    BY DEF Init, InService, Serving
  <2> QED BY <2>1, FS_EmptySet, PoolSizeAssumption DEF PoolInv
<1>2. TypeOK /\ PoolInv /\ [Next]_vars => PoolInv'
  BY PoolNext
<1> QED BY <1>1, <1>2, TypeCorrect, PTL DEF Spec

-----------------------------------------------------------------------------
(***************************************************************************)
(* A write still at the database has its actor waiting for it, or belongs  *)
(* to a request that was given up.                                         *)
(***************************************************************************)
Attended ==
    \A r \in Requests : write[r] = "issued" =>
       \/ phase[r] \in {"insert", "delete"}
       \/ phase[r] = "lost"
       \/ phase[r] = "answered" /\ answer[r] = "error"

LEMMA AttendedNext == TypeOK /\ WriteInv /\ Attended /\ [Next]_vars => Attended'
<1> SUFFICES ASSUME TypeOK, WriteInv, Attended, [Next]_vars PROVE Attended'
  OBVIOUS
<1> USE DEF TypeOK, Attended, requestVars, storeVars
<1>1. ASSUME NEW r \in Requests,
             Send(r) \/ FindExact(r) \/ ReadLastMajor(r) \/ ReadLastMinor(r)
      PROVE Attended'
  BY <1>1 DEF Send, FindExact, ReadLastMajor, ReadLastMinor, Issue, Finish, Goto
<1>2. ASSUME NEW r \in Requests,
             RejectInvalid(r) \/ GetByName(r) \/ GetVersion(r) \/ FindDoomed(r)
      PROVE Attended'
  BY <1>2 DEF RejectInvalid, GetByName, GetVersion, FindDoomed, Issue, Finish, Goto
<1>3. ASSUME NEW r \in Requests, Take(r) PROVE Attended'
  BY <1>3 DEF Take, Goto, WriteInv, OneWrite, BeforeWrite
<1>4. ASSUME NEW r \in Requests, AnswerInsert(r) \/ AnswerDelete(r) \/ CallFails(r)
      PROVE Attended'
  BY <1>4 DEF AnswerInsert, AnswerDelete, CallFails, Finish
<1>5. ASSUME NEW r \in Requests, ApplyInsert(r) \/ ApplyDelete(r) PROVE Attended'
  BY <1>5 DEF ApplyInsert, ApplyDelete
<1>6. CASE Crash
  BY <1>6 DEF Crash, Serving
<1>7. CASE UNCHANGED vars
  BY <1>7 DEF vars
<1> QED BY <1>1, <1>2, <1>3, <1>4, <1>5, <1>6, <1>7, NextCases

(* What is given up stays given up, and was in service before. *)
LEMMA GivenUpGrows ==
    ASSUME TypeOK, WriteInv, [Next]_vars
    PROVE GivenUp \subseteq GivenUp' /\ GivenUp' \subseteq GivenUp \cup InService
<1> USE DEF GivenUp, By, TypeOK, InService, Serving, requestVars, storeVars
<1>1. ASSUME NEW r \in Requests,
             Send(r) \/ FindExact(r) \/ ReadLastMajor(r) \/ ReadLastMinor(r)
      PROVE GivenUp \subseteq GivenUp' /\ GivenUp' \subseteq GivenUp \cup InService
  BY <1>1 DEF Send, FindExact, ReadLastMajor, ReadLastMinor, Issue, Finish, Goto
<1>2. ASSUME NEW r \in Requests, Take(r)
      PROVE GivenUp \subseteq GivenUp' /\ GivenUp' \subseteq GivenUp \cup InService
  <2>1. FirstCall(message[r]) # "lost" /\ FirstCall(message[r]) # "answered"
    BY MessagesAssumption DEF FirstCall, Operations
  <2> QED BY <1>2, <2>1 DEF Take, Goto
<1>3. ASSUME NEW r \in Requests, RejectInvalid(r)
      PROVE GivenUp \subseteq GivenUp' /\ GivenUp' \subseteq GivenUp \cup InService
  <2>1. write[r] = "none"
    BY <1>3 DEF RejectInvalid, WriteInv, OneWrite, BeforeWrite
  <2> QED BY <1>3, <2>1 DEF RejectInvalid, Finish
<1>4. ASSUME NEW r \in Requests,
             \/ GetByName(r) \/ GetVersion(r) \/ FindDoomed(r)
             \/ AnswerInsert(r) \/ AnswerDelete(r) \/ CallFails(r)
      PROVE GivenUp \subseteq GivenUp' /\ GivenUp' \subseteq GivenUp \cup InService
  BY <1>4 DEF GetByName, GetVersion, FindDoomed, AnswerInsert, AnswerDelete,
              CallFails, Issue, Finish, Goto
<1>5. ASSUME NEW r \in Requests, ApplyInsert(r) \/ ApplyDelete(r)
      PROVE GivenUp \subseteq GivenUp' /\ GivenUp' \subseteq GivenUp \cup InService
  BY <1>5 DEF ApplyInsert, ApplyDelete
<1>6. ASSUME Crash
      PROVE GivenUp \subseteq GivenUp' /\ GivenUp' \subseteq GivenUp \cup InService
  <2>1. /\ UNCHANGED <<answer, message, write>>
        /\ \A r \in Requests : phase'[r] = IF phase[r] \in Serving \cup {"queued"}
                                           THEN "lost" ELSE phase[r]
    BY <1>6 DEF Crash
  <2>2. \A r \in Requests : phase[r] = "queued" => write[r] = "none"
    BY DEF WriteInv, OneWrite, BeforeWrite
  <2> QED BY <2>1, <2>2
<1>7. CASE UNCHANGED vars
  BY <1>7 DEF vars
<1> QED BY <1>1, <1>2, <1>3, <1>4, <1>5, <1>6, <1>7, NextCases

GivenUpInv == IsFiniteSet(GivenUp)

LEMMA GivenUpNext ==
    TypeOK /\ WriteInv /\ PoolInv /\ GivenUpInv /\ [Next]_vars => GivenUpInv'
<1> SUFFICES ASSUME TypeOK, WriteInv, PoolInv, GivenUpInv, [Next]_vars
             PROVE IsFiniteSet(GivenUp')
  BY DEF GivenUpInv
<1>1. IsFiniteSet(GivenUp \cup InService)
  BY FS_Union DEF PoolInv, GivenUpInv
<1>2. GivenUp' \subseteq GivenUp \cup InService
  BY GivenUpGrows
<1> QED BY <1>1, <1>2, FS_Subset

(***************************************************************************)
(* The copies of a stored version and the creates of it that will not look *)
(* again whether it is there.  A create joins them only while no copy is   *)
(* stored, so when the first copy arrives they are all among the requests  *)
(* in service or given up, and from then on they can only become fewer.    *)
(***************************************************************************)
SameVersion(d, e) == /\ d.name = e.name
                     /\ d.majorVersion = e.majorVersion
                     /\ d.minorVersion = e.minorVersion

Copies(d) == {e \in schemas : SameVersion(e, d)}

Committed(r) == /\ message[r].op = "create"
                /\ phase[r] \in {"lastMajor", "lastMinor"} \/ write[r] = "issued"

Claims(d) == Copies(d) \cup
             {DocumentOf(r) : r \in {q \in Requests : Committed(q)
                                                      /\ OfVersionAsked(q, d)}}

Bound == PoolSize + Cardinality(GivenUp)

CopiesInv ==
    \A d \in schemas : IsFiniteSet(Claims(d)) /\ Cardinality(Claims(d)) <= Bound

LEMMA BoundGrows ==
    ASSUME TypeOK, WriteInv, GivenUpInv, GivenUpInv', [Next]_vars
    PROVE Bound \in Nat /\ Bound' \in Nat /\ Bound <= Bound'
<1>1. GivenUp \subseteq GivenUp'
  BY GivenUpGrows
<1>2. Cardinality(GivenUp) <= Cardinality(GivenUp')
  BY <1>1, FS_Subset DEF GivenUpInv
<1>3. Cardinality(GivenUp) \in Nat /\ Cardinality(GivenUp') \in Nat
  BY FS_CardinalityType DEF GivenUpInv
<1> QED BY <1>2, <1>3, PoolSizeAssumption DEF Bound

LEMMA CommittedNext ==
    ASSUME TypeOK, WriteInv, [Next]_vars, NEW r \in Requests, Committed(r)'
    PROVE Committed(r) \/ (FindExact(r) /\ ~Exists(r))
<1> USE DEF Committed, TypeOK, requestVars, storeVars
<1>1. ASSUME NEW q \in Requests, RequestStep(q)
      PROVE Committed(r) \/ (FindExact(r) /\ ~Exists(r))
  <2>1. CASE Send(q)
    BY <2>1 DEF Send, Goto
  <2>2. CASE Take(q)
    <3>1. FirstCall(message[q]) \notin {"lastMajor", "lastMinor"}
      BY MessagesAssumption DEF FirstCall, Operations
    <3> QED BY <2>2, <3>1 DEF Take, Goto
  <2>3. CASE RejectInvalid(q)
    BY <2>3 DEF RejectInvalid, Finish
  <2>4. CASE FindExact(q)
    BY <2>4 DEF FindExact, Finish, Goto
  <2>5. CASE ReadLastMajor(q)
    BY <2>5 DEF ReadLastMajor, Finish, Goto, WriteInv, PhaseFitsOperation
  <2>6. CASE ReadLastMinor(q)
    BY <2>6 DEF ReadLastMinor, Issue, Finish, Goto, WriteInv, PhaseFitsOperation
  <2>7. CASE AnswerInsert(q) \/ GetByName(q) \/ GetVersion(q) \/ AnswerDelete(q)
             \/ CallFails(q)
    BY <2>7 DEF AnswerInsert, GetByName, GetVersion, AnswerDelete, CallFails, Finish
  <2>8. CASE FindDoomed(q)
    <3>1. message[q].op = "delete"
      BY <2>8 DEF FindDoomed, WriteInv, PhaseFitsOperation
    <3> QED BY <2>8, <3>1 DEF FindDoomed, Issue, Finish, Goto
  <2> QED BY <1>1, <2>1, <2>2, <2>3, <2>4, <2>5, <2>6, <2>7, <2>8 DEF RequestStep
<1>2. ASSUME NEW q \in Requests, ApplyInsert(q) \/ ApplyDelete(q) PROVE Committed(r)
  BY <1>2 DEF ApplyInsert, ApplyDelete
<1>3. CASE Crash
  BY <1>3 DEF Crash
<1>4. CASE UNCHANGED vars
  BY <1>4 DEF vars
<1> QED BY <1>1, <1>2, <1>3, <1>4, NextCases DEF RequestStep

(* A version already stored gains no claim. *)
LEMMA ClaimsShrink ==
    ASSUME TypeOK, WriteInv, [Next]_vars, NEW d, Copies(d) # {}
    PROVE Claims(d)' \subseteq Claims(d)
<1>1. message' = message
  BY StoreCases DEF ApplyInsert, ApplyDelete, requestVars
<1>2. ASSUME NEW r \in Requests, Committed(r)', OfVersionAsked(r, d)
      PROVE Committed(r)
  <2>1. Exists(r)
    BY <1>2 DEF Exists, MatchingRequest, Matching, OfMajor, Named, Copies,
                SameVersion, OfVersionAsked
  <2> QED BY <1>2, <2>1, CommittedNext
<1>3. \A r \in Requests : /\ DocumentOf(r)' = DocumentOf(r)
                          /\ OfVersionAsked(r, d)' <=> OfVersionAsked(r, d)
  BY <1>1 DEF DocumentOf, OfVersionAsked
<1>4. ASSUME NEW e \in Copies(d)' PROVE e \in Claims(d)
  <2>1. CASE e \in schemas
    BY <1>4, <2>1 DEF Copies, Claims, SameVersion
  <2>2. CASE e \notin schemas
    <3>1. PICK r \in Requests : ApplyInsert(r) /\ e = DocumentOf(r)
      BY <1>4, <2>2, StoreCases, InsertEffect, DeleteEffect DEF Copies
    <3>2. Committed(r)
      BY <3>1 DEF ApplyInsert, Committed
    <3>3. SameVersion(e, d)
      BY <1>4 DEF Copies, SameVersion
    <3>4. OfVersionAsked(r, d)
      BY <3>1, <3>3 DEF SameVersion, OfVersionAsked, DocumentOf
    <3> QED BY <3>1, <3>2, <3>4 DEF Claims
  <2> QED BY <2>1, <2>2
<1>5. ASSUME NEW r \in Requests, Committed(r)', OfVersionAsked(r, d)'
      PROVE DocumentOf(r)' \in Claims(d)
  BY <1>2, <1>3, <1>5 DEF Claims
<1> QED BY <1>4, <1>5 DEF Claims

(* A version not stored yet is claimed by no other requests than those. *)
LEMMA ClaimsOfUnstored ==
    ASSUME TypeOK, WriteInv, Attended, PoolInv, GivenUpInv, NEW d, Copies(d) = {}
    PROVE IsFiniteSet(Claims(d)) /\ Cardinality(Claims(d)) <= Bound
<1> DEFINE claimants == {q \in Requests : Committed(q) /\ OfVersionAsked(q, d)}
           f == [r \in claimants |-> DocumentOf(r)]
           all == InService \cup GivenUp
<1>1. claimants \subseteq all
  BY DEF Committed, Attended, InService, Serving, GivenUp, By
<1>2. /\ IsFiniteSet(InService) /\ Cardinality(InService) \in Nat
      /\ IsFiniteSet(GivenUp) /\ Cardinality(GivenUp) \in Nat
      /\ IsFiniteSet(InService \cap GivenUp) /\ Cardinality(InService \cap GivenUp) \in Nat
  BY FS_CardinalityType, FS_Subset DEF PoolInv, GivenUpInv
<1>3. /\ IsFiniteSet(all)
      /\ Cardinality(all) = Cardinality(InService) + Cardinality(GivenUp)
                               - Cardinality(InService \cap GivenUp)
  BY <1>2, FS_Union
<1>4. IsFiniteSet(claimants) /\ Cardinality(claimants) <= Cardinality(all)
  BY <1>1, <1>3, FS_Subset
<1>5. Claims(d) = {DocumentOf(r) : r \in claimants}
  BY DEF Claims
<1>6. f \in Surjection(claimants, Claims(d))
  BY <1>5 DEF Surjection
<1>7. IsFiniteSet(Claims(d)) /\ Cardinality(Claims(d)) <= Cardinality(claimants)
  BY <1>4, <1>6, FS_Surjection
<1>8. /\ Cardinality(Claims(d)) \in Nat
      /\ Cardinality(claimants) \in Nat
      /\ Cardinality(all) \in Nat
  BY <1>3, <1>4, <1>7, FS_CardinalityType
<1>9. Cardinality(all) <= Bound
  BY <1>2, <1>3, PoolSizeAssumption DEF PoolInv, Bound
<1>10. Bound \in Nat
  BY <1>2, PoolSizeAssumption DEF Bound
<1> QED BY <1>4, <1>7, <1>8, <1>9, <1>10

LEMMA CopiesNext ==
    TypeOK /\ WriteInv /\ Attended /\ PoolInv /\ GivenUpInv /\ CopiesInv /\ [Next]_vars
       => CopiesInv'
<1> SUFFICES ASSUME TypeOK, WriteInv, Attended, PoolInv, GivenUpInv, CopiesInv,
                    [Next]_vars, NEW d \in schemas'
             PROVE IsFiniteSet(Claims(d)') /\ Cardinality(Claims(d)') <= Bound'
  BY DEF CopiesInv
<1>0. Bound \in Nat /\ Bound' \in Nat /\ Bound <= Bound'
  BY BoundGrows, GivenUpNext
<1>1. ASSUME NEW C, IsFiniteSet(C), Cardinality(C) <= Bound, Claims(d)' \subseteq C
      PROVE IsFiniteSet(Claims(d)') /\ Cardinality(Claims(d)') <= Bound'
  <2>1. IsFiniteSet(Claims(d)') /\ Cardinality(Claims(d)') <= Cardinality(C)
    BY <1>1, FS_Subset
  <2>2. Cardinality(Claims(d)') \in Nat /\ Cardinality(C) \in Nat
    BY <1>1, <2>1, FS_CardinalityType
  <2> QED BY <1>0, <1>1, <2>1, <2>2
<1>2. CASE Copies(d) # {}
  <2>1. PICK e \in schemas : SameVersion(e, d)
    BY <1>2 DEF Copies
  <2>2. Claims(e) = Claims(d)
    BY <2>1 DEF Claims, Copies, SameVersion, OfVersionAsked
  <2>3. IsFiniteSet(Claims(d)) /\ Cardinality(Claims(d)) <= Bound
    BY <2>1, <2>2 DEF CopiesInv
  <2> QED BY <1>1, <1>2, <2>3, ClaimsShrink
<1>3. CASE Copies(d) = {}
  <2>1. d \notin schemas
    BY <1>3 DEF Copies, SameVersion
  <2>2. PICK r \in Requests :
             ApplyInsert(r) /\ d = DocumentOf(r) /\ schemas' = schemas \cup {d}
    BY <2>1, StoreCases, InsertEffect, DeleteEffect
  <2>3. message' = message
    BY <2>2 DEF ApplyInsert, requestVars
  <2>4. Committed(r) /\ OfVersionAsked(r, d)
    BY <2>2 DEF ApplyInsert, Committed, OfVersionAsked, DocumentOf
  <2>5. \A q \in Requests : Committed(q)' => Committed(q)
    BY <2>2, <2>3 DEF ApplyInsert, Committed, TypeOK
  <2>6. Copies(d)' \subseteq {d}
    BY <1>3, <2>2 DEF Copies
  <2>7. \A q \in Requests : /\ DocumentOf(q)' = DocumentOf(q)
                            /\ OfVersionAsked(q, d)' <=> OfVersionAsked(q, d)
    BY <2>3 DEF DocumentOf, OfVersionAsked
  <2>8. Claims(d)' \subseteq Claims(d)
    BY <2>2, <2>4, <2>5, <2>6, <2>7 DEF Claims
  <2> QED BY <1>1, <1>3, <2>8, ClaimsOfUnstored
<1> QED BY <1>2, <1>3

(* A version is stored at most once per actor of the pool and per create     *)
(* that was given up after issuing its insert.  Without failures and crashes *)
(* that is the size of the pool; with one actor, once.                       *)
THEOREM CopiesAreBounded ==
    ASSUME \A d \in Seed :
              LET copies == {e \in Seed : SameVersion(e, d)}
              IN  IsFiniteSet(copies) /\ Cardinality(copies) <= PoolSize
    PROVE Spec => []CopiesBounded
<1>1. Init => CopiesInv /\ Attended /\ GivenUpInv
  <2> SUFFICES ASSUME Init PROVE CopiesInv /\ Attended /\ GivenUpInv
    OBVIOUS
  <2>1. \A r \in Requests : ~Committed(r)
    BY DEF Init, Committed
  <2>2. \A d \in schemas : Claims(d) = {e \in Seed : SameVersion(e, d)}
    BY <2>1 DEF Init, Claims, Copies
  <2>3. GivenUp = {}
    BY DEF Init, GivenUp, By
  <2>4. IsFiniteSet(GivenUp) /\ Cardinality(GivenUp) = 0
    BY <2>3, FS_EmptySet
  <2>5. Bound = PoolSize
    BY <2>4, PoolSizeAssumption DEF Bound
  <2> QED BY <2>2, <2>4, <2>5 DEF Init, CopiesInv, Attended, GivenUpInv
<1>2. TypeOK /\ WriteInv /\ Attended /\ [Next]_vars => Attended'
  BY AttendedNext
<1>3. TypeOK /\ WriteInv /\ PoolInv /\ GivenUpInv /\ [Next]_vars => GivenUpInv'
  BY GivenUpNext
<1>4. TypeOK /\ WriteInv /\ Attended /\ PoolInv /\ GivenUpInv /\ CopiesInv /\ [Next]_vars
         => CopiesInv'
  BY CopiesNext
<1>5. GivenUpInv /\ CopiesInv => CopiesBounded
  <2> SUFFICES ASSUME GivenUpInv, CopiesInv, NEW d \in schemas
               PROVE Cardinality(Matching(schemas, d.name, d.majorVersion,
                                          d.minorVersion)) <= Bound
    BY DEF CopiesBounded, Bound
  <2> DEFINE matching == Matching(schemas, d.name, d.majorVersion, d.minorVersion)
  <2>1. matching \subseteq Claims(d)
    BY DEF Matching, OfMajor, Named, Claims, Copies, SameVersion
  <2>2. IsFiniteSet(Claims(d)) /\ Cardinality(Claims(d)) <= Bound
    BY DEF CopiesInv
  <2>3. IsFiniteSet(matching) /\ Cardinality(matching) <= Cardinality(Claims(d))
    BY <2>1, <2>2, FS_Subset
  <2>4. /\ Cardinality(matching) \in Nat
        /\ Cardinality(Claims(d)) \in Nat
        /\ Cardinality(GivenUp) \in Nat
    BY <2>2, <2>3, FS_CardinalityType DEF GivenUpInv
  <2> QED BY <2>2, <2>3, <2>4, PoolSizeAssumption DEF Bound
<1> QED BY <1>1, <1>2, <1>3, <1>4, <1>5, TypeCorrect, WriteCorrect, PoolIsBounded,
           PTL DEF Spec
==============================================================================
