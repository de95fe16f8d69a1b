---------------------------- MODULE SchemaService ----------------------------
(***************************************************************************)
(* The schema actors and the collection they share.                        *)
(*                                                                         *)
(* PoolSize identical, stateless SchemaActors take requests from the pool. *)
(* An actor serves one request at a time, from its first repository call   *)
(* to its answer, and blocks in every call (Helpers.scala: Await.result).  *)
(* Nothing spans two calls: other actors' calls, and writes the database   *)
(* executes late, fall between them.  Each action below is one repository  *)
(* call of one request with the control that follows it, or the database   *)
(* executing a write.                                                      *)
(***************************************************************************)
EXTENDS SchemaStore, FiniteSets

CONSTANTS
    Requests,      \* the HTTP requests; a request's name is also the ObjectId
                   \* of the document it inserts
    Messages,      \* what a request may ask for
    Seed,          \* the documents the collection holds at the start
    PoolSize,      \* application.actors.schema.count
    UniqueIndexes, \* the unique indexes of the collection, as sets of fields
    MayFail,       \* whether a repository call may time out or throw
    MayCrash       \* whether the process may stop

ASSUME PoolSizeAssumption == PoolSize \in Nat \ {0}
ASSUME FaultAssumption == MayFail \in BOOLEAN /\ MayCrash \in BOOLEAN

Operations == {"create", "get", "getVersion", "delete"}

(* CreateSchema, GetSchema, GetSchemaVersion, DeleteSchemaVersion. *)
ASSUME MessagesAssumption ==
    \A m \in Messages :
       /\ m.op \in Operations
       /\ m.majorVersion \in Int
       /\ m.minorVersion \in Int

ASSUME SeedAssumption ==
    \A d \in Seed : /\ d.id \notin Requests
                    /\ d.majorVersion \in Int
                    /\ d.minorVersion \in Int

VARIABLES
    message,  \* what each request asks for
    phase,    \* how far each request is
    answer,   \* the response each request got
    found,    \* the documents a request read for its response
    write,    \* the write a request has issued, if any
    effect,   \* history: the documents a write inserted or removed
    known,    \* history: the documents answered 201 when a request was sent
    schemas   \* the documents in the collection

requestVars == <<message, known>>
storeVars == <<schemas, write, effect>>
vars == <<message, phase, answer, found, write, effect, known, schemas>>

-----------------------------------------------------------------------------
(* Definitions whose names begin with Mutant are one-change variants of the   *)
(* definition they precede; no action uses them.                              *)
MutantDocumentOf(r) == [id |-> r,
                        name |-> message[r].name,
                        majorVersion |-> message[r].majorVersion]
DocumentOf(r) == [id |-> r,
                  name |-> message[r].name,
                  majorVersion |-> message[r].majorVersion,
                  minorVersion |-> message[r].minorVersion]

(* getByNameAndVersion's criteria, which the delete shares. *)
MutantMatchingRequest(r) ==
    Matching(schemas, message[r].name,
             message[r].minorVersion, message[r].majorVersion)
MatchingRequest(r) ==
    Matching(schemas, message[r].name,
             message[r].majorVersion, message[r].minorVersion)

Serving == {"findExact", "lastMajor", "lastMinor", "insert",
            "getByName", "getVersion", "findDoomed", "delete"}
Phases == {"unsent", "queued", "answered", "lost"} \cup Serving

Rejections == {"badMajor", "badMinor", "blankApplication",
               "exists", "skipsMajor", "skipsMinor"}
Answers == {"none", "created", "ok", "notFound", "error"} \cup Rejections

MutantInService == {r \in Requests : phase[r] \in Serving \ {"insert"}}
InService == {r \in Requests : phase[r] \in Serving}

Invalid(m) == \/ m.majorVersion < 1
              \/ m.minorVersion < 1
              \/ m.applicationId = ""

FirstCall(m) ==
    CASE m.op = "create"     -> "findExact"
      [] m.op = "get"        -> "getByName"
      [] m.op = "getVersion" -> "getVersion"
      [] m.op = "delete"     -> "findDoomed"

Goto(r, p) == /\ phase' = [phase EXCEPT ![r] = p]
              /\ UNCHANGED answer

(* completeFn(...), and the actor is free for its next message. *)
Finish(r, a) == /\ phase' = [phase EXCEPT ![r] = "answered"]
                /\ answer' = [answer EXCEPT ![r] = a]

Issue(r) == /\ write' = [write EXCEPT ![r] = "issued"]
            /\ UNCHANGED <<schemas, effect>>

Acknowledged == UNION {effect[q] : q \in {p \in Requests : answer[p] = "created"}}

-----------------------------------------------------------------------------
(* What each client will ask for is fixed at the start, when it asks is not. *)
Init ==
    /\ message \in [Requests -> Messages]
    /\ phase = [r \in Requests |-> "unsent"]
    /\ answer = [r \in Requests |-> "none"]
    /\ found = [r \in Requests |-> {}]
    /\ write = [r \in Requests |-> "none"]
    /\ effect = [r \in Requests |-> {}]
    /\ known = [r \in Requests |-> {}]
    /\ schemas = Seed

(* The route hands the request to the pool and the client waits. *)
Send(r) ==
    /\ phase[r] = "unsent"
    /\ Goto(r, "queued")
    /\ known' = [known EXCEPT ![r] = Acknowledged]
    /\ UNCHANGED <<message, found, storeVars>>

-----------------------------------------------------------------------------
(* An idle actor takes a request and reaches its first repository call ... *)
Take(r) ==
    /\ phase[r] = "queued"
    /\ Cardinality(InService) < PoolSize
    /\ message[r].op = "create" => ~Invalid(message[r])
    /\ Goto(r, FirstCall(message[r]))
    /\ UNCHANGED <<found, requestVars, storeVars>>

(* ... or refuses a create whose arguments are wrong before any call. *)
RejectInvalid(r) ==
    LET m == message[r] IN
    /\ phase[r] = "queued"
    /\ Cardinality(InService) < PoolSize
    /\ m.op = "create"
    /\ Invalid(m)
    /\ Finish(r, IF m.majorVersion < 1 THEN "badMajor"
                 ELSE IF m.minorVersion < 1 THEN "badMinor"
                 ELSE "blankApplication")
    /\ UNCHANGED <<found, requestVars, storeVars>>

MutantExists(r) == FALSE
Exists(r) == MatchingRequest(r) # {}

FindExact(r) ==
    /\ phase[r] = "findExact"
    /\ IF Exists(r) THEN Finish(r, "exists")
                    ELSE Goto(r, "lastMajor")
    /\ UNCHANGED <<found, requestVars, storeVars>>

MutantSkipsMajor(r) ==
    LastMajorVersion(schemas, message[r].name) + 1 > message[r].majorVersion
SkipsMajor(r) ==
    LastMajorVersion(schemas, message[r].name) + 1 # message[r].majorVersion

ReadLastMajor(r) ==
    /\ phase[r] = "lastMajor"
    /\ IF SkipsMajor(r) THEN Finish(r, "skipsMajor")
                        ELSE Goto(r, "lastMinor")
    /\ UNCHANGED <<found, requestVars, storeVars>>

(* Line 37 asks for the last minor version of major version `minorVersion'. *)
LastMinorRead(r) ==
    LastMinorVersion(schemas, message[r].name, message[r].minorVersion)

(* The insert that follows the last check is issued with no call between. *)
ReadLastMinor(r) ==
    /\ phase[r] = "lastMinor"
    /\ IF LastMinorRead(r) + 1 # message[r].minorVersion
       THEN Finish(r, "skipsMinor") /\ UNCHANGED storeVars
       ELSE Goto(r, "insert") /\ Issue(r)
    /\ UNCHANGED <<found, requestVars>>

(* The database executes an insert, possibly after its actor has given up. *)
ApplyInsert(r) ==
    /\ write[r] = "issued"
    /\ message[r].op = "create"
    /\ write' = [write EXCEPT ![r] = "done"]
    /\ IF Refused(UniqueIndexes, schemas, DocumentOf(r))
       THEN UNCHANGED <<schemas, effect>>
       ELSE /\ schemas' = schemas \cup {DocumentOf(r)}
            /\ effect' = [effect EXCEPT ![r] = {DocumentOf(r)}]
    /\ UNCHANGED <<phase, answer, found, requestVars>>

(* A duplicate key makes insertOne fail with an exception: a 500. *)
AnswerInsert(r) ==
    /\ phase[r] = "insert"
    /\ write[r] = "done"
    /\ Finish(r, IF effect[r] # {} THEN "created" ELSE "error")
    /\ UNCHANGED <<found, requestVars, storeVars>>

-----------------------------------------------------------------------------
GetByName(r) ==
    /\ phase[r] = "getByName"
    /\ found' = [found EXCEPT ![r] = Named(schemas, message[r].name)]
    /\ Finish(r, IF found'[r] = {} THEN "notFound" ELSE "ok")
    /\ UNCHANGED <<requestVars, storeVars>>

(* first() promises no order: any matching document may come back. *)
FindFirst(r) ==
    IF MatchingRequest(r) = {}
    THEN found' = [found EXCEPT ![r] = {}]
    ELSE \E d \in MatchingRequest(r) : found' = [found EXCEPT ![r] = {d}]

GetVersion(r) ==
    /\ phase[r] = "getVersion"
    /\ FindFirst(r)
    /\ Finish(r, IF found'[r] = {} THEN "notFound" ELSE "ok")
    /\ UNCHANGED <<requestVars, storeVars>>

(* deleteSchemaByNameAndVersion reads the document it will report first. *)
FindDoomed(r) ==
    /\ phase[r] = "findDoomed"
    /\ FindFirst(r)
    /\ IF found'[r] = {} THEN Finish(r, "notFound") /\ UNCHANGED storeVars
                         ELSE Goto(r, "delete") /\ Issue(r)
    /\ UNCHANGED requestVars

(* deleteOne(criteria) removes one matching document, any of them. *)
MutantTakenOut(r, d) == MatchingRequest(r)
TakenOut(r, d) == {d}

ApplyDelete(r) ==
    /\ write[r] = "issued"
    /\ message[r].op = "delete"
    /\ write' = [write EXCEPT ![r] = "done"]
    /\ IF MatchingRequest(r) = {}
       THEN UNCHANGED <<schemas, effect>>
       ELSE \E d \in MatchingRequest(r) :
               /\ schemas' = schemas \ TakenOut(r, d)
               /\ effect' = [effect EXCEPT ![r] = {d}]
    /\ UNCHANGED <<phase, answer, found, requestVars>>

(* getDeletedCount < 1 makes the repository throw GenericException: a 500. *)
MutantHasDeleted(r) == TRUE
HasDeleted(r) == effect[r] # {}

AnswerDelete(r) ==
    /\ phase[r] = "delete"
    /\ write[r] = "done"
    /\ Finish(r, IF HasDeleted(r) THEN "ok" ELSE "error")
    /\ UNCHANGED <<found, requestVars, storeVars>>

-----------------------------------------------------------------------------
(* Await.result gives up after 10 s, or the driver throws: the client gets a *)
(* 500.  A write already issued stays with the database.                     *)
MutantCallFails(r) ==
    /\ MayFail
    /\ r \in InService /\ phase[r] \notin {"insert", "delete"}
    /\ Finish(r, "error")
    /\ UNCHANGED <<found, requestVars, storeVars>>

CallFails(r) ==
    /\ MayFail
    /\ r \in InService
    /\ Finish(r, "error")
    /\ UNCHANGED <<found, requestVars, storeVars>>

(* The process stops with requests queued or in service and starts again. *)
Crash ==
    /\ MayCrash
    /\ \E r \in Requests : phase[r] \in Serving \cup {"queued"}
    /\ phase' = [r \in Requests |-> IF phase[r] \in Serving \cup {"queued"}
                                    THEN "lost" ELSE phase[r]]
    /\ UNCHANGED <<answer, found, requestVars, storeVars>>

(* What the actors do for a request, and what the database does. *)
ActorStep(r) ==
    \/ Take(r) \/ RejectInvalid(r)
    \/ FindExact(r) \/ ReadLastMajor(r) \/ ReadLastMinor(r) \/ AnswerInsert(r)
    \/ GetByName(r) \/ GetVersion(r)
    \/ FindDoomed(r) \/ AnswerDelete(r)
    \/ CallFails(r)

ApplyWrite(r) == ApplyInsert(r) \/ ApplyDelete(r)

Next == \/ \E r \in Requests : Send(r) \/ ActorStep(r) \/ ApplyWrite(r)
        \/ Crash

Spec == Init /\ [][Next]_vars

(* An actor with work runs; nothing is assumed of clients or the database. *)
Fairness == \A r \in Requests : WF_vars(ActorStep(r))
FairSpec == Spec /\ Fairness

-----------------------------------------------------------------------------
(* Type invariant. *)
Documents == Seed \cup
    [id: Requests, name: {m.name : m \in Messages},
     majorVersion: Int, minorVersion: Int]

TypeOK ==
    /\ message \in [Requests -> Messages]
    /\ phase \in [Requests -> Phases]
    /\ answer \in [Requests -> Answers]
    /\ found \in [Requests -> SUBSET Documents]
    /\ write \in [Requests -> {"none", "issued", "done"}]
    /\ effect \in [Requests -> SUBSET Documents]
    /\ known \in [Requests -> SUBSET Documents]
    /\ schemas \in SUBSET Documents

-----------------------------------------------------------------------------
(* An answer tells the client what became of its write.  201: the document   *)
(* was inserted.  200 to a DELETE: one document of that version was removed. *)
(* 400 or 404: nothing was written and nothing still waits at the database,  *)
(* so repeating the request is safe.  (A 500 promises nothing.)              *)
(* SchemaActor.scala:28-50 and 94-115.                                       *)
HonestAnswers ==
    \A r \in Requests :
       /\ answer[r] = "created" =>
             message[r].op = "create" /\ effect[r] = {DocumentOf(r)}
       /\ answer[r] \in Rejections \cup {"notFound"} =>
             write[r] = "none" /\ effect[r] = {}
       /\ answer[r] = "ok" /\ message[r].op = "delete" =>
             \E d \in effect[r] : /\ effect[r] = {d}
                                  /\ d.name = message[r].name
                                  /\ d.majorVersion = message[r].majorVersion
                                  /\ d.minorVersion = message[r].minorVersion

(* The collection is what was put in minus what was taken out: whatever      *)
(* fails, times out or crashes, no document appears, comes back or is lost   *)
(* except by the one write of the one request that answers for it, and no    *)
(* two deletes remove the same document.  SchemaRepository.scala:37-43, 93.  *)
By(op) == {r \in Requests : message[r].op = op}
Inserted == UNION {effect[r] : r \in By("create")}
Removed == UNION {effect[r] : r \in By("delete")}

Ledger ==
    /\ schemas = (Seed \cup Inserted) \ Removed
    /\ Removed \subseteq Seed \cup Inserted
    /\ \A r, q \in By("delete") : r # q => effect[r] \cap effect[q] = {}

(* A document acknowledged with 201 before a request was sent is seen by     *)
(* that request unless a DELETE of its version has been issued: a GET is not *)
(* answered 404 and a second create of that version is refused.              *)
(* SchemaActor.scala:52-92, SchemaCreationService.scala:21-25.               *)
DeleteIssued(d) ==
    \E q \in By("delete") :
       /\ write[q] # "none"
       /\ <<message[q].name, message[q].majorVersion, message[q].minorVersion>>
             = <<d.name, d.majorVersion, d.minorVersion>>

Misses(r, d) ==
    LET m == message[r]
        sameVersion == <<m.majorVersion, m.minorVersion>>
                          = <<d.majorVersion, d.minorVersion>>
    IN /\ m.name = d.name
       /\ \/ answer[r] = "notFound" /\ m.op = "get"
          \/ answer[r] = "notFound" /\ m.op = "getVersion" /\ sameVersion
          \/ answer[r] = "created" /\ sameVersion

AcknowledgedIsSeen ==
    \A r \in Requests : \A d \in known[r] :
       Misses(r, d) => DeleteIssued(d)

(* No create gets past a major version that was never stored: whenever a     *)
(* document of major version M > 1 has been stored, one of M - 1 of the same *)
(* name has been too, even if it was deleted since and whatever other        *)
(* requests do between the read and the insert.                              *)
(* SchemaCreationService.scala:27-35.                                        *)
EverStored == Seed \cup Inserted

MajorsInSequence ==
    \A d \in EverStored : d.majorVersion > 1 =>
       \E e \in EverStored : /\ e.name = d.name
                             /\ e.majorVersion = d.majorVersion - 1

(* The existence check and the insert are two calls, so racing creates can   *)
(* store the same version more than once, but never more often than there    *)
(* are actors and creates given up with their insert issued: every copy      *)
(* after the first was decided on by an actor already past the check, or by  *)
(* one that timed out or crashed and left its insert with the database.      *)
(* SchemaCreationService.scala:21-53, Helpers.scala:26, application.conf:35. *)
GivenUp ==
    {r \in By("create") : /\ write[r] # "none"
                          /\ \/ phase[r] = "lost"
                             \/ phase[r] = "answered" /\ answer[r] = "error"}

CopiesBounded ==
    \A d \in schemas :
       Cardinality(Matching(schemas, d.name, d.majorVersion, d.minorVersion))
          <= PoolSize + Cardinality(GivenUp)

(* A version is stored at most once. *)
NoDuplicates ==
    \A d, e \in schemas :
       <<d.name, d.majorVersion, d.minorVersion>>
          = <<e.name, e.majorVersion, e.minorVersion>> => d = e

(* Every request that reaches the pool is answered, unless the process stops *)
(* under it: an actor waits at most 10 s for each of its calls.              *)
(* Helpers.scala:24-38, ResponseHandling.scala:13-21.                        *)
Responds ==
    \A r \in Requests :
       phase[r] = "queued" ~> phase[r] \in {"answered", "lost"}

-----------------------------------------------------------------------------
(* What the code says of itself and does not do.                             *)

(* "Last minor version is: N" (SchemaCreationService.scala:42): the number a *)
(* refusal for a skipped minor version reports is the last minor version of  *)
(* the requested major version.                                              *)
ReportsLastMinor ==
    [][\A r \in Requests :
          answer'[r] = "skipsMinor" /\ answer[r] = "none" =>
             LastMinorRead(r) = LastMinorVersion(schemas, message[r].name,
                                                 message[r].majorVersion)]_vars
==============================================================================
