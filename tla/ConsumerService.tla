--------------------------- MODULE ConsumerService ---------------------------
(***************************************************************************)
(* The consumer actors.  A consumer is registered against one version of   *)
(* one schema; the registration checks that the schema is stored and then  *)
(* inserts the consumer, in three repository calls that nothing holds      *)
(* together.  Nothing ever removes a consumer.                             *)
(*                                                                         *)
(* `schemas' is the collection of the schema actors: these actors only     *)
(* read it.  The module has no specification of its own; RegistryService   *)
(* lets its steps interleave with the schema actors'.                      *)
(***************************************************************************)
EXTENDS SchemaStore, FiniteSets

CONSTANTS
    ConsumerRequests, \* the HTTP requests, and the ObjectIds of what they insert
    ConsumerMessages, \* what a request may ask for
    ConsumerPoolSize, \* application.actors.consumer.count
    ConsumerIndexes,  \* the unique indexes of the collection
    MayFail           \* whether a repository call may time out or throw

VARIABLES
    cmessage,  \* what each request asks for
    cphase,    \* how far each request is
    canswer,   \* the response each request got
    cwrite,    \* the insert a request has issued, if any
    ceffect,   \* history: the document an insert stored
    consumers, \* the consumers collection
    schemas    \* the schemas collection

cstore == <<consumers, cwrite, ceffect>>

ConsumerServing == {"findConsumer", "findSchema", "insert",
                    "getConsumer", "getBySchema"}

MutantConsumersInService ==
    {r \in ConsumerRequests : cphase[r] \in ConsumerServing \ {"insert"}}
ConsumersInService == {r \in ConsumerRequests : cphase[r] \in ConsumerServing}

(* Consumer(_id, name, schemaName, schemaMajorVersion, schemaMinorVersion).   *)
(* (Mutant...: one-change variants of what they precede, used by no action.)  *)
MutantConsumerOf(r) ==
    LET m == cmessage[r]
    IN  [id |-> r, name |-> m.schemaName, schemaName |-> m.name,
         schemaMajorVersion |-> m.schemaMajorVersion,
         schemaMinorVersion |-> m.schemaMinorVersion]
MutantShortConsumerOf(r) ==
    LET m == cmessage[r]
    IN  [id |-> r, name |-> m.name, schemaName |-> m.schemaName,
         schemaMajorVersion |-> m.schemaMajorVersion]
ConsumerOf(r) ==
    LET m == cmessage[r]
    IN  [id |-> r, name |-> m.name, schemaName |-> m.schemaName,
         schemaMajorVersion |-> m.schemaMajorVersion,
         schemaMinorVersion |-> m.schemaMinorVersion]

SameRegistration(c, d) ==
    /\ c.name = d.name
    /\ c.schemaName = d.schemaName
    /\ c.schemaMajorVersion = d.schemaMajorVersion
    /\ c.schemaMinorVersion = d.schemaMinorVersion

(* ConsumerRepository.getByNameAndSchema and getByName. *)
Registered(m) == {c \in consumers : SameRegistration(c, m)}
WithName(name) == {c \in consumers : c.name = name}

(* The schema a registration names: getByNameAndVersion. *)
SchemaNamed(m) ==
    Matching(schemas, m.schemaName, m.schemaMajorVersion, m.schemaMinorVersion)

CGoto(r, p) == /\ cphase' = [cphase EXCEPT ![r] = p]
               /\ UNCHANGED canswer

CFinish(r, a) == /\ cphase' = [cphase EXCEPT ![r] = "answered"]
                 /\ canswer' = [canswer EXCEPT ![r] = a]

-----------------------------------------------------------------------------
CInit ==
    /\ cmessage \in [ConsumerRequests -> ConsumerMessages]
    /\ cphase = [r \in ConsumerRequests |-> "unsent"]
    /\ canswer = [r \in ConsumerRequests |-> "none"]
    /\ cwrite = [r \in ConsumerRequests |-> "none"]
    /\ ceffect = [r \in ConsumerRequests |-> {}]
    /\ consumers = {}

CSend(r) ==
    /\ cphase[r] = "unsent"
    /\ CGoto(r, "queued")
    /\ UNCHANGED <<cmessage, cstore>>

CTake(r) ==
    /\ cphase[r] = "queued"
    /\ Cardinality(ConsumersInService) < ConsumerPoolSize
    /\ CGoto(r, CASE cmessage[r].op = "register"    -> "findConsumer"
                  [] cmessage[r].op = "get"         -> "getConsumer"
                  [] cmessage[r].op = "getBySchema" -> "getBySchema")
    /\ UNCHANGED <<cmessage, cstore>>

(* RegisterConsumer: the consumer must be new ... *)
FindConsumer(r) ==
    /\ cphase[r] = "findConsumer"
    /\ IF Registered(cmessage[r]) # {} THEN CFinish(r, "exists")
                                       ELSE CGoto(r, "findSchema")
    /\ UNCHANGED <<cmessage, cstore>>

(* ... and its schema stored when this call looks; then the insert is issued. *)
MutantSchemaIsStored(m) == Named(schemas, m.schemaName) # {}
SchemaIsStored(m) == SchemaNamed(m) # {}

FindSchema(r) ==
    /\ cphase[r] = "findSchema"
    /\ IF SchemaIsStored(cmessage[r])
       THEN CGoto(r, "insert") /\ cwrite' = [cwrite EXCEPT ![r] = "issued"]
       ELSE CFinish(r, "noSchema") /\ UNCHANGED cwrite
    /\ UNCHANGED <<cmessage, consumers, ceffect>>

ApplyRegistration(r) ==
    /\ cwrite[r] = "issued"
    /\ cwrite' = [cwrite EXCEPT ![r] = "done"]
    /\ IF Refused(ConsumerIndexes, consumers, ConsumerOf(r))
       THEN UNCHANGED <<consumers, ceffect>>
       ELSE /\ consumers' = consumers \cup {ConsumerOf(r)}
            /\ ceffect' = [ceffect EXCEPT ![r] = {ConsumerOf(r)}]
    /\ UNCHANGED <<cmessage, cphase, canswer>>

IsStored(r) == ceffect[r] # {}

AnswerRegistration(r) ==
    /\ cphase[r] = "insert"
    /\ cwrite[r] = "done"
    /\ CFinish(r, IF IsStored(r) THEN "created" ELSE "error")
    /\ UNCHANGED <<cmessage, cstore>>

GetConsumer(r) ==
    /\ cphase[r] = "getConsumer"
    /\ CFinish(r, IF WithName(cmessage[r].name) = {} THEN "notFound" ELSE "ok")
    /\ UNCHANGED <<cmessage, cstore>>

GetConsumerBySchema(r) ==
    /\ cphase[r] = "getBySchema"
    /\ CFinish(r, IF Registered(cmessage[r]) = {} THEN "notFound" ELSE "ok")
    /\ UNCHANGED <<cmessage, cstore>>

(* A call that times out or throws; an issued insert stays with the database. *)
ConsumerCallFails(r) ==
    /\ MayFail
    /\ r \in ConsumersInService
    /\ CFinish(r, "error")
    /\ UNCHANGED <<cmessage, cstore>>

CNext ==
    /\ \E r \in ConsumerRequests :
          \/ CSend(r) \/ CTake(r)
          \/ FindConsumer(r) \/ FindSchema(r)
          \/ ApplyRegistration(r) \/ AnswerRegistration(r)
          \/ GetConsumer(r) \/ GetConsumerBySchema(r)
          \/ ConsumerCallFails(r)
    /\ UNCHANGED schemas

(* What a stop of the process does to the requests of these actors. *)
CLost ==
    /\ cphase' = [r \in ConsumerRequests |->
                     IF cphase[r] \in ConsumerServing \cup {"queued"}
                     THEN "lost" ELSE cphase[r]]
    /\ UNCHANGED <<cmessage, canswer, cstore>>
==============================================================================
