--------------------------- MODULE RegistryService ---------------------------
(***************************************************************************)
(* The schema actors and the consumer actors of one process, over one      *)
(* database: ApplicationMain.scala starts both pools, each serves its own  *)
(* requests, and a stop of the process takes both.  They meet in the       *)
(* schemas collection, which a registration reads while schemas are        *)
(* created and deleted.                                                    *)
(***************************************************************************)
EXTENDS SchemaService

CONSTANTS ConsumerRequests, ConsumerMessages, ConsumerPoolSize, ConsumerIndexes

ASSUME ConsumerPoolAssumption == ConsumerPoolSize \in Nat \ {0}

(* RegisterConsumer, GetConsumer, GetConsumerBySchema. *)
ASSUME ConsumerMessagesAssumption ==
    \A m \in ConsumerMessages : m.op \in {"register", "get", "getBySchema"}

VARIABLES cmessage, cphase, canswer, cwrite, ceffect, consumers

Consumers == INSTANCE ConsumerService

consumerVars == <<cmessage, cphase, canswer, cwrite, ceffect, consumers>>
registryVars == <<vars, consumerVars>>

RegistryInit == Init /\ Consumers!CInit

SchemaStep ==
    /\ \E r \in Requests : Send(r) \/ ActorStep(r) \/ ApplyWrite(r)
    /\ UNCHANGED consumerVars

ConsumerStep == Consumers!CNext /\ UNCHANGED vars

(* The process stops: both pools lose what they hold. *)
Stop ==
    /\ MayCrash
    /\ \/ \E r \in Requests : phase[r] \in Serving \cup {"queued"}
       \/ \E r \in ConsumerRequests :
             cphase[r] \in Consumers!ConsumerServing \cup {"queued"}
    /\ phase' = [r \in Requests |-> IF phase[r] \in Serving \cup {"queued"}
                                    THEN "lost" ELSE phase[r]]
    /\ Consumers!CLost
    /\ UNCHANGED <<answer, found, requestVars, storeVars>>

RegistryNext == SchemaStep \/ ConsumerStep \/ Stop

RegistrySpec == RegistryInit /\ [][RegistryNext]_registryVars

-----------------------------------------------------------------------------
(* Type invariant of the consumers' part. *)
ConsumerTypeOK ==
    /\ cmessage \in [ConsumerRequests -> ConsumerMessages]
    /\ cphase \in [ConsumerRequests ->
                     {"unsent", "queued", "answered", "lost"}
                        \cup Consumers!ConsumerServing]
    /\ canswer \in [ConsumerRequests ->
                      {"none", "created", "exists", "noSchema", "ok",
                       "notFound", "error"}]
    /\ cwrite \in [ConsumerRequests -> {"none", "issued", "done"}]
    /\ consumers \subseteq
          [id: ConsumerRequests,
           name: {m.name : m \in ConsumerMessages},
           schemaName: {m.schemaName : m \in ConsumerMessages},
           schemaMajorVersion: {m.schemaMajorVersion : m \in ConsumerMessages},
           schemaMinorVersion: {m.schemaMinorVersion : m \in ConsumerMessages}]
    /\ ceffect \in [ConsumerRequests -> SUBSET consumers]

(* No consumer is registered against a version the registry never had: the   *)
(* version every stored consumer names was stored at some time, although it  *)
(* may have been deleted before, while or after the consumer was inserted.   *)
(* ConsumerActor.scala:84-95.                                                *)
RegisteredSchemaWasStored ==
    \A c \in consumers :
       Matching(EverStored, c.schemaName, c.schemaMajorVersion,
                c.schemaMinorVersion) # {}

(* 201 means the consumer is stored, as asked and for good; a 400 or a 404   *)
(* that the request stored nothing and will not.  ConsumerActor.scala:77-98. *)
ConsumerAnswersAreHonest ==
    \A r \in ConsumerRequests :
       /\ canswer[r] = "created" =>
             \E c \in consumers : /\ c.id = r
                                  /\ Consumers!SameRegistration(c, cmessage[r])
       /\ canswer[r] \in {"exists", "noSchema", "notFound"} =>
             cwrite[r] = "none" /\ ceffect[r] = {}

(* Racing registrations can store one consumer of one schema version more    *)
(* than once, but never more often than the pool has actors and requests     *)
(* have been given up with their insert issued.  ConsumerActor.scala:79-94.  *)
RegistrationsGivenUp ==
    {r \in ConsumerRequests : /\ cwrite[r] # "none"
                              /\ cphase[r] = "lost" \/ canswer[r] = "error"}

RegistrationsBounded ==
    \A c \in consumers :
       Cardinality({d \in consumers : Consumers!SameRegistration(c, d)})
          <= ConsumerPoolSize + Cardinality(RegistrationsGivenUp)

-----------------------------------------------------------------------------
(* "Schema specified in consumer request body does not exist."               *)
(* (ConsumerActor.scala:87) is the answer when the schema is not stored: a   *)
(* consumer is only inserted while its schema is.                            *)
InsertedWhileSchemaStored ==
    [][\A c \in consumers' \ consumers :
          Matching(schemas, c.schemaName, c.schemaMajorVersion,
                   c.schemaMinorVersion) # {}]_registryVars

(* MongoJob.yaml:17 makes the pair of consumer name and schema unique; a     *)
(* registration that conflicts with no stored pair is not answered 500.      *)
NewPairIsAccepted ==
    \A r \in ConsumerRequests :
       canswer[r] = "error" =>
          \E c \in consumers : Consumers!SameRegistration(c, cmessage[r])
==============================================================================
