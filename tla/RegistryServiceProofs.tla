------------------------ MODULE RegistryServiceProofs -------------------------
(***************************************************************************)
(* Theorems about the schema actors and the consumer actors together, for  *)
(* every instance of RegistryService.                                      *)
(***************************************************************************)
EXTENDS RegistryService, SchemaServiceProofs

(* To the schema actors a step of the registry is one of theirs or none: a   *)
(* stop of the process is a Crash, or finds nothing of theirs to drop.       *)
LEMMA RegistryStepIsSchemaStep ==
    ASSUME TypeOK, [RegistryNext]_registryVars
    PROVE [Next]_vars
<1>1. CASE SchemaStep
  BY <1>1 DEF SchemaStep, Next
<1>2. CASE ConsumerStep
  BY <1>2 DEF ConsumerStep
<1>3. CASE Stop
  <2>1. CASE \E r \in Requests : phase[r] \in Serving \cup {"queued"}
    BY <1>3, <2>1 DEF Stop, Crash, Next
  <2>2. CASE \A r \in Requests : phase[r] \notin Serving \cup {"queued"}
    <3>1. phase' = phase
      BY <1>3, <2>2 DEF Stop, TypeOK
    <3> QED BY <1>3, <3>1 DEF Stop, vars, requestVars, storeVars
  <2> QED BY <2>1, <2>2
<1>4. CASE UNCHANGED registryVars
  BY <1>4 DEF registryVars
<1> QED BY <1>1, <1>2, <1>3, <1>4 DEF RegistryNext

(* The consumer actors take nothing from the schema actors: beside them the  *)
(* schema service behaves as it does alone, and every theorem about it holds *)
(* of the registry too.                                                      *)
THEOREM RegistryImplementsService == RegistrySpec => Spec
<1>1. RegistryInit => Init /\ TypeOK
  BY TypeInit DEF RegistryInit
<1>2. TypeOK /\ [RegistryNext]_registryVars => [Next]_vars
  BY RegistryStepIsSchemaStep
<1>3. TypeOK /\ [RegistryNext]_registryVars => TypeOK'
  BY <1>2, TypeNext
<1> QED BY <1>1, <1>2, <1>3, PTL DEF RegistrySpec, Spec

-----------------------------------------------------------------------------
(* To the consumer actors a step of the registry is one of theirs for one    *)
(* request, the stop of the process, or nothing they notice.                 *)
ConsumerRequestStep(r) ==
    \/ Consumers!CSend(r) \/ Consumers!CTake(r)
    \/ Consumers!FindConsumer(r) \/ Consumers!FindSchema(r)
    \/ Consumers!ApplyRegistration(r) \/ Consumers!AnswerRegistration(r)
    \/ Consumers!GetConsumer(r) \/ Consumers!GetConsumerBySchema(r)
    \/ Consumers!ConsumerCallFails(r)

LEMMA ConsumerCases ==
    ASSUME [RegistryNext]_registryVars
    PROVE \/ \E r \in ConsumerRequests : ConsumerRequestStep(r) /\ UNCHANGED vars
          \/ Consumers!CLost
          \/ UNCHANGED consumerVars
<1>1. CASE SchemaStep
  BY <1>1 DEF SchemaStep
<1>2. CASE ConsumerStep
  BY <1>2 DEF ConsumerStep, Consumers!CNext, ConsumerRequestStep
<1>3. CASE Stop
  BY <1>3 DEF Stop
<1>4. CASE UNCHANGED registryVars
  BY <1>4 DEF registryVars
<1> QED BY <1>1, <1>2, <1>3, <1>4 DEF RegistryNext

(* A request enters its first call, which fits what it asks for. *)
LEMMA ConsumerTakeEnters ==
    ASSUME ConsumerTypeOK, NEW r \in ConsumerRequests, Consumers!CTake(r)
    PROVE \E p \in {"findConsumer", "getConsumer", "getBySchema"} :
             cphase' = [cphase EXCEPT ![r] = p]
<1>1. cmessage[r].op \in {"register", "get", "getBySchema"}
  BY ConsumerMessagesAssumption DEF ConsumerTypeOK
<1> QED BY <1>1 DEF Consumers!CTake, Consumers!CGoto

LEMMA ConsumerOfType ==
    ASSUME ConsumerTypeOK, NEW r \in ConsumerRequests
    PROVE Consumers!ConsumerOf(r) \in
          [id: ConsumerRequests,
           name: {m.name : m \in ConsumerMessages},
           schemaName: {m.schemaName : m \in ConsumerMessages},
           schemaMajorVersion: {m.schemaMajorVersion : m \in ConsumerMessages},
           schemaMinorVersion: {m.schemaMinorVersion : m \in ConsumerMessages}]
BY DEF ConsumerTypeOK, Consumers!ConsumerOf

LEMMA ConsumerTypeNext ==
    ConsumerTypeOK /\ [RegistryNext]_registryVars => ConsumerTypeOK'
<1> SUFFICES ASSUME ConsumerTypeOK, [RegistryNext]_registryVars
             PROVE ConsumerTypeOK'
  OBVIOUS
<1> USE DEF Consumers!cstore
<1>1. ASSUME NEW r \in ConsumerRequests, Consumers!CSend(r) PROVE ConsumerTypeOK'
  BY <1>1 DEF ConsumerTypeOK, Consumers!CSend, Consumers!CGoto
<1>2. ASSUME NEW r \in ConsumerRequests, Consumers!CTake(r) PROVE ConsumerTypeOK'
  <2>1. PICK p \in {"findConsumer", "getConsumer", "getBySchema"} :
             cphase' = [cphase EXCEPT ![r] = p]
    BY <1>2, ConsumerTakeEnters
  <2> QED BY <1>2, <2>1 DEF ConsumerTypeOK, Consumers!CTake, Consumers!CGoto,
                            Consumers!ConsumerServing
<1>3. ASSUME NEW r \in ConsumerRequests,
             Consumers!FindConsumer(r) \/ Consumers!FindSchema(r)
      PROVE ConsumerTypeOK'
  BY <1>3 DEF ConsumerTypeOK, Consumers!FindConsumer, Consumers!FindSchema,
              Consumers!CGoto, Consumers!CFinish, Consumers!ConsumerServing
<1>4. ASSUME NEW r \in ConsumerRequests, Consumers!ApplyRegistration(r)
      PROVE ConsumerTypeOK'
  <2>1. UNCHANGED <<cmessage, cphase, canswer>>
        /\ cwrite' = [cwrite EXCEPT ![r] = "done"]
    BY <1>4 DEF Consumers!ApplyRegistration
  <2>2. CASE UNCHANGED <<consumers, ceffect>>
    BY <2>1, <2>2 DEF ConsumerTypeOK
  <2>3. CASE /\ consumers' = consumers \cup {Consumers!ConsumerOf(r)}
             /\ ceffect' = [ceffect EXCEPT ![r] = {Consumers!ConsumerOf(r)}]
    <3>1. ceffect' \in [ConsumerRequests -> SUBSET consumers']
      BY <2>3 DEF ConsumerTypeOK
    <3> QED BY <2>1, <2>3, <3>1, ConsumerOfType DEF ConsumerTypeOK
  <2> QED BY <1>4, <2>2, <2>3 DEF Consumers!ApplyRegistration
<1>5. ASSUME NEW r \in ConsumerRequests,
             \/ Consumers!AnswerRegistration(r) \/ Consumers!GetConsumer(r)
             \/ Consumers!GetConsumerBySchema(r) \/ Consumers!ConsumerCallFails(r)
      PROVE ConsumerTypeOK'
  BY <1>5 DEF ConsumerTypeOK, Consumers!AnswerRegistration, Consumers!GetConsumer,
              Consumers!GetConsumerBySchema, Consumers!ConsumerCallFails,
              Consumers!CFinish
<1>6. CASE Consumers!CLost
  BY <1>6 DEF ConsumerTypeOK, Consumers!CLost
<1>7. CASE UNCHANGED consumerVars
  BY <1>7 DEF ConsumerTypeOK, consumerVars
<1> QED BY <1>1, <1>2, <1>3, <1>4, <1>5, <1>6, <1>7, ConsumerCases
        DEF ConsumerRequestStep

(* Every variable of the consumer actors keeps its type. *)
THEOREM ConsumerTypeCorrect == RegistrySpec => []ConsumerTypeOK
<1>1. RegistryInit => ConsumerTypeOK
  BY DEF RegistryInit, Consumers!CInit, ConsumerTypeOK
<1>2. ConsumerTypeOK /\ [RegistryNext]_registryVars => ConsumerTypeOK'
  BY ConsumerTypeNext
<1> QED BY <1>1, <1>2, PTL DEF RegistrySpec

-----------------------------------------------------------------------------
(***************************************************************************)
(* The life of a registration.  A request issues its insert when it has    *)
(* found its schema, at most one; until the database executes it nothing   *)
(* of it is stored, what it stores is the consumer asked for, and no       *)
(* consumer comes from elsewhere.                                          *)
(***************************************************************************)
OneRegistration(r) ==
    /\ cphase[r] \in {"unsent", "queued", "findConsumer", "findSchema",
                      "getConsumer", "getBySchema"} => cwrite[r] = "none"
    /\ cphase[r] = "insert" => cwrite[r] # "none"
    /\ cphase[r] # "answered" => canswer[r] = "none"
    /\ cwrite[r] # "done" => ceffect[r] = {}
    /\ ceffect[r] \subseteq {Consumers!ConsumerOf(r)}

RegistrationInv ==
    /\ \A r \in ConsumerRequests : OneRegistration(r)
    /\ \A c \in consumers : \E r \in ConsumerRequests : ceffect[r] = {c}
    /\ \A r \in ConsumerRequests :
          /\ canswer[r] = "created" => ceffect[r] # {}
          /\ canswer[r] \in {"exists", "noSchema", "notFound"} => cwrite[r] = "none"

LEMMA RegistrationNext ==
    ConsumerTypeOK /\ RegistrationInv /\ [RegistryNext]_registryVars
       => RegistrationInv'
<1> SUFFICES ASSUME ConsumerTypeOK, RegistrationInv, [RegistryNext]_registryVars
             PROVE RegistrationInv'
  OBVIOUS
<1> USE DEF ConsumerTypeOK, RegistrationInv, OneRegistration, Consumers!cstore
<1>0. cmessage' = cmessage => \A r \in ConsumerRequests :
                                 Consumers!ConsumerOf(r)' = Consumers!ConsumerOf(r)
  BY DEF Consumers!ConsumerOf
<1>1. ASSUME NEW r \in ConsumerRequests, Consumers!CSend(r) PROVE RegistrationInv'
  BY <1>0, <1>1 DEF Consumers!CSend, Consumers!CGoto
<1>2. ASSUME NEW r \in ConsumerRequests, Consumers!CTake(r) PROVE RegistrationInv'
  <2>1. PICK p \in {"findConsumer", "getConsumer", "getBySchema"} :
             cphase' = [cphase EXCEPT ![r] = p]
    BY <1>2, ConsumerTakeEnters
  <2>2. cphase[r] = "queued" /\ UNCHANGED <<cmessage, canswer, consumers, cwrite, ceffect>>
    BY <1>2 DEF Consumers!CTake, Consumers!CGoto
  <2> QED BY <1>0, <2>1, <2>2
<1>3. ASSUME NEW r \in ConsumerRequests, Consumers!FindConsumer(r)
      PROVE RegistrationInv'
  BY <1>0, <1>3 DEF Consumers!FindConsumer, Consumers!CGoto, Consumers!CFinish
<1>4. ASSUME NEW r \in ConsumerRequests, Consumers!FindSchema(r)
      PROVE RegistrationInv'
  BY <1>0, <1>4 DEF Consumers!FindSchema, Consumers!CGoto, Consumers!CFinish
<1>5. ASSUME NEW r \in ConsumerRequests, Consumers!ApplyRegistration(r)
      PROVE RegistrationInv'
  <2>1. /\ UNCHANGED <<cmessage, cphase, canswer>>
        /\ cwrite[r] = "issued"
        /\ cwrite' = [cwrite EXCEPT ![r] = "done"]
    BY <1>5 DEF Consumers!ApplyRegistration
  <2>2. CASE UNCHANGED <<consumers, ceffect>>
    BY <1>0, <2>1, <2>2
  <2>3. CASE /\ consumers' = consumers \cup {Consumers!ConsumerOf(r)}
             /\ ceffect' = [ceffect EXCEPT ![r] = {Consumers!ConsumerOf(r)}]
    <3>1. ceffect[r] = {}
      BY <2>1
    <3>2. \A c \in consumers' : \E q \in ConsumerRequests : ceffect'[q] = {c}
      BY <2>3, <3>1
    <3>3. ASSUME NEW q \in ConsumerRequests PROVE OneRegistration(q)'
      <4>1. Consumers!ConsumerOf(q)' = Consumers!ConsumerOf(q)
        BY <1>0, <2>1
      <4>2. CASE q = r
        <5>1. cwrite'[q] = "done" /\ ceffect'[q] = {Consumers!ConsumerOf(q)}
          BY <2>1, <2>3, <4>2
        <5> QED BY <2>1, <4>1, <4>2, <5>1
      <4>3. CASE q # r
        BY <2>1, <2>3, <4>1, <4>3
      <4> QED BY <4>2, <4>3
    <3>4. ASSUME NEW q \in ConsumerRequests
          PROVE /\ canswer'[q] = "created" => ceffect'[q] # {}
                /\ canswer'[q] \in {"exists", "noSchema", "notFound"} =>
                      cwrite'[q] = "none"
      BY <2>1, <2>3
    <3> QED BY <3>2, <3>3, <3>4
  <2> QED BY <1>5, <2>2, <2>3 DEF Consumers!ApplyRegistration
<1>6. ASSUME NEW r \in ConsumerRequests, Consumers!AnswerRegistration(r)
      PROVE RegistrationInv'
  BY <1>0, <1>6 DEF Consumers!AnswerRegistration, Consumers!CFinish, Consumers!IsStored
<1>7. ASSUME NEW r \in ConsumerRequests,
             \/ Consumers!GetConsumer(r) \/ Consumers!GetConsumerBySchema(r)
             \/ Consumers!ConsumerCallFails(r)
      PROVE RegistrationInv'
  BY <1>0, <1>7 DEF Consumers!GetConsumer, Consumers!GetConsumerBySchema,
                    Consumers!ConsumerCallFails, Consumers!CFinish
<1>8. CASE Consumers!CLost
  BY <1>0, <1>8 DEF Consumers!CLost, Consumers!ConsumerServing
<1>9. CASE UNCHANGED consumerVars
  BY <1>0, <1>9 DEF consumerVars
<1> QED BY <1>1, <1>2, <1>3, <1>4, <1>5, <1>6, <1>7, <1>8, <1>9, ConsumerCases
        DEF ConsumerRequestStep

LEMMA RegistrationCorrect == RegistrySpec => []RegistrationInv
<1>1. RegistryInit => RegistrationInv
  BY DEF RegistryInit, Consumers!CInit, RegistrationInv, OneRegistration
<1>2. ConsumerTypeOK /\ RegistrationInv /\ [RegistryNext]_registryVars
         => RegistrationInv'
  BY RegistrationNext
<1> QED BY <1>1, <1>2, ConsumerTypeCorrect, PTL DEF RegistrySpec

(* 201 is only answered for a consumer that is stored, as asked for and for  *)
(* good, and a 400 or 404 only when the request stored nothing and never     *)
(* will, through failures, late inserts and stops of the process.            *)
THEOREM ConsumerAnswersHonest == RegistrySpec => []ConsumerAnswersAreHonest
<1>1. ConsumerTypeOK /\ RegistrationInv => ConsumerAnswersAreHonest
  <2> SUFFICES ASSUME ConsumerTypeOK, RegistrationInv, NEW r \in ConsumerRequests
               PROVE /\ canswer[r] = "created" =>
                           \E c \in consumers :
                              /\ c.id = r
                              /\ Consumers!SameRegistration(c, cmessage[r])
                     /\ canswer[r] \in {"exists", "noSchema", "notFound"} =>
                           cwrite[r] = "none" /\ ceffect[r] = {}
    BY DEF ConsumerAnswersAreHonest
  <2>1. ASSUME canswer[r] = "created"
        PROVE Consumers!ConsumerOf(r) \in consumers
    BY <2>1 DEF RegistrationInv, OneRegistration, ConsumerTypeOK
  <2>2. /\ Consumers!ConsumerOf(r).id = r
        /\ Consumers!SameRegistration(Consumers!ConsumerOf(r), cmessage[r])
    BY DEF Consumers!ConsumerOf, Consumers!SameRegistration
  <2>3. canswer[r] \in {"exists", "noSchema", "notFound"} =>
           cwrite[r] = "none" /\ ceffect[r] = {}
    BY DEF RegistrationInv, OneRegistration
  <2> QED BY <2>1, <2>2, <2>3
<1> QED BY <1>1, ConsumerTypeCorrect, RegistrationCorrect, PTL

-----------------------------------------------------------------------------
(***************************************************************************)
(* What was once in the schemas collection was there for ever after, so a  *)
(* registration that found its schema can rely on that and on no more.     *)
(***************************************************************************)
WasStored(m) ==
    Matching(EverStored, m.schemaName, m.schemaMajorVersion,
             m.schemaMinorVersion) # {}

SchemaInv == \A r \in ConsumerRequests : cwrite[r] # "none" => WasStored(cmessage[r])

LEMMA WasStoredStays ==
    ASSUME TypeOK, WriteInv, Ledger, [RegistryNext]_registryVars, NEW m, WasStored(m)
    PROVE WasStored(m)'
<1>1. EverStored \subseteq EverStored'
  BY RegistryStepIsSchemaStep, EverStoredGrows
<1> QED BY <1>1 DEF WasStored, Matching, OfMajor, Named

LEMMA FoundWasStored ==
    ASSUME Ledger, NEW m, Consumers!SchemaIsStored(m)
    PROVE WasStored(m)
<1>1. schemas \subseteq EverStored
  BY DEF Ledger, EverStored
<1> QED BY <1>1 DEF WasStored, Matching, OfMajor, Named, Consumers!SchemaIsStored,
        Consumers!SchemaNamed, Consumers!Matching, Consumers!OfMajor, Consumers!Named

LEMMA SchemaInvNext ==
    TypeOK /\ WriteInv /\ Ledger /\ ConsumerTypeOK /\ SchemaInv
       /\ [RegistryNext]_registryVars => SchemaInv'
<1> SUFFICES ASSUME TypeOK, WriteInv, Ledger, ConsumerTypeOK, SchemaInv,
                    [RegistryNext]_registryVars,
                    NEW r \in ConsumerRequests, cwrite'[r] # "none"
             PROVE WasStored(cmessage[r])'
  BY DEF SchemaInv
<1> USE DEF ConsumerRequestStep, Consumers!cstore
<1>1. cmessage' = cmessage
  BY ConsumerCases DEF consumerVars, Consumers!CSend, Consumers!CTake,
     Consumers!FindConsumer, Consumers!FindSchema, Consumers!ApplyRegistration,
     Consumers!AnswerRegistration, Consumers!GetConsumer,
     Consumers!GetConsumerBySchema, Consumers!ConsumerCallFails, Consumers!CLost
<1>2. cwrite[r] # "none" \/ Consumers!SchemaIsStored(cmessage[r])
  <2>1. ASSUME NEW q \in ConsumerRequests, Consumers!FindSchema(q)
        PROVE cwrite[r] # "none" \/ Consumers!SchemaIsStored(cmessage[r])
    BY <2>1 DEF Consumers!FindSchema, ConsumerTypeOK
  <2>2. ASSUME NEW q \in ConsumerRequests, Consumers!ApplyRegistration(q)
        PROVE cwrite[r] # "none"
    BY <2>2 DEF Consumers!ApplyRegistration, ConsumerTypeOK
  <2>3. CASE cwrite' = cwrite
    BY <2>3
  <2> QED BY <2>1, <2>2, <2>3, ConsumerCases
          DEF consumerVars, Consumers!CSend, Consumers!CTake,
              Consumers!FindConsumer, Consumers!AnswerRegistration,
              Consumers!GetConsumer, Consumers!GetConsumerBySchema,
              Consumers!ConsumerCallFails, Consumers!CLost
<1>3. WasStored(cmessage[r])
  BY <1>2, FoundWasStored DEF SchemaInv
<1> QED BY <1>1, <1>3, WasStoredStays DEF WasStored

(* The version a stored consumer names was stored at some time before it,    *)
(* whatever is created and deleted meanwhile: a race, a late insert or a     *)
(* stop can leave a consumer of a deleted version, never of one that never   *)
(* was.                                                                      *)
THEOREM RegisteredWasStored == RegistrySpec => []RegisteredSchemaWasStored
<1>1. RegistryInit => SchemaInv
  BY DEF RegistryInit, Consumers!CInit, SchemaInv
<1>2. TypeOK /\ WriteInv /\ Ledger /\ ConsumerTypeOK /\ SchemaInv
         /\ [RegistryNext]_registryVars => SchemaInv'
  BY SchemaInvNext
<1>3. RegistrationInv /\ SchemaInv => RegisteredSchemaWasStored
  <2> SUFFICES ASSUME RegistrationInv, SchemaInv, NEW c \in consumers
               PROVE WasStored(c)
    BY DEF RegisteredSchemaWasStored, WasStored
  <2>1. PICK r \in ConsumerRequests : ceffect[r] = {c}
    BY DEF RegistrationInv
  <2>2. c = Consumers!ConsumerOf(r) /\ WasStored(cmessage[r])
    BY <2>1 DEF RegistrationInv, OneRegistration, SchemaInv
  <2> QED BY <2>2 DEF WasStored, Consumers!ConsumerOf
<1> QED BY <1>1, <1>2, <1>3, RegistryImplementsService, TypeCorrect, WriteCorrect,
           LedgerBalances, ConsumerTypeCorrect, RegistrationCorrect, PTL
        DEF RegistrySpec

-----------------------------------------------------------------------------
ConsumersServed == Consumers!ConsumersInService

ConsumerPoolInv ==
    IsFiniteSet(ConsumersServed) /\ Cardinality(ConsumersServed) <= ConsumerPoolSize

LEMMA SameCardinality == \A S : Consumers!Cardinality(S) = Cardinality(S)
BY DEF Consumers!Cardinality, Cardinality

LEMMA SubsetBounded ==
    ASSUME NEW T, IsFiniteSet(T), NEW S \in SUBSET T, NEW b \in Nat,
           Cardinality(T) <= b
    PROVE IsFiniteSet(S) /\ Cardinality(S) <= b
<1>1. IsFiniteSet(S) /\ Cardinality(S) <= Cardinality(T)
  BY FS_Subset
<1>2. Cardinality(S) \in Nat /\ Cardinality(T) \in Nat
  BY <1>1, FS_CardinalityType
<1> QED BY <1>1, <1>2

LEMMA ServedShrinks ==
    ASSUME ConsumerTypeOK, [RegistryNext]_registryVars
    PROVE \/ ConsumersServed' \subseteq ConsumersServed
          \/ \E r \in ConsumerRequests :
                /\ Consumers!CTake(r)
                /\ ConsumersServed' = ConsumersServed \cup {r}
<1> USE DEF ConsumerTypeOK, ConsumersServed, Consumers!ConsumersInService,
            Consumers!ConsumerServing
<1>1. ASSUME NEW r \in ConsumerRequests,
             \/ Consumers!CSend(r) \/ Consumers!FindConsumer(r)
             \/ Consumers!FindSchema(r) \/ Consumers!ApplyRegistration(r)
      PROVE ConsumersServed' \subseteq ConsumersServed
  BY <1>1 DEF Consumers!CSend, Consumers!FindConsumer, Consumers!FindSchema,
              Consumers!ApplyRegistration, Consumers!CGoto, Consumers!CFinish
<1>2. ASSUME NEW r \in ConsumerRequests,
             \/ Consumers!AnswerRegistration(r) \/ Consumers!GetConsumer(r)
             \/ Consumers!GetConsumerBySchema(r) \/ Consumers!ConsumerCallFails(r)
      PROVE ConsumersServed' \subseteq ConsumersServed
  BY <1>2 DEF Consumers!AnswerRegistration, Consumers!GetConsumer,
              Consumers!GetConsumerBySchema, Consumers!ConsumerCallFails,
              Consumers!CFinish
<1>3. ASSUME NEW r \in ConsumerRequests, Consumers!CTake(r)
      PROVE ConsumersServed' = ConsumersServed \cup {r}
  BY <1>3, ConsumerTakeEnters
<1>4. ASSUME Consumers!CLost \/ UNCHANGED consumerVars
      PROVE ConsumersServed' \subseteq ConsumersServed
  BY <1>4 DEF Consumers!CLost, consumerVars
<1> QED BY <1>1, <1>2, <1>3, <1>4, ConsumerCases DEF ConsumerRequestStep

(* No more registrations and lookups are in service than the pool has actors. *)
THEOREM ConsumerPoolIsBounded == RegistrySpec => []ConsumerPoolInv
<1>1. RegistryInit => ConsumerPoolInv
  <2> SUFFICES ASSUME RegistryInit PROVE ConsumerPoolInv
    OBVIOUS
  <2>1. ConsumersServed = {}
    BY DEF RegistryInit, Consumers!CInit, ConsumersServed,
           Consumers!ConsumersInService, Consumers!ConsumerServing
  <2> QED BY <2>1, FS_EmptySet, ConsumerPoolAssumption DEF ConsumerPoolInv
<1>2. ConsumerTypeOK /\ ConsumerPoolInv /\ [RegistryNext]_registryVars
         => ConsumerPoolInv'
  <2> SUFFICES ASSUME ConsumerTypeOK, ConsumerPoolInv, [RegistryNext]_registryVars
               PROVE ConsumerPoolInv'
    OBVIOUS
  <2>1. CASE ConsumersServed' \subseteq ConsumersServed
    BY <2>1, SubsetBounded, ConsumerPoolAssumption DEF ConsumerPoolInv
  <2>2. ASSUME NEW r \in ConsumerRequests, Consumers!CTake(r),
               ConsumersServed' = ConsumersServed \cup {r}
        PROVE ConsumerPoolInv'
    <3>1. IsFiniteSet(ConsumersServed) /\ Cardinality(ConsumersServed) \in Nat
      BY FS_CardinalityType DEF ConsumerPoolInv
    <3>2. Cardinality(ConsumersServed) < ConsumerPoolSize
      BY <2>2, SameCardinality DEF Consumers!CTake, ConsumersServed
    <3>3. /\ IsFiniteSet(ConsumersServed')
          /\ \/ Cardinality(ConsumersServed') = Cardinality(ConsumersServed)
             \/ Cardinality(ConsumersServed') = Cardinality(ConsumersServed) + 1
      BY <2>2, <3>1, FS_AddElement
    <3> QED BY <3>1, <3>2, <3>3, ConsumerPoolAssumption DEF ConsumerPoolInv
  <2> QED BY <2>1, <2>2, ServedShrinks
<1> QED BY <1>1, <1>2, ConsumerTypeCorrect, PTL DEF RegistrySpec

-----------------------------------------------------------------------------
(***************************************************************************)
(* An insert still at the database has its actor waiting for it, or was    *)
(* given up.  What is given up stays so, and was in service before.        *)
(***************************************************************************)
ConsumerAttended ==
    \A r \in ConsumerRequests : cwrite[r] = "issued" =>
       cphase[r] \in {"insert", "lost"} \/ canswer[r] = "error"

GivenUpRegistrationsInv == IsFiniteSet(RegistrationsGivenUp)

LEMMA ConsumerAttendedNext ==
    ConsumerTypeOK /\ RegistrationInv /\ ConsumerAttended
       /\ [RegistryNext]_registryVars => ConsumerAttended'
<1> SUFFICES ASSUME ConsumerTypeOK, RegistrationInv, ConsumerAttended,
                    [RegistryNext]_registryVars
             PROVE ConsumerAttended'
  OBVIOUS
<1> USE DEF ConsumerTypeOK, RegistrationInv, OneRegistration, ConsumerAttended,
            Consumers!cstore
<1>1. ASSUME NEW r \in ConsumerRequests,
             \/ Consumers!CSend(r) \/ Consumers!FindConsumer(r)
             \/ Consumers!FindSchema(r) \/ Consumers!ApplyRegistration(r)
      PROVE ConsumerAttended'
  BY <1>1 DEF Consumers!CSend, Consumers!FindConsumer, Consumers!FindSchema,
              Consumers!ApplyRegistration, Consumers!CGoto, Consumers!CFinish
<1>2. ASSUME NEW r \in ConsumerRequests, Consumers!CTake(r) PROVE ConsumerAttended'
  BY <1>2 DEF Consumers!CTake, Consumers!CGoto
<1>3. ASSUME NEW r \in ConsumerRequests,
             \/ Consumers!AnswerRegistration(r) \/ Consumers!GetConsumer(r)
             \/ Consumers!GetConsumerBySchema(r) \/ Consumers!ConsumerCallFails(r)
      PROVE ConsumerAttended'
  BY <1>3 DEF Consumers!AnswerRegistration, Consumers!GetConsumer,
              Consumers!GetConsumerBySchema, Consumers!ConsumerCallFails,
              Consumers!CFinish
<1>4. CASE Consumers!CLost
  BY <1>4 DEF Consumers!CLost, Consumers!ConsumerServing
<1>5. CASE UNCHANGED consumerVars
  BY <1>5 DEF consumerVars
<1> QED BY <1>1, <1>2, <1>3, <1>4, <1>5, ConsumerCases DEF ConsumerRequestStep

LEMMA RegistrationsGivenUpGrow ==
    ASSUME ConsumerTypeOK, RegistrationInv, [RegistryNext]_registryVars
    PROVE /\ RegistrationsGivenUp \subseteq RegistrationsGivenUp'
          /\ RegistrationsGivenUp' \subseteq RegistrationsGivenUp \cup ConsumersServed
<1> DEFINE Grow == /\ RegistrationsGivenUp \subseteq RegistrationsGivenUp'
                   /\ RegistrationsGivenUp' \subseteq
                         RegistrationsGivenUp \cup ConsumersServed
<1> USE DEF ConsumerTypeOK, RegistrationsGivenUp, ConsumersServed,
            Consumers!ConsumersInService, Consumers!ConsumerServing, Consumers!cstore
<1>1. ASSUME NEW r \in ConsumerRequests,
             \/ Consumers!CSend(r) \/ Consumers!FindConsumer(r)
             \/ Consumers!FindSchema(r) \/ Consumers!ApplyRegistration(r)
      PROVE Grow
  BY <1>1 DEF Consumers!CSend, Consumers!FindConsumer, Consumers!FindSchema,
              Consumers!ApplyRegistration, Consumers!CGoto, Consumers!CFinish,
              RegistrationInv, OneRegistration
<1>2. ASSUME NEW r \in ConsumerRequests, Consumers!CTake(r) PROVE Grow
  <2>1. PICK p \in {"findConsumer", "getConsumer", "getBySchema"} :
             cphase' = [cphase EXCEPT ![r] = p]
    BY <1>2, ConsumerTakeEnters
  <2>2. cphase[r] = "queued" /\ UNCHANGED <<canswer, cwrite>>
    BY <1>2 DEF Consumers!CTake, Consumers!CGoto
  <2> QED BY <2>1, <2>2
<1>3. ASSUME NEW r \in ConsumerRequests,
             \/ Consumers!AnswerRegistration(r) \/ Consumers!GetConsumer(r)
             \/ Consumers!GetConsumerBySchema(r) \/ Consumers!ConsumerCallFails(r)
      PROVE Grow
  <2>1. cphase[r] \in Consumers!ConsumerServing /\ canswer[r] = "none"
    BY <1>3 DEF Consumers!AnswerRegistration, Consumers!GetConsumer,
                Consumers!GetConsumerBySchema, Consumers!ConsumerCallFails,
                RegistrationInv, OneRegistration
  <2>2. /\ cphase' = [cphase EXCEPT ![r] = "answered"]
        /\ \E a : canswer' = [canswer EXCEPT ![r] = a]
        /\ cwrite' = cwrite
    BY <1>3 DEF Consumers!AnswerRegistration, Consumers!GetConsumer,
                Consumers!GetConsumerBySchema, Consumers!ConsumerCallFails,
                Consumers!CFinish
  <2> QED BY <2>1, <2>2
<1>4. ASSUME Consumers!CLost PROVE Grow
  <2>1. /\ UNCHANGED <<canswer, cwrite>>
        /\ \A r \in ConsumerRequests :
              cphase'[r] = IF cphase[r] \in Consumers!ConsumerServing \cup {"queued"}
                           THEN "lost" ELSE cphase[r]
    BY <1>4 DEF Consumers!CLost
  <2>2. \A r \in ConsumerRequests : cphase[r] = "queued" => cwrite[r] = "none"
    BY DEF RegistrationInv, OneRegistration
  <2> QED BY <2>1, <2>2
<1>5. CASE UNCHANGED consumerVars
  BY <1>5 DEF consumerVars
<1> QED BY <1>1, <1>2, <1>3, <1>4, <1>5, ConsumerCases DEF ConsumerRequestStep

LEMMA RegistrationsGivenUpFinite ==
    ConsumerTypeOK /\ RegistrationInv /\ ConsumerPoolInv /\ GivenUpRegistrationsInv
       /\ [RegistryNext]_registryVars => GivenUpRegistrationsInv'
<1> SUFFICES ASSUME ConsumerTypeOK, RegistrationInv, ConsumerPoolInv,
                    GivenUpRegistrationsInv, [RegistryNext]_registryVars
             PROVE IsFiniteSet(RegistrationsGivenUp')
  BY DEF GivenUpRegistrationsInv
<1>1. IsFiniteSet(RegistrationsGivenUp \cup ConsumersServed)
  BY FS_Union DEF ConsumerPoolInv, GivenUpRegistrationsInv
<1> QED BY <1>1, RegistrationsGivenUpGrow, FS_Subset

(***************************************************************************)
(* The stored registrations that say the same as c, and the requests that  *)
(* will say it without looking again.  A request joins them only while     *)
(* none is stored; the first to be stored finds them all in service or     *)
(* given up, and from then on they only become fewer.                      *)
(***************************************************************************)
Registrations(c) == {d \in consumers : Consumers!SameRegistration(c, d)}

Pending(r) == cphase[r] = "findSchema" \/ cwrite[r] = "issued"

Pendings(c) ==
    {r \in ConsumerRequests : Pending(r) /\ Consumers!SameRegistration(c, cmessage[r])}

RegistrationClaims(c) ==
    Registrations(c) \cup {Consumers!ConsumerOf(r) : r \in Pendings(c)}

RegistrationBound == ConsumerPoolSize + Cardinality(RegistrationsGivenUp)

RegistrationClaimsInv ==
    \A c \in consumers :
       /\ IsFiniteSet(RegistrationClaims(c))
       /\ Cardinality(RegistrationClaims(c)) <= RegistrationBound

LEMMA ConsumerMessagesStay ==
    ASSUME [RegistryNext]_registryVars
    PROVE cmessage' = cmessage
BY ConsumerCases DEF ConsumerRequestStep, consumerVars, Consumers!CSend,
   Consumers!CTake, Consumers!FindConsumer, Consumers!FindSchema,
   Consumers!ApplyRegistration, Consumers!AnswerRegistration,
   Consumers!GetConsumer, Consumers!GetConsumerBySchema,
   Consumers!ConsumerCallFails, Consumers!CLost

(* Only the insert of a pending registration changes the collection. *)
LEMMA ConsumersGrow ==
    ASSUME [RegistryNext]_registryVars
    PROVE \/ consumers' = consumers
          \/ \E r \in ConsumerRequests :
                /\ Consumers!ApplyRegistration(r)
                /\ consumers' = consumers \cup {Consumers!ConsumerOf(r)}
<1>1. ASSUME NEW r \in ConsumerRequests, Consumers!ApplyRegistration(r)
      PROVE \/ consumers' = consumers
            \/ consumers' = consumers \cup {Consumers!ConsumerOf(r)}
  BY <1>1 DEF Consumers!ApplyRegistration
<1>2. \/ \E r \in ConsumerRequests : Consumers!ApplyRegistration(r)
      \/ consumers' = consumers
  BY ConsumerCases DEF ConsumerRequestStep, consumerVars, Consumers!cstore,
     Consumers!CSend, Consumers!CTake, Consumers!FindConsumer, Consumers!FindSchema,
     Consumers!AnswerRegistration, Consumers!GetConsumer,
     Consumers!GetConsumerBySchema, Consumers!ConsumerCallFails, Consumers!CLost
<1> QED BY <1>1, <1>2

LEMMA PendingNext ==
    ASSUME ConsumerTypeOK, RegistrationInv, [RegistryNext]_registryVars,
           NEW r \in ConsumerRequests, Pending(r)'
    PROVE \/ Pending(r)
          \/ Consumers!FindConsumer(r) /\ Consumers!Registered(cmessage[r]) = {}
<1> USE DEF ConsumerTypeOK, Pending, Consumers!cstore
<1>1. ASSUME NEW q \in ConsumerRequests,
             Consumers!CSend(q) \/ Consumers!FindSchema(q)
             \/ Consumers!ApplyRegistration(q)
      PROVE Pending(r)
  BY <1>1 DEF Consumers!CSend, Consumers!FindSchema, Consumers!ApplyRegistration,
              Consumers!CGoto, Consumers!CFinish
<1>2. ASSUME NEW q \in ConsumerRequests, Consumers!FindConsumer(q)
      PROVE \/ Pending(r)
            \/ Consumers!FindConsumer(r) /\ Consumers!Registered(cmessage[r]) = {}
  BY <1>2 DEF Consumers!FindConsumer, Consumers!CGoto, Consumers!CFinish
<1>3. ASSUME NEW q \in ConsumerRequests, Consumers!CTake(q) PROVE Pending(r)
  <2>1. PICK p \in {"findConsumer", "getConsumer", "getBySchema"} :
             cphase' = [cphase EXCEPT ![q] = p]
    BY <1>3, ConsumerTakeEnters
  <2> QED BY <1>3, <2>1 DEF Consumers!CTake
<1>4. ASSUME NEW q \in ConsumerRequests,
             \/ Consumers!AnswerRegistration(q) \/ Consumers!GetConsumer(q)
             \/ Consumers!GetConsumerBySchema(q) \/ Consumers!ConsumerCallFails(q)
      PROVE Pending(r)
  BY <1>4 DEF Consumers!AnswerRegistration, Consumers!GetConsumer,
              Consumers!GetConsumerBySchema, Consumers!ConsumerCallFails,
              Consumers!CFinish
<1>5. ASSUME Consumers!CLost \/ UNCHANGED consumerVars PROVE Pending(r)
  BY <1>5 DEF Consumers!CLost, consumerVars
<1> QED BY <1>1, <1>2, <1>3, <1>4, <1>5, ConsumerCases DEF ConsumerRequestStep

(* A registration already stored gains no claim. *)
LEMMA RegistrationClaimsShrink ==
    ASSUME ConsumerTypeOK, RegistrationInv, [RegistryNext]_registryVars,
           NEW c, Registrations(c) # {}
    PROVE RegistrationClaims(c)' \subseteq RegistrationClaims(c)
<1>1. cmessage' = cmessage
  BY ConsumerMessagesStay
<1>2. ASSUME NEW r \in ConsumerRequests, Pending(r)',
             Consumers!SameRegistration(c, cmessage[r])
      PROVE Pending(r)
  <2>1. Consumers!Registered(cmessage[r]) # {}
    BY <1>2 DEF Registrations, Consumers!Registered, Consumers!SameRegistration
  <2> QED BY <1>2, <2>1, PendingNext
<1>3. \A r \in ConsumerRequests : Consumers!ConsumerOf(r)' = Consumers!ConsumerOf(r)
  BY <1>1 DEF Consumers!ConsumerOf
<1>4. ASSUME NEW d \in Registrations(c)' PROVE d \in RegistrationClaims(c)
  <2>1. d \in consumers' /\ Consumers!SameRegistration(c, d)
    BY <1>4 DEF Registrations, Consumers!SameRegistration
  <2>2. CASE d \in consumers
    BY <2>1, <2>2 DEF Registrations, RegistrationClaims
  <2>3. CASE d \notin consumers
    <3>1. PICK r \in ConsumerRequests :
               Consumers!ApplyRegistration(r) /\ d = Consumers!ConsumerOf(r)
      BY <2>1, <2>3, ConsumersGrow
    <3>2. Pending(r)
      BY <3>1 DEF Consumers!ApplyRegistration, Pending
    <3>3. Consumers!SameRegistration(c, cmessage[r])
      BY <2>1, <3>1 DEF Consumers!SameRegistration, Consumers!ConsumerOf
    <3> QED BY <3>1, <3>2, <3>3 DEF RegistrationClaims, Pendings
  <2> QED BY <2>2, <2>3
<1>5. Pendings(c)' \subseteq Pendings(c)
  BY <1>1, <1>2 DEF Pendings, Consumers!SameRegistration
<1> QED BY <1>3, <1>4, <1>5 DEF RegistrationClaims, Pendings

(* A registration not stored yet is claimed by no other requests than those. *)
LEMMA RegistrationClaimsOfUnstored ==
    ASSUME ConsumerTypeOK, ConsumerAttended, ConsumerPoolInv, GivenUpRegistrationsInv,
           NEW c, Registrations(c) = {}
    PROVE /\ IsFiniteSet(RegistrationClaims(c))
          /\ Cardinality(RegistrationClaims(c)) <= RegistrationBound
<1> DEFINE f == [r \in Pendings(c) |-> Consumers!ConsumerOf(r)]
           all == ConsumersServed \cup RegistrationsGivenUp
<1>1. Pendings(c) \subseteq all
  BY DEF Pendings, Pending, ConsumerAttended, ConsumersServed, RegistrationsGivenUp,
         Consumers!ConsumersInService, Consumers!ConsumerServing
<1>2. /\ Cardinality(ConsumersServed) \in Nat
      /\ Cardinality(RegistrationsGivenUp) \in Nat
      /\ Cardinality(ConsumersServed \cap RegistrationsGivenUp) \in Nat
  BY FS_CardinalityType, FS_Subset DEF ConsumerPoolInv, GivenUpRegistrationsInv
<1>3. /\ IsFiniteSet(all)
      /\ Cardinality(all) = Cardinality(ConsumersServed)
                               + Cardinality(RegistrationsGivenUp)
                               - Cardinality(ConsumersServed \cap RegistrationsGivenUp)
  BY FS_Union DEF ConsumerPoolInv, GivenUpRegistrationsInv
<1>4. RegistrationBound \in Nat /\ Cardinality(all) <= RegistrationBound
  BY <1>2, <1>3, ConsumerPoolAssumption DEF ConsumerPoolInv, RegistrationBound
<1>5. IsFiniteSet(Pendings(c)) /\ Cardinality(Pendings(c)) <= RegistrationBound
  BY <1>1, <1>3, <1>4, SubsetBounded
<1>6. RegistrationClaims(c) = {Consumers!ConsumerOf(r) : r \in Pendings(c)}
  BY DEF RegistrationClaims
<1>7. f \in Surjection(Pendings(c), RegistrationClaims(c))
  BY <1>6 DEF Surjection
<1>8. /\ IsFiniteSet(RegistrationClaims(c))
      /\ Cardinality(RegistrationClaims(c)) <= Cardinality(Pendings(c))
  BY <1>5, <1>7, FS_Surjection
<1>9. Cardinality(RegistrationClaims(c)) \in Nat /\ Cardinality(Pendings(c)) \in Nat
  BY <1>5, <1>8, FS_CardinalityType
<1> QED BY <1>4, <1>5, <1>8, <1>9

LEMMA RegistrationClaimsNext ==
    ConsumerTypeOK /\ RegistrationInv /\ ConsumerAttended /\ ConsumerPoolInv
       /\ GivenUpRegistrationsInv /\ RegistrationClaimsInv
       /\ [RegistryNext]_registryVars => RegistrationClaimsInv'
<1> SUFFICES ASSUME ConsumerTypeOK, RegistrationInv, ConsumerAttended,
                    ConsumerPoolInv, GivenUpRegistrationsInv, RegistrationClaimsInv,
                    [RegistryNext]_registryVars, NEW c \in consumers'
             PROVE /\ IsFiniteSet(RegistrationClaims(c)')
                   /\ Cardinality(RegistrationClaims(c)') <= RegistrationBound'
  BY DEF RegistrationClaimsInv
<1>1. RegistrationBound \in Nat /\ RegistrationBound' \in Nat
      /\ RegistrationBound <= RegistrationBound'
  <2>1. GivenUpRegistrationsInv'
    BY RegistrationsGivenUpFinite
  <2>2. Cardinality(RegistrationsGivenUp) <= Cardinality(RegistrationsGivenUp')
    BY <2>1, RegistrationsGivenUpGrow, FS_Subset DEF GivenUpRegistrationsInv
  <2>3. /\ Cardinality(RegistrationsGivenUp) \in Nat
        /\ Cardinality(RegistrationsGivenUp') \in Nat
    BY <2>1, FS_CardinalityType DEF GivenUpRegistrationsInv
  <2> QED BY <2>2, <2>3, ConsumerPoolAssumption DEF RegistrationBound
<1>2. ASSUME NEW C, IsFiniteSet(C), Cardinality(C) <= RegistrationBound,
             RegistrationClaims(c)' \subseteq C
      PROVE /\ IsFiniteSet(RegistrationClaims(c)')
            /\ Cardinality(RegistrationClaims(c)') <= RegistrationBound'
  <2>1. /\ IsFiniteSet(RegistrationClaims(c)')
        /\ Cardinality(RegistrationClaims(c)') <= RegistrationBound
    BY <1>1, <1>2, SubsetBounded
  <2>2. Cardinality(RegistrationClaims(c)') \in Nat
    BY <2>1, FS_CardinalityType
  <2> QED BY <1>1, <2>1, <2>2
<1>3. CASE Registrations(c) # {}
  <2>1. PICK d \in consumers : Consumers!SameRegistration(c, d)
    BY <1>3 DEF Registrations
  <2>2. RegistrationClaims(d) = RegistrationClaims(c)
    BY <2>1 DEF RegistrationClaims, Registrations, Pendings,
                Consumers!SameRegistration
  <2>3. /\ IsFiniteSet(RegistrationClaims(c))
        /\ Cardinality(RegistrationClaims(c)) <= RegistrationBound
    BY <2>1, <2>2 DEF RegistrationClaimsInv
  <2> QED BY <1>2, <1>3, <2>3, RegistrationClaimsShrink
<1>4. CASE Registrations(c) = {}
  <2>1. c \notin consumers
    BY <1>4 DEF Registrations, Consumers!SameRegistration
  <2>2. PICK r \in ConsumerRequests :
             /\ Consumers!ApplyRegistration(r)
             /\ c = Consumers!ConsumerOf(r)
             /\ consumers' = consumers \cup {c}
    BY <2>1, ConsumersGrow
  <2>3. cmessage' = cmessage
    BY ConsumerMessagesStay
  <2>4. r \in Pendings(c)
    BY <2>2 DEF Consumers!ApplyRegistration, Pendings, Pending,
                Consumers!ConsumerOf, Consumers!SameRegistration
  <2>5. Pendings(c)' \subseteq Pendings(c)
    BY <2>2, <2>3 DEF Consumers!ApplyRegistration, Pendings, Pending,
                      Consumers!SameRegistration, ConsumerTypeOK
  <2>6. Registrations(c)' \subseteq {c}
    BY <1>4, <2>2 DEF Registrations, Consumers!SameRegistration
  <2>7. \A q \in ConsumerRequests : Consumers!ConsumerOf(q)' = Consumers!ConsumerOf(q)
    BY <2>3 DEF Consumers!ConsumerOf
  <2>8. RegistrationClaims(c)' \subseteq RegistrationClaims(c)
    BY <2>2, <2>4, <2>5, <2>6, <2>7 DEF RegistrationClaims, Pendings
  <2> QED BY <1>2, <1>4, <2>8, RegistrationClaimsOfUnstored
<1> QED BY <1>3, <1>4

(* One consumer of one schema version is stored at most once per actor of    *)
(* the pool and per registration given up after issuing its insert; with one *)
(* actor, no failures and no stops, once.                                    *)
THEOREM RegistrationsAreBounded == RegistrySpec => []RegistrationsBounded
<1>1. RegistryInit =>
         ConsumerAttended /\ GivenUpRegistrationsInv /\ RegistrationClaimsInv
  <2> SUFFICES ASSUME RegistryInit
               PROVE ConsumerAttended /\ GivenUpRegistrationsInv
                        /\ RegistrationClaimsInv
    OBVIOUS
  <2>1. RegistrationsGivenUp = {} /\ consumers = {} /\ ConsumerAttended
    BY DEF RegistryInit, Consumers!CInit, RegistrationsGivenUp, ConsumerAttended
  <2> QED BY <2>1, FS_EmptySet DEF GivenUpRegistrationsInv, RegistrationClaimsInv
<1>2. ConsumerTypeOK /\ RegistrationInv /\ ConsumerAttended
         /\ [RegistryNext]_registryVars => ConsumerAttended'
  BY ConsumerAttendedNext
<1>3. ConsumerTypeOK /\ RegistrationInv /\ ConsumerPoolInv /\ GivenUpRegistrationsInv
         /\ [RegistryNext]_registryVars => GivenUpRegistrationsInv'
  BY RegistrationsGivenUpFinite
<1>4. ConsumerTypeOK /\ RegistrationInv /\ ConsumerAttended /\ ConsumerPoolInv
         /\ GivenUpRegistrationsInv /\ RegistrationClaimsInv
         /\ [RegistryNext]_registryVars => RegistrationClaimsInv'
  BY RegistrationClaimsNext
<1>5. GivenUpRegistrationsInv /\ RegistrationClaimsInv => RegistrationsBounded
  <2> SUFFICES ASSUME GivenUpRegistrationsInv, RegistrationClaimsInv,
                      NEW c \in consumers
               PROVE Cardinality(Registrations(c)) <= RegistrationBound
    BY DEF RegistrationsBounded, Registrations, RegistrationBound
  <2>1. RegistrationBound \in Nat
    BY FS_CardinalityType, ConsumerPoolAssumption
       DEF RegistrationBound, GivenUpRegistrationsInv
  <2>2. Registrations(c) \subseteq RegistrationClaims(c)
    BY DEF RegistrationClaims
  <2> QED BY <2>1, <2>2, SubsetBounded DEF RegistrationClaimsInv
<1> QED BY <1>1, <1>2, <1>3, <1>4, <1>5, ConsumerTypeCorrect, RegistrationCorrect,
           ConsumerPoolIsBounded, PTL DEF RegistrySpec
==============================================================================
