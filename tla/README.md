# Schema registry: models, model checking and proofs

The repository is a schema registry: an Akka HTTP service in Scala over
MongoDB that stores versioned schemas, the consumers registered against them,
and answers whether a proposed schema is compatible with a stored one.  The
modules here model its actors and repositories in TLA+, TLC checks them on
small instances, and TLAPS proves every safety property the passing runs check,
and the refinements, for every number of requests, actors and documents and for
schemas of every size and depth.

Paths below are relative to `src/main/scala/com/sumup` of the repository unless
they start with `src/test` or `.deployment`.

## 1. Inventory

| Component | Source | State | Operations |
|---|---|---|---|
| Application assembly | `ApplicationMain.scala` | the actor system, four pools (`SmallestMailboxPool`) | start, shutdown hook |
| HTTP routes | `http/HttpRouter.scala`, `http/routes/*` | none | turn a request into one message for one pool, wait for `completeFn` |
| Schema actors (5) | `actors/schema/SchemaActor.scala` | none | `CreateSchema`, `GetSchema`, `GetSchemaVersion`, `DeleteSchemaVersion` |
| Creation rules | `creation/SchemaCreationService.scala` | none | `createSchema`: two argument checks, three checks that read the database, one insert |
| Consumer actors (3) | `actors/consumer/ConsumerActor.scala` | none | `RegisterConsumer`, `GetConsumer`, `GetConsumerBySchema` |
| Schemas actors (3) | `actors/schemas/SchemasActor.scala` | none | list everything |
| Compatibility actors (5) | `actors/compatibility/CompatibilityActor.scala` | none | `CompatibilityCheck`: choose a stored baseline by up to four reads, diff |
| Diff | `diff/DiffProcessingService.scala`, `UtilsService.scala` | none | sort fields, JSON patch, classify the patch |
| Repositories | `storage/repositories/*` | collections `schemas`, `consumers` | queries, insert, `deleteOne` |
| Blocking helper | `storage/repositories/Helpers.scala` | none | `Await.result(…, 10 seconds)` around every call |
| BSON codecs | `storage/codecs/*` | none | document to record and back |
| JSON formats, validation | `json/*`, `serde/*` | none | request and response bodies |
| Deployment indexes | `.deployment/chart/templates/MongoJob.yaml` | unique indexes of both collections | |
| Swagger | `http/routes/swagger/*` | none | static documentation |

**Interaction.**  A route hands a message with a callback `completeFn` to its
pool; the pool's router puts it into the mailbox of one actor.  An actor takes
one message at a time and blocks in every database call, so one message is
served by one thread from its first call to its answer.  Actors hold no state:
everything they share is in the two collections.  The schema actors write
`schemas`; the consumer actors read it and write `consumers`; the compatibility
and schemas actors only read.  There are no transactions.

**What makes it hard.**

* A request makes several calls and decides on what an earlier call returned.
  Calls of other actors fall between them: every check is stale when it is used.
* A call is given up after 10 s and the client is told 500, but the write that
  was sent is still with the database and may be executed any time later, after
  the client's answer, a retry, or a restart of the process.
* The process may be stopped with requests queued and in service.
* The unique indexes the deployment creates are on fields (`major_version`,
  `minor_version`, `schemaId`) that no stored document has.
* The HTTP server gives a request up after 20 s, before a create's four calls of
  10 s have, and what it gave up is still served.
* A message waits in the mailbox the router chose for it, also when another actor
  has become idle.
* A schema passes through four representations (JSON, objects, BSON, and JSON
  again for the diff), each with its own idea of a number and of a missing member.
* The rule for version numbers reads the last minor version of the wrong major
  version, which no single request of a test can show.

**What correct means, per component.**

* *Schema actors:* an answer says what became of the write; the collection is
  what was put in minus what was taken out; what was acknowledged is seen; major
  versions come in sequence; the number of copies a race can store is bounded;
  with one actor the service behaves as an atomic registry; everything queued
  is answered or lost with the process.
* *Consumer actors:* honest answers, bounded copies, and a consumer only names a
  version that was stored at some time.
* *Compatibility and schemas actors:* a check answers as one read of an unchanged
  collection would; a 404 is justified by a moment without a baseline or by a
  delete; what was acknowledged is found and listed.
* *Diff:* the result does not depend on the order of the fields given, what is
  called a minor upgrade loses nothing, and an addition is one.
* *Codecs and formats:* what was submitted is served, whatever was accepted can be
  served, and what was served may be submitted again and is the same schema.
* *Pools, routers, mailboxes:* no message is dropped, served twice or abandoned,
  and only a message with too much work in it or before it is answered 503.

The list of hazards, each at its line, with the properties that would catch it,
is in `PROJECT.json`.

## 2. Modules

| Module | Models | EXTENDS / INSTANCE |
|---|---|---|
| `SchemaStore` | the queries of `SchemaRepository` as operators on a set of documents; a unique index | |
| `SchemaService` | the schema actors, their pool, the collection | EXTENDS `SchemaStore` |
| `SchemaRegistry` | the abstract specification: every request decided on and applied in one step | EXTENDS `SchemaStore` |
| `ConsumerService` | the consumer actors, their pool, their collection | EXTENDS `SchemaStore` |
| `RegistryService` | both pools of one process over one database | EXTENDS `SchemaService`, INSTANCE `ConsumerService` |
| `QueryService` | the compatibility and schemas actors, which only read, beside the schema actors | EXTENDS `SchemaService` |
| `SchemaFormats` | schemas as JSON, as objects and as BSON, and the conversions and validations between them | |
| `SchemaDiff` | `sortFields`, the diff library, the judgement of a patch | EXTENDS `SchemaFormats` |
| `ContentService` | schemas with their fields submitted, stored, served, deleted and compared | EXTENDS `SchemaDiff`, `SchemaStore` |
| `WorkerPool` | the abstract pool: at most so many messages served at a time, each once | |
| `ActorPool` | router, mailboxes, blocking calls, request timeout, shutdown | INSTANCE `WorkerPool` |
| `SchemaRefinement` | the mappings under which the schema actors implement `WorkerPool` and `SchemaRegistry` | EXTENDS `SchemaService`, INSTANCE `SchemaRegistry`, `WorkerPool` |
| `MCSchemaService`, `MCRegistryService`, `MCQueryService`, `MCContentService`, `MCActorPool` | message sets, bodies, seeds, indexes | EXTENDS the above (`MCSchemaService`: `SchemaRefinement`) |
| `SchemaServiceProofs` | theorems about `SchemaService`: types, writes, versions, copies | EXTENDS `SchemaService`, `TLAPS` |
| `SchemaVisibilityProofs` | what its requests see, what an index keeps out | EXTENDS `SchemaServiceProofs` |
| `SchemaRefinementProofs` | that it implements the two abstract specifications | EXTENDS `SchemaRefinement`, `SchemaServiceProofs` |
| `RegistryServiceProofs` | theorems about `RegistryService` | EXTENDS it, `SchemaServiceProofs` |
| `QueryServiceProofs` | theorems about `QueryService` | EXTENDS it, `SchemaVisibilityProofs` |
| `ActorPoolProofs` | theorems about `ActorPool` | EXTENDS it, `TLAPS` |
| `ContentServiceProofs` | theorems about `ContentService`: what is stored and served | EXTENDS it, `TLAPS` |
| `SchemaDiffProofs` | what is sorted, aligned and judged | EXTENDS `ContentServiceProofs` |

### How the modules correspond to the code

**One action is one repository call with the control that follows it.**
Between two calls an actor touches nothing shared, so this is the coarsest step
that still shows every interleaving.  `phase[r]` is the call request `r` is
about to make (or `unsent`, `queued`, `answered`, `lost`):

| `createSchema` | phase | action |
|---|---|---|
| lines 9-19, arguments | `queued` | `RejectInvalid`, or `Take` |
| lines 21-25, exact version exists? | `findExact` | `FindExact` |
| lines 27-35, last major version | `lastMajor` | `ReadLastMajor` |
| lines 37-45, last minor version; 47-53 issue the insert | `lastMinor` | `ReadLastMinor` |
| the database executes the insert | any | `ApplyInsert` |
| the answer | `insert` | `AnswerInsert` |

`FindDoomed`, `ApplyDelete`, `AnswerDelete` are `deleteSchemaByNameAndVersion`:
it reads the document it will report, then `deleteOne` removes one match, which
need not be the same one; removing none throws and is answered 500.
`GetByName` and `GetVersion` are the two reads.

**A write is three steps**: issued (`write[r] = "issued"`), executed by the
database, answered.  The second is not tied to the request's phase: after
`CallFails` (the 10 s of `Helpers.scala:26`, or an exception of the driver) or
`Crash` an issued write can still be executed, or never.

**Abstractions.**

* *Pool and mailboxes.*  In the services any idle actor takes any queued request.
  This allows every order the code can produce and more; `PoolSize` bounds the
  requests in service.  The router and the mailboxes are in `ActorPool`.  Both
  are shown to implement `WorkerPool`: `SchemaService` by `ImplementsWorkerPool`,
  `ActorPool` by `ImplementsPool`.
* *Documents.*  A document is its ObjectId, name and version numbers.  The
  ObjectId of the document a request inserts is the request itself.  Fields and
  application never influence a query; of the application only emptiness is
  looked at (`Invalid`).
* *`find().first()`* returns any match: nothing promises an order.
* *`sort(descending).limit(1).first()`* is `Highest`, 0 when nothing matches, as
  the repositories turn a missing document into 0.
* *Requests.*  What each client will ask is fixed in `Init`, when it asks is not.
  A client's retry is another request with the same message.
* *History variables* `effect` (what a write did) and `known` (what had been
  answered 201 when the request was sent) are read by no guard except the
  driver's own report of the write (`AnswerInsert`, `AnswerDelete`).
* *Faults* are switched by `MayFail` and `MayCrash`.
* *Indexes* are a constant, `UniqueIndexes`: none (tests and development), or
  the deployed one.  A field a document lacks counts as null and null equals
  null, which is how MongoDB compares keys.

`ConsumerService` follows the same pattern: `FindConsumer`,
`FindSchema` (which issues the insert), `ApplyRegistration`,
`AnswerRegistration`.  `Stop` takes both pools at once.

`QueryService` serves a `CompatibilityCheck` by `FindExactMatch`,
`FindPriorMinor`, `ReadLastOfPriorMajor` and `FindPriorMajor`
(`CompatibilityActor.scala:32-83`, one action per read), a `GetSchemas` by
`GetAll`.  `Judged` is the reference definition: the same decision taken on one
unchanging collection.  `Observe`, a conjunct of every step, records in the
history variables `judgements` and `removed` what that decision would have been
at each moment of a check's service and whether a schema of its name was
deleted; no guard reads them.  A query of the database is executed at one
moment, also where the driver fetches many documents.

**`ActorPool`** is one pool at the level of Akka.  `Route` is the router's choice
(an actor with the fewest messages), `Enqueue` puts the message into that mailbox;
between the two other threads route theirs.  `Begin` takes the head of a
mailbox, `NextCall` and `Complete` are a repository call that returns, `GiveUp`
the one that has lasted 10 s.  What the calls do is left out: a message is the
number of calls it may make (0 for one the route refuses by itself: a body no
format accepts, a version in the path that is no `Int`; its client is `refused`
and the pool never hears of it).  `TimesOut` is the
HTTP server's own answer, 503, after 20 s; the message stays where it is.
Time is a count of ticks of half the request timeout, 10 s; routing and taking a
message take none.  `Terminate` is the shutdown hook: an actor ends the message
it serves and takes no other, the HTTP server stops answering; `Exit` may come
before it has ended.  A client whose connection closes is `lost`.
`Await.result` blocks inside Akka's blocking context, for which the dispatcher
adds threads, so an actor's waiting takes no thread from another.
The history variables, which no guard reads, are `backlog`, the calls left in what
an actor serves and has waiting, and `ahead`, what the backlog was with a message
when it was queued.

**`ContentService`** follows one schema's content through the code, one client
after the other (that clients race is the subject of the other services):

| Code | Operator |
|---|---|
| `SchemaRequestFormat.read`, `FieldFormat.read`, `JsValidationHelpers` | `IsRequest`, `IsField` (accepted?), `RequestRead`, `FieldRead` (what is made of it) |
| `SchemaCodec.encode`, `decode` | `Encode`, `IsDecodable`, `Decode` |
| `FieldFormat.write`, `FloatJsonFormat`, `DoubleJsonFormat` | `IsWritable`, `FieldWritten`, `ValueWritten` |
| `sortFields`, `DiffProcessingService` | `SortFields`, `Patch`, `MajorChanges`, `Process` |

* *Trees.*  The fields of a schema, those inside records included, are one function
  from places to nodes: `<<2, 1>>` is the first field of the second one.  What the
  code does by calling itself for the fields of a record (reading, encoding,
  writing, sorting) is done at every place at once.  Sorting moves each node to
  its rank among its siblings (`Ranks`, `Moved`); a path below a record moves with
  it.  `Reached` are the places the reader comes to: it does not look at `fields`
  of what is not a record.
* *Numbers* are counts of 1/`One`, with the decimal places, ranges and widths as
  constants, scaled down.  A float or a double is one of a set of numbers (`Floats`,
  `Doubles`), since 0.1 is none: reading rounds half even to the places kept and then
  takes the nearest number of the type (`Read`), writing rounds that number to the
  places again (`ValueWritten`).  The least and the greatest of a type stand for the
  infinities.  A float is written as the number it is and a double as the
  shortest decimal that reads as it (`DoubleToString`), which is what `BigDecimal(x)`
  makes of either; which of two nearest numbers is taken, and the digits of the
  shortest decimal, are left open.  The decimal formats accept a string that
  spells a number (`Numerals`), as spray-json's `BigDecimalJsonFormat` does, and
  serve a number for it.
* *An exception without a message.*  `ResponseHandling.scala:55` serializes the
  message of the exception, which throws itself when there is none; the actor then
  answers nothing and the HTTP server answers 503 (`ServiceUnavailable`).  The
  exception of `BigDecimal` of an infinity is of this kind on Java 8, which the image
  runs; those of the codec have messages.
* *BSON* is read by position, so an object is a sequence of one-key records and
  a value is tagged with its BSON type.
* *diffson* is external.  Objects are compared key by key, arrays along a longest
  common subsequence; which one, when there are several, changes the paths of the
  operations and not the properties.  Only the kinds of operations are kept.
  `DiffAgreesWithTests` and `SortAgreesWithTests` in `MCContentService` state the
  cases of `CompatibilityHttpRouteSpec.scala` and `UtilsServiceSpec.scala`.
* A body no format accepts is a 400 of the route, so `createSchema`'s checks of its
  arguments and the 400 for a mismatching name cannot be reached over HTTP;
  the first are modelled in `SchemaService` all the same.

Definitions whose names begin with `Mutant` are one-change variants of the
definition they precede (a dropped check, swapped arguments, a forgotten field).
No action uses them; substituted for the original, they show that the property
they are paired with in `PROJECT.json` notices such a change.

## 3. Runs

| Run | Instance | Checks | States |
|---|---|---|---|
| `schema_faults` | 4 of 8 messages, 2 actors, timeouts, late writes, crashes; 1.1 and 2.1 stored | `TypeOK`, `HonestAnswers`, `Ledger`, `AcknowledgedIsSeen`, `MajorsInSequence`, `CopiesBounded` | 2.7 million |
| `schema_serial` | 4 of 8 messages, 1 actor | `NoDuplicates`, `ImplementsRegistry` | 1.8 million |
| `schema_deployed` | 3 of 7, 2 actors, faults, deployed index, weak fairness | `Responds`, `ImplementsWorkerPool` | 162 000 |
| `registry_faults` | 2 schema requests, 3 consumer requests, pools of 2, faults | `ConsumerTypeOK`, `RegisteredSchemaWasStored`, `ConsumerAnswersAreHonest`, `RegistrationsBounded` | 1.3 million |
| `query_race` | 3 schema requests out of 4 messages, 1 check or list, faults; a name with 1.1, 2.1, 2.2 and one with 2.1 stored | `QueryTypeOK`, `SteadyCheckIsRight`, `NotFoundIsJustified`, `AcknowledgedIsQueried` | 2.1 million |
| `content` | 151 bodies to submit, 401 to propose, of two names | `ContentTypeOK`, `StoredIsServed`, `ServedIsSubmitted`, `ServedIsTheSame`, `SameIffEquivalent`, `MinorExtends`, `AdditionIsMinor` | 140 000 |
| `actor_pool` | 3 messages of 0, 1 or 3 calls, 2 mailboxes, calls of up to 1 tick, request timeout of 2, shutdown, weak fairness | `PoolTypeOK`, `OnlyOverdueTimesOut`, `ImplementsPool`, `ServedToTheEnd` | 364 000 |
| `schema_skip_report` | 2 creates, 1 actor | `ReportsLastMinor`: **violated** | |
| `schema_duplicates` | 2 creates of 1.1, 2 actors | `NoDuplicates`: **violated** | |
| `registry_dangling` | 1 delete, 1 registration | `InsertedWhileSchemaStored`: **violated** | |
| `registry_new_pair` | 2 registrations, deployed index | `NewPairIsAccepted`: **violated** | |
| `content_large` | a float too large to be one, among others | `StoredIsServed`: **violated** | |

(States with symmetry, where the cfg uses it: requests are interchangeable and
no temporal property is checked there.)

**Why the bounds are enough.**  Two actors are the least that race; four requests
let a race be prepared by one request and watched by another, and let a third
copy of a version be tried for with a pool of two.  Version numbers up to 4 and
minor versions up to 3 contain every case of the rules: first version, next,
skipped, and minor version equal to and different from the major version, which
is what line 37 of the creation service turns on.  `schema_faults` starts from
1.1 and 2.1, the state a registry that was filled before has, because from the
empty collection almost nothing but 1.1 can be created (below).

The bodies of `content` have every type of field, records in records, siblings that
share a name or a name and a type, members left out, every refusal of the
reader, and numbers between two decimals of a float's places and of a double's,
where the binary numbers lie closer than these and where they lie farther apart,
numbers spelled by strings, with a fraction where none is kept and too wide for an
`Int`; proposals go from one field to three.  The floats and doubles of the run have three
binary digits (`Binary`): dense below some power of two and sparse above, like those
of 24 and 53 digits.
In `actor_pool` a tick is 10 s: a call may last one and the server waits two, as in
the code, so two calls in a row are overdue; 3 calls are a message that is
overdue by itself, which a create is with its four.  Three messages over
two mailboxes make one wait behind another, and let two be routed to one mailbox
before either is in it.

In `query_race` the deletes can take away the last minor version between the
call that reads it and the call that looks it up, so that the check answers 404
while 2.1 is stored all along: without its second disjunct `NotFoundIsJustified`
fails there.  The creates of 3.1 and 3.2 can only both succeed in a race, after
which a check can be compared with a version no single read would have chosen:
`SteadyCheckIsRight` is about the checks whose right answer did not change.

**The collections the runs start from** are states the service itself reaches
from an empty one when creates and deletes race: 2.1 alone, by deleting 1.1
between the two version checks of a create of 2.1; 1.1 with 2.1, by creating 1.1
again before that insert is executed; 2.2 as well, when its create has read the
last major version before 2.1 is inserted and the last minor version after.

**What the failing runs show.**

* `ReportsLastMinor`: `SchemaCreationService.scala:37` passes the requested
  *minor* version where `getLastMinorVersion` expects the major version.  The
  refusal then reports the last minor version of another major version.  The
  consequence is larger than the message: once 1.1 is stored no second version
  can be created at all unless something is deleted, which is the theorem
  `OnlyFirstVersionIsEverCreated`.  It describes the defect, and a correction of the
  line refutes it: it is no property the service should have.
* `NoDuplicates`: two creates of one version both pass the existence check.  A
  DELETE then removes one of the copies only.
* `InsertedWhileSchemaStored`: a schema is deleted between the check and the
  insert of a registration.
* `NewPairIsAccepted`: the deployed index on `(name, schemaId)` makes the
  consumer's name alone unique.  In the same way the index on `schemas`, on
  `major_version` and `minor_version`, which no document has, keeps one document per
  name whatever its version: the theorem `IndexAllowsOneVersionPerName`.  "Get a
  schema by name and all its versions" (`SchemaHttpRoute.scala:87`) says otherwise;
  this theorem, too, describes a defect, and it will bite once line 37 is corrected.
* `StoredIsServed` in `content_large`: `FloatJsonFormat.read` makes infinity of a
  number too large for a float, the codec stores and reads it, and the writer
  cannot write it.  One such schema turns `GET /schemas` into an error for everyone
  until it is deleted, with a `DELETE` that removes it and does not answer 200.  `content` shows
  that nothing else the reader accepts has this effect.

**What the properties had to leave out.**  Two comments of
`DiffProcessingService.scala` say more than the code does.  Lines 42-43, "shuffled
fields won't count as schema difference": siblings of the same name and type
keep the order given, so `SameIffEquivalent` speaks of schemas without such
twins (`NoTwins`) in that direction.  Lines 38-40, a new field "will be an `Add`
operation": a new field that sorts before a record which also gained a field is
paired with it and reported as a `Replace`, so `AdditionIsMinor` speaks of
additions beside unchanged fields.  Without these conditions TLC finds both.

**Fairness.**  `FairSpec` of `SchemaService` assumes weak fairness of `ActorStep(r)` for each
request: an actor that has a message runs, and no call blocks it for longer than
10 s (`CallFails` is part of `ActorStep`, and `Await.result` has a deadline).
Nothing is assumed of clients, of the database (`ApplyWrite` may never happen)
or of crashes.  `Responds` needs no more, even though any idle actor takes any
queued request: the requests of an instance are finitely many, and
the one that waits is continuously enabled to be taken once the others end.

`FairSpec` of `ActorPool` assumes weak fairness of Akka (`Enqueue`, `Begin`), of the
deadlines (`GiveUp`: `Await.result`; `TimesOut`: the HTTP server), of time (`Tick`)
and of a terminating process' end (`Exit`).  `NextCall` and `Complete` are not fair:
no call needs to return.  `ServedToTheEnd` follows because each of the calls
in front of a message ends by its deadline.

**Deadlock.**  TLC checks it in `content`, where clients ask for ever.  The other
cfgs have `CHECK_DEADLOCK FALSE`: each request is sent once, so a behaviour ends
when all have been answered or lost.  That nobody waits for ever is `Responds`
and `ServedToTheEnd`.

## 4. Proofs

The theorems hold for any set of requests, any messages, any seed, any indexes,
any pool size, with and without faults, unless the last column says otherwise.

| Module | Theorem | States | If |
|---|---|---|---|
| `SchemaServiceProofs` | `TypeCorrect` | `Spec => []TypeOK` | |
| | `AnswersAreHonest` | `Spec => []HonestAnswers` | |
| | `LedgerBalances` | `Spec => []Ledger` | |
| | `MajorsNeverSkipped` | `Spec => []MajorsInSequence` | the seed is in sequence |
| | `OnlyFirstVersionIsEverCreated` | no version but 1.1 is ever stored | no deletes, the seed holds first versions only |
| | `PoolIsBounded` | no more requests in service than actors | |
| | `CopiesAreBounded` | `Spec => []CopiesBounded` | the seed holds at most `PoolSize` copies of each version |
| `SchemaVisibilityProofs` | `AcknowledgedIsAlwaysSeen` | `Spec => []AcknowledgedIsSeen` | |
| | `IndexAllowsOneVersionPerName` | one document per name | a unique index whose only field in a document is `name`; the seed satisfies it |
| | `IndexOnVersionKeepsItUnique` | `Spec => []NoDuplicates` | a unique index on name, major and minor version; the seed satisfies it |
| `SchemaRefinementProofs` | `ServiceImplementsWorkerPool` | `Spec => ImplementsWorkerPool` | |
| | `OneActorStoresNoDuplicates` | `Spec => []NoDuplicates` | one actor, no faults, no duplicates in the seed |
| | `OneActorImplementsRegistry` | `Spec => ImplementsRegistry` | the same, and no index |
| `RegistryServiceProofs` | `RegistryImplementsService` | `RegistrySpec => Spec` | |
| | `ConsumerTypeCorrect` | `RegistrySpec => []ConsumerTypeOK` | |
| | `ConsumerAnswersHonest` | `RegistrySpec => []ConsumerAnswersAreHonest` | |
| | `RegisteredWasStored` | `RegistrySpec => []RegisteredSchemaWasStored` | |
| | `ConsumerPoolIsBounded` | no more consumer requests in service than actors | |
| | `RegistrationsAreBounded` | `RegistrySpec => []RegistrationsBounded` | |
| `QueryServiceProofs` | `QueriesLeaveServiceAlone` | `QuerySpec => Spec` | |
| | `QueryTypeCorrect` | `QuerySpec => []QueryTypeOK` | `ValidSeed` |
| | `AcknowledgedIsAlwaysQueried` | `QuerySpec => []AcknowledgedIsQueried` | `ValidSeed` |
| | `SteadyCheckIsAlwaysRight` | `QuerySpec => []SteadyCheckIsRight` | `ValidSeed`, a finite seed |
| | `NotFoundIsAlwaysJustified` | `QuerySpec => []NotFoundIsJustified` | `ValidSeed`, a finite seed |
| `ActorPoolProofs` | `PoolTypeCorrect` | `Spec => []PoolTypeOK` | |
| | `PoolImplementsWorkerPool` | `Spec => ImplementsPool` | |
| | `OnlyOverdueIsTimedOut` | `Spec => []OnlyOverdueTimesOut` | |
| | `WaitedForIsHeld` | the message of a client that waits is with the pool | |
| `ContentServiceProofs` | `ContentTypes` | `Spec => []ContentTypeOK` | |
| | `StoredServed` | `Spec => []StoredIsServed` | the numbers of every accepted body can be written again |
| | `SubmittedServed` | `Spec => []ServedIsSubmitted` | |
| | `ServedSame` | `Spec => []ServedIsTheSame` | |
| `SchemaDiffProofs` | `SameEquivalent` | `Spec => []SameIffEquivalent` | |
| | `MinorExtended` | `Spec => []MinorExtends` | |
| | `AdditionMinor` | `Spec => []AdditionIsMinor` | |

**Assumptions.**  Besides these hypotheses the theorems rest on the named
ASSUMEs of the modules, which TLC evaluates in every run: the pools have at least
one actor, a message is one of those the actors' `receive` has a case for
(`ConsumerMessagesAssumption`, `QueryMessagesAssumption`), there are finitely many
actors and `NoActor` is none of them nor a message (`ActorsAssumption`).  The
requests may be infinitely many where a theorem does not say otherwise.
`ValidSeed` says that minor versions in the initial collection are natural
numbers; the seed is what earlier creates stored, and the validation of
`SchemaCreationService.scala:9-19` lets nothing below 1 through.  A collection of a
database is finite; without that the "last" version would not exist, so the two
theorems about four-read checks say so.  `OneActorImplementsRegistry` excludes
indexes because the atomic registry has no answer for an insert an index refuses.

The theorems about content hold for any set of bodies.  `BodiesAssumption` says
what a body is (an object with its members, a tree of finitely many places, nodes
with names of the `Alphabet` or refused ones, enum values that are numbers or strings),
`NotValidAssumption` that a value the reader refuses is none of those it knows,
`AlphabetAssumption` that the alphabet lists each name once.  `NumberAssumption` says
that places and ranges are positive numbers, and of a binary type what
`IsNumberType` says: at each of its numbers that is no infinity it is denser than
the last place kept, or sparser, or that number is a whole number of such places.  This
holds of binary floats with 4 places and doubles with 8, whose spacing passes the
last place at a power of two that is a whole number (2^10 and 2^26).  It does not
hold of every set, and it is what makes a value that was rounded, read, written
and rounded again read as itself.  `DoubleToStringAssumption` says that what is
written for a double reads as it and has no more places than another decimal that
does.  No relation between the floats and the doubles, and no width of an `Int`, is needed.  The hypothesis of
`StoredServed` excludes only numbers that become infinity when they are read: a
field that is read can be written if its numbers can (`IsWritable`).  The bodies of
`content` satisfy it; `content_large` shows that it cannot be left out.

### Arguments

*Writes.*  `HonestAnswers` is not inductive.  The strengthening is
`WriteInv`: it ties `write` and `effect` to the phase a request has reached (no
write before the last check, an effect only of an executed write, and of the
right shape), so that an answer can only be given in a state where what it says
is settled.  `LedgerBalances` adds that every stored document's id is its
request's or the seed's, so no insert can bring back a document that a delete
removed.

*Version rules.*  `MajorsInSequence` is stated of everything ever stored
because that set only grows: the check in `ReadLastMajor` happens at a state in
which the predecessor is in the collection, and it is in the history for ever
after; the invariant records that for every request past the check.  For
`OnlyFirstVersionIsEverCreated` the invariant says that a request past the
check of lines 27-35 asks for major version 1 or finds its name stored; as long
as nothing is deleted a stored name stays stored.  Among documents that are all
1.1, line 37 lets a request pass only if it asks for minor version 1 of a name
of which nothing is stored, so only 1.1 is ever inserted.

*Copies.*  Each copy of a version and each create that is committed to store
one (past the existence check, or with an insert issued) is a *claim*.  A new
claim on a version is only staked by an actor that saw no copy, so once a copy
is stored the claims never grow; and while none is stored all claims belong to
requests in service (at most `PoolSize`) or given up with their insert issued
(`GivenUp`, which only grows).  `RegistrationsAreBounded` is the same argument
about consumers.  It does without a hypothesis on the seed: the consumers start
empty.

*Visibility.*  What a request knew when it was sent had been inserted
(`AcknowledgedWasInserted`), and by the ledger an inserted document that is not
in the collection was removed by a delete of its version, which had been issued
(`MissingWasDeleted`).  So the read of a request finds the document or comes after
such a delete.  `SeenInv` carries this from the read to the answer: a create
remembers by its phase and its write that its existence check found nothing.
`QueriedInv` is the same for the lists and checks.

*Indexes.*  `KeysUnique(index)` is inductive by itself, because the database
refuses the insert that would break it and a delete only removes.  What it means
depends on the fields documents have (`DocumentFields`): for the deployed index it
is one document per name.

*Refinement.*  For `WorkerPool` every action of one request moves that request
alone from stage to stage (`StageMoves`) or not at all (`StageStays`).  For
`SchemaRegistry` the request in service is alone (`OneInService`) and `SerialInv`
says that what it has learned still holds (`Learned`): after the existence check
its version is not there, after the version checks they still succeed, a found
document is still the one that matches.  So the step that decides on a
request (`RefusedCreate`, `AcceptedCreate`, `RefusedDelete`, `ServedDelete`,
`ServedRead`) is the registry's step on the collection of that moment, and all
others are invisible.

*Consumers.*  To the schema actors a step of the registry is one of theirs or
none, which is `RegistryImplementsService`, so every theorem about `SchemaService`
holds there.  `RegistrationInv` is to registrations what `WriteInv` is to
creates.  For `RegisteredWasStored` the invariant `SchemaInv` says that a registration
with an insert issued names a version that was stored at some time; what was
ever stored only grows, so no delete disturbs it.

*Checks.*  While a check is in service, `Progress` says which of the collections
it has been judged by its reads saw: one without an exact match, one
without a prior minor version, and one whose last minor version is the one it
remembers; the present one is among them.  If all judgements agree, the answer given can
only be theirs.  For `NotFoundIsAlwaysJustified` `Justified` follows each past
judgement: as long as no document of the name is removed, what a collection was
judged by is still there to be found by the reads to come, so a check that
ends with nothing was judged "notFound" by some collection.

*Pools.*  `OnePlace` (two positions at which a message is found are the same)
and `HandedOver` (a message in the pool was sent and has calls left)
are inductive together with the types; the refinement of `WorkerPool` follows
action by action.  `OnlyOverdueTimesOut` needs time: `WaitInv` says there are sums
`calls[a][i]` of the calls left in what actor `a` serves and in the first `i`
messages of its mailbox, of which `backlog[a]` is the last (`Sums`), such that no
waiting client is older than the calls that were ahead of its message and are no
longer, each at its limit, and the time the present call has lasted
(`Timely`).  A tick ages the client and the call alike, a call that ends had at most
its limit.  A sum over a sequence would be defined by recursion, about which nothing
can be proved by induction here; the sums are therefore asserted to exist, with their
defining equations, and each action is shown to turn them into the sums of
the next state.

*Content.*  `ContentInv` has two parts.  `Kept`: the documents are those made of the
accepted bodies, one body per name, each one that is accepted by the reader and of
version 1.1.  It is inductive because the only version ever created is the first
(line 37 again, here with deletes but without races): a create of a name that is
stored is refused, and a delete removes the document of a name with its body.
`Answered`: the response is, for a read, what `Served` makes of some of the
documents; for a delete, the same of documents that were stored; for a check, the
judgement (`Judgement`) of the proposal over the documents there are, which do
not change before the client takes it.  The rest is about the conversions, node by
node, and needs no induction over trees because each works on a place at a time:
what is encoded is decodable and decodes to itself; what is read is complete;
rounding what has been rounded changes nothing (`Read` of what is written for what `Read` returned), so
what was served is accepted and reads as the stored schema.  For decimals it goes through
`ReadSettles`: where the type is dense, the nearest number lies so close to a decimal
of the places kept that rounding gives this decimal back; where it is sparse, rounding
moves a number by less than half the way to the next, so the nearest number is still the
same.  `SameNumberServed` and `NearestBetween` give the distance `ServedIsSubmitted`
allows between what was given and what is served.  That both then sort
to the same tree is `Patch(s, s) = {}`.

*Sorting.*  Among its siblings a node's rank is one more than the number of those
that precede it; `Precedes` is a strict order and total, since siblings of the same
key differ in their place, so ranks are pairwise different and fill `1 .. n`
(`RankOrdered`, `RanksApart`).  Moving every node to its rank is therefore a bijection
of trees that keeps parents (`SortedTree`), and a bijection of two trees that keeps
the nodes keeps the order of siblings too, if none are twins (`OrderKept`): sorted
they are the same tree.  This is the direction from `Equivalent` to the same schema.

*No difference.*  Arrays are laid along *some* longest alignment: the proofs use
that it is an alignment and that no larger one exists, never which one it is.  If
nothing is left over on either side, the elements are paired one to one and in
order, so the i-th with the i-th (`SideBySide`), and pairs that are not equal met and
were compared.  `Follows` is the relation between places of two trees that this
yields when it is carried downwards from the root, through equal subtrees and compared
records alike.  If the patch is empty each place follows itself, and the nodes agree;
so the sorted trees are equal, and undoing both sortings gives the
rearrangement `Equivalent` asks for.

*Nothing lost.*  A minor upgrade's patch consists of additions (`NothingLost`).  Then
every place of the stored tree is followed by one place of the proposed tree
(`AllFollowed`), with a node that has all it had: a first place without one would
have been removed from its list.  Places that follow are functions of each other, so
the relation is a move of the stored fields into the proposed schema, as `Extends`
demands.

*Additions.*  If the proposed schema includes the stored one, each top-level field of
the stored, sorted tree with all that is below it stands in the proposed, sorted tree
as well, in the same order (`SubtreeKept`, `RootAligned`).  This is an alignment as long
as the stored list, so the longest one is, too: no stored element is left to be
removed or compared, and the patch contains nothing but additions.

### Checked by TLC only

* `Responds` and `ServedToTheEnd`: liveness under fairness, which TLAPS does not
  reach here.
* Absence of deadlock in `content`, which is about ENABLED.
* That the model of the diff and of sorting agrees with the examples of the
  repository's tests (`DiffAgreesWithTests`, `SortAgreesWithTests`), which TLC
  evaluates with `content`.

## 5. Not modelled

* *The diff library, MongoDB, Akka, the JSON and BSON libraries* are external: the
  models have what the code relies on.
* *HTTP:* matching of paths and methods, content negotiation, CORS: no state.
* *Response bodies* other than schemas: wrappers and messages, but for the
  number `ReportsLastMinor` is about.  The paths and values of a patch are only
  reported.
* *`ShortObjectId`* cuts an id for display; no query uses the result.
* *Answers that fail themselves.*  Outside `ContentService` an exception is answered
  500; one without a message would be left to the HTTP server's 503 as above, so
  `Responds` is about calls whose failure says something.
* *`isCreated = false`* (`ResponseHandling.scala:26`, 400): an insert of the driver
  completes or throws, so `AnswerInsert` and `AnswerRegistration` have no such branch.
* *Consumers' JSON* (`ConsumerRequest`): four plain members, validated as those of a
  schema are.
* *Swagger, static resources, logging:* no state.  The minified JavaScript under
  `src/main/resources/swagger` (`swagger-ui.js` and its bundles) is a third-party
  page that displays the generated documentation; it is no part of the
  registry's behaviour, and no definition here stands for any of it.

## 6. Plan

In order of importance; what is done is marked.

1. (done) `SchemaStore`, `SchemaService` and its runs; `SchemaRegistry` as its
   abstract specification; `SchemaServiceProofs`.
2. (done) `ConsumerService` composed with it in `RegistryService`.
3. (done) `QueryService`: the choice of a baseline and the list of all schemas
   while the schema actors create and delete.
4. (done) `SchemaFormats`, `SchemaDiff`, `ContentService`: the content of schemas
   from the request to the collection, the response and the comparison.
5. (done) `WorkerPool`, and `ActorPool` and `SchemaService` as its implementations.
6. (done) Proofs: every invariant and refinement of `SchemaService`,
   `RegistryService`, `QueryService` and `ActorPool` that a run checks.
7. (done) The same for `ContentService`: every conversion and the diff, for all
   schemas, with the fields of a schema as one tree without recursion.
8. Left: the pools of the registry as `ActorPool`s; the order in which several
   longest alignments would be chosen, should a property of the paths of a patch
   become of interest.
