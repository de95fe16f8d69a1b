---------------------------- MODULE ContentService ----------------------------
(***************************************************************************)
(* What becomes of the content of a schema: a body is submitted, read,     *)
(* encoded and stored; documents are decoded and served, and proposals are *)
(* compared with them.                                                     *)
(*                                                                         *)
(* The requests are those of SchemaService and QueryService, here with     *)
(* their fields and one after the other: a client asks and takes its       *)
(* response before the next one asks.  (That requests race, fail and time  *)
(* out is the subject of those modules; no call here fails by itself.)     *)
(***************************************************************************)
EXTENDS SchemaDiff, SchemaStore

CONSTANTS
    Submissions,  \* the bodies given to POST /api/schema
    Proposals     \* the bodies given to POST /api/compatibility

(* A body is a JSON object of which `tree' holds the fields, as far as they  *)
(* are objects in arrays.                                                    *)
IsPlace(tree, p) ==
    /\ p \in Seq(Nat \ {0}) /\ p # <<>>
    /\ Len(p) > 1 => Upto(p, Len(p) - 1) \in DOMAIN tree
    /\ Last(p) > 1 => [p EXCEPT ![Len(p)] = @ - 1] \in DOMAIN tree

IsNode(json) ==
    /\ "name" \in DOMAIN json => json.name \in Range(Alphabet) \cup {"", NotValid}
    /\ "isIdentity" \in DOMAIN json => json.isIdentity \in BOOLEAN \cup {NotValid}
    /\ "fields" \in DOMAIN json => json.fields \in {List, NotValid}
    /\ "allowedValues" \in DOMAIN json =>
          json.allowedValues = NotValid \/ json.allowedValues \in Seq(JsonValues)

ASSUME BodiesAssumption ==
    \A b \in Submissions \cup Proposals :
       /\ {"name", "applicationId", "majorVersion", "minorVersion", "fields", "tree"}
             \subseteq DOMAIN b
       /\ {b.majorVersion, b.minorVersion} \subseteq Int \cup {NotValid}
       /\ IsFiniteSet(DOMAIN b.tree)
       /\ \A p \in DOMAIN b.tree : IsPlace(b.tree, p) /\ IsNode(b.tree[p])

VARIABLES
    documents,    \* the collection `schemas'
    asked,        \* the request being served
    response,     \* the response to it, until the client takes it
    accepted      \* history: the bodies of the stored documents

vars == <<documents, asked, response, accepted>>

None == [status |-> 0]
BadRequest == [status |-> 400]
NotFound == [status |-> 404]
InternalServerError == [status |-> 500]

(* BigDecimal's exception has no message: making the response for it throws  *)
(* too, and the HTTP server answers in the end.                              *)
ServiceUnavailable == [status |-> 503]

-----------------------------------------------------------------------------
(* SchemaCodec: a document's members other than its fields are its key. *)
DocumentOf(request) ==
    [request EXCEPT !.fields = [p \in DOMAIN @ |-> Encode(@[p])]]

SchemaOf(d) == [d EXCEPT !.fields = [p \in DOMAIN @ |-> Decode(@[p])]]

CanDecode(d) == \A p \in DOMAIN d.fields : IsDecodable(d.fields[p])

CanWrite(fields) == \A p \in DOMAIN fields : IsWritable(fields[p])

(* serializationService.serialize of what was read from the collection: an   *)
(* exception, of the codec or of a format, is that of all of them.           *)
Served(docs) ==
    IF \E d \in docs : ~CanDecode(d) THEN InternalServerError
    ELSE IF \E d \in docs : ~CanWrite(SchemaOf(d).fields) THEN ServiceUnavailable
    ELSE [status |-> 200,
          schemas |-> {[d EXCEPT !.fields = FieldsWritten(SchemaOf(d).fields)] : d \in docs}]

-----------------------------------------------------------------------------
(* createSchema with no other request in between (SchemaService.tla). *)
Refuses(request) ==
    LET name == request.name
        major == request.majorVersion
        minor == request.minorVersion
    IN  \/ Matching(documents, name, major, minor) # {}
        \/ LastMajorVersion(documents, name) + 1 # major
        \/ LastMinorVersion(documents, name, minor) + 1 # minor

(* The stored schema a check compares with, and what kind of upgrade over it *)
(* the proposal is (QueryService.tla).                                       *)
Baseline(request) ==
    LET At(major, minor) == Matching(documents, request.name, major, minor)
        prior == request.majorVersion - 1
        exact == At(request.majorVersion, request.minorVersion)
        priorMinor == At(request.majorVersion, request.minorVersion - 1)
    IN  IF exact # {} THEN [docs |-> exact, major |-> FALSE, minor |-> FALSE]
        ELSE IF priorMinor # {} THEN [docs |-> priorMinor, major |-> FALSE, minor |-> TRUE]
        ELSE [docs |-> At(prior, LastMinorVersion(documents, request.name, prior)),
              major |-> TRUE, minor |-> FALSE]

Compared(request) ==
    LET baseline == Baseline(request)
        stored == SchemaOf(CHOOSE d \in baseline.docs : TRUE).fields
    IN  IF baseline.docs = {} THEN NotFound
        ELSE IF \E d \in baseline.docs : ~CanDecode(d) THEN InternalServerError
        ELSE IF ~CanWrite(stored) \/ ~CanWrite(request.fields) THEN ServiceUnavailable
        ELSE [status |-> 200,
              result |-> Process(Patch(stored, request.fields),
                                 baseline.major, baseline.minor)]

-----------------------------------------------------------------------------
Init ==
    /\ documents = {}
    /\ asked = [op |-> "none"]
    /\ response = None
    /\ accepted = {}

Respond(request, r) == /\ response = None
                       /\ asked' = request
                       /\ response' = r

(* A body no format accepts is refused by the route, with a 400. *)
Create(body) ==
    LET refused == ~IsRequest(body) \/ Refuses(RequestRead(body)) IN
    /\ Respond([op |-> "create", body |-> body],
               IF refused THEN BadRequest ELSE [status |-> 201])
    /\ IF refused
       THEN UNCHANGED <<documents, accepted>>
       ELSE /\ documents' = documents \cup {DocumentOf(RequestRead(body))}
            /\ accepted' = accepted \cup {body}

GetVersion(name, major, minor) ==
    LET docs == Matching(documents, name, major, minor) IN
    /\ Respond([op |-> "getVersion", name |-> name],
               IF docs = {} THEN NotFound ELSE Served(docs))
    /\ UNCHANGED <<documents, accepted>>

GetAll ==
    /\ Respond([op |-> "getAll"], Served(documents))
    /\ UNCHANGED <<documents, accepted>>

(* The document is read, then removed, then written into the response: what  *)
(* cannot be decoded stays, what cannot be written is gone all the same.     *)
Delete(name, major, minor) ==
    LET docs == Matching(documents, name, major, minor)
        removed == IF \A d \in docs : CanDecode(d) THEN docs ELSE {}
    IN  /\ Respond([op |-> "delete", name |-> name],
                   IF docs = {} THEN NotFound ELSE Served(docs))
        /\ documents' = documents \ removed
        /\ accepted' = {b \in accepted : b.name = name => removed = {}}

Check(body) ==
    /\ Respond([op |-> "check", body |-> body],
               IF IsRequest(body) THEN Compared(RequestRead(body)) ELSE BadRequest)
    /\ UNCHANGED <<documents, accepted>>

TakeResponse ==
    /\ response # None
    /\ asked' = [op |-> "none"]
    /\ response' = None
    /\ UNCHANGED <<documents, accepted>>

Versions == {<<1, 1>>, <<1, 2>>}

Next ==
    \/ \E body \in Submissions : Create(body)
    \/ \E body \in Proposals : Check(body)
    \/ \E name \in Range(Alphabet), v \in Versions :
          GetVersion(name, v[1], v[2]) \/ Delete(name, v[1], v[2])
    \/ GetAll
    \/ TakeResponse

Spec == Init /\ [][Next]_vars

-----------------------------------------------------------------------------
(* Reference definitions for the properties. *)

(* The nodes of a tree, moved among their siblings, go to different nodes of *)
(* another one.                                                              *)
Moves(tree, other) == [DOMAIN tree -> {Last(q) : q \in DOMAIN other}]

Places(move, tree) == {Moved(move, p) : p \in DOMAIN tree}

IsPlacing(move, tree, other) ==
    /\ Places(move, tree) \subseteq DOMAIN other
    /\ \A p, q \in DOMAIN tree : Moved(move, p) = Moved(move, q) => p = q

Keeps(move, tree, other) == \A p \in DOMAIN tree : other[Moved(move, p)] = tree[p]

(* Two trees of fields are the same up to the order of siblings. *)
Equivalent(tree, other) ==
    \E move \in Moves(tree, other) :
       /\ IsPlacing(move, tree, other) /\ Keeps(move, tree, other)
       /\ DOMAIN other \subseteq Places(move, tree)

(* No two siblings agree in both keys they are sorted by. *)
NoTwins(tree) ==
    \A p \in DOMAIN tree : \A q \in Siblings(tree, p) :
       SortKey(tree[p]) = SortKey(tree[q]) => p = q

(* `more' has every field of `tree' unchanged, besides others. *)
Includes(more, tree) ==
    \E move \in Moves(tree, more) :
       /\ IsPlacing(move, tree, more) /\ Keeps(move, tree, more)
       /\ \A q \in DOMAIN more :
             Upto(q, 1) \in Places(move, tree) => q \in Places(move, tree)

(* `more' has every field of `tree', possibly with more allowed values or,   *)
(* in a record, with more fields.                                            *)
ExtendsField(g, f) ==
    /\ g.name = f.name /\ g.type = f.type /\ g.isIdentity = f.isIdentity
    /\ f.type = "array" => g.items = f.items
    /\ f.type = "enum" =>
          /\ g.valueType = f.valueType
          /\ Range(f.allowedValues) \subseteq Range(g.allowedValues)
Extends(more, tree) ==
    \E move \in Moves(tree, more) :
       /\ IsPlacing(move, tree, more)
       /\ \A p \in DOMAIN tree : ExtendsField(more[Moved(move, p)], tree[p])

(* What may be served for a value that was submitted.  For a float or double *)
(* a decimal of as many places as are kept; where its type tells such        *)
(* decimals apart it is the nearest one, and where it does not, its number   *)
(* of that type is the nearest, but for a last place.  For another value     *)
(* itself.                                                                   *)
Fits(n, range) == n % One = 0 /\ Truncated(n, range) = n

TellsApart(numbers, unit, n) ==
    \A next \in {n - unit, n + unit} : Nearest(numbers, next) # Nearest(numbers, n)

IsNumberServed(numbers, unit, served, given) ==
    /\ served % unit = 0
    /\ TellsApart(numbers, unit, served) => 2 * Distance(served, given) <= unit
    /\ \A y \in numbers :
          Distance(Nearest(numbers, served), given) <= Distance(y, given) + unit

IsServedFor(type, served, given) ==
    CASE type = "float"  -> IsNumberServed(Floats, FloatUnit, served.number, Given(given))
      [] type = "double" -> IsNumberServed(Doubles, DoubleUnit, served.number, Given(given))
      [] type = "int"    -> Fits(given.number, IntRange) => served = given
      [] type = "long"   -> Fits(given.number, LongRange) => served = given
      [] type = "string" -> served = given

ShowsField(served, given) ==
    /\ served.name = given.name /\ served.type = given.type
    /\ served.isIdentity = ("isIdentity" \in DOMAIN given /\ given.isIdentity)
    /\ given.type = "array" => served.items = given.items
    /\ given.type = "record" => served.fields = given.fields
    /\ given.type = "enum" =>
          /\ served.valueType = given.valueType
          /\ Len(served.allowedValues) = Len(given.allowedValues)
          /\ \A i \in DOMAIN given.allowedValues :
                IsServedFor(given.valueType, served.allowedValues[i], given.allowedValues[i])
Shows(served, given) ==
    /\ DOMAIN served = Reached(given)
    /\ \A p \in DOMAIN served : ShowsField(served[p], given[p])

-----------------------------------------------------------------------------
(* Type invariant.  What is stored came through the formats: one document    *)
(* per accepted body; no field of type null, no empty record, no enum        *)
(* without values of the type it names.                                      *)
IsComplete(tree, p) ==
    LET f == tree[p] IN
    /\ f.type \in Range(FieldTypes) \ {"null"}
    /\ f.isIdentity \in BOOLEAN
    /\ f.type = "record" => Append(p, 1) \in DOMAIN tree
    /\ f.type = "enum" => f.valueType \in EnumTypes /\ f.allowedValues # <<>>

ContentTypeOK ==
    /\ accepted \subseteq Submissions
    /\ {d.name : d \in documents} = {b.name : b \in accepted}
    /\ \A d \in documents :
          /\ d.majorVersion \in Nat \ {0} /\ d.minorVersion \in Nat \ {0}
          /\ CanDecode(d)
          /\ \A p \in DOMAIN d.fields : IsComplete(SchemaOf(d).fields, p)
    /\ response.status \in {0, 200, 201, 400, 404, 500, 503}

(* Whatever was accepted can be read: no GET, no list and no check of the    *)
(* stored schemas fails because of what is stored.  One document that could  *)
(* not be decoded or written would fail the list of all schemas for good.    *)
(* SchemasActor.scala:21-40, SchemaCodec.scala:116-238,                      *)
(* SchemaRegistryJsonProtocol.scala:186-226, 279-290.                        *)
StoredIsServed ==
    asked.op \in {"getVersion", "getAll", "delete"} => response.status \notin {500, 503}

(* A GET shows the schema that was submitted: the same tree of fields in the *)
(* same order, an identity flag of false where none was given, and the same  *)
(* enum values but for what their type cannot hold: 4 or 8 places, and the   *)
(* digits of a float or a double (12345.6789 becomes 12345.6787) - through   *)
(* the reader, both directions of the codec and the writer.                  *)
(* SchemaRegistryJsonProtocol.scala:80-226, 279-287, SchemaCodec.scala:30-238. *)
ServedIsSubmitted ==
    asked.op \in {"getVersion", "getAll"} /\ response.status = 200 =>
       \A s \in response.schemas : \E b \in accepted :
          /\ b.name = s.name /\ b.applicationId = s.applicationId
          /\ Shows(s.fields, b.tree)

(* A client may send back what it was served: the body is accepted and a     *)
(* check finds it to be the stored schema.  Rounding and defaults have       *)
(* settled after one round.  SchemaRegistryJsonProtocol.scala:80-226.        *)
AsBody(s) ==
    [name |-> s.name, applicationId |-> s.applicationId,
     majorVersion |-> One * s.majorVersion, minorVersion |-> One * s.minorVersion,
     fields |-> List, tree |-> s.fields]

ServedIsTheSame ==
    asked.op \in {"getVersion", "getAll"} /\ response.status = 200 =>
       \A s \in response.schemas :
          /\ IsRequest(AsBody(s))
          /\ Compared(RequestRead(AsBody(s))).status = 200
          /\ Compared(RequestRead(AsBody(s))).result.isSameSchema

(* A proposal was judged, over the stored schema it was compared with. *)
Judged == asked.op = "check" /\ response.status = 200

Proposed == RequestRead(asked.body).fields

Stored == SchemaOf(CHOOSE d \in Baseline(RequestRead(asked.body)).docs : TRUE).fields

(* A proposal counts as the same schema only if it is, up to the order of    *)
(* siblings at every depth; and, unless two siblings share name and type,    *)
(* always if it is.  DiffProcessingService.scala:41-47, UtilsService.scala.  *)
SameIffEquivalent ==
    Judged => /\ response.result.isSameSchema => Equivalent(Proposed, Stored)
              /\ NoTwins(Proposed) /\ Equivalent(Proposed, Stored) =>
                    response.result.isSameSchema

(* What may follow as a minor version loses nothing: every stored field is   *)
(* still there with its type, identity and allowed values, records field by  *)
(* field.  (A proposal for the next major version is called minor upgradable *)
(* whatever it changes.)  DiffProcessingService.scala:98-129.                *)
MinorExtends ==
    Judged /\ response.result.isMinorUpgradable /\ ~response.result.isMajorUpgrade =>
       Extends(Proposed, Stored)

(* New fields beside unchanged ones are a minor change, wherever the sorting *)
(* puts them.  DiffProcessingService.scala:38-47, 98-129.                    *)
AdditionIsMinor ==
    Judged /\ NoTwins(Proposed) /\ Includes(Proposed, Stored) =>
       response.result.isMinorUpgradable \/ response.result.isSameSchema
==============================================================================
