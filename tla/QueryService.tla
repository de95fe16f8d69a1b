----------------------------- MODULE QueryService -----------------------------
(***************************************************************************)
(* The actors that only read the schemas collection, while the schema      *)
(* actors of the same process write it.  A CompatibilityActor chooses the  *)
(* stored schema it compares a request with (the baseline) by up to four   *)
(* reads; a SchemasActor lists the whole collection by one.                *)
(*                                                                         *)
(* The comparison itself is a function of the request and the baseline and *)
(* touches no shared state: the verdict here is which of its three forms   *)
(* was asked for, with the baseline.                                       *)
(***************************************************************************)
EXTENDS SchemaService

CONSTANTS
    Queries,       \* the HTTP requests
    QueryMessages, \* what a request may ask for
    QueryPoolSize  \* for each operation, the number of actors of its pool

ASSUME QueryPoolAssumption ==
    QueryPoolSize["check"] \in Nat \ {0} /\ QueryPoolSize["list"] \in Nat \ {0}

(* CompatibilityCheck and GetSchemas. *)
ASSUME QueryMessagesAssumption == \A m \in QueryMessages : m.op \in {"check", "list"}

VARIABLES
    asked,      \* what each query asks for
    qphase,     \* how far each query is
    verdict,    \* the response each query got
    lastMinor,  \* the last minor version a check has read
    baseline,   \* the documents the response is made of
    qknown,     \* history: the documents answered 201 when a query was sent
    judgements, \* history: what one read would have led to, at each moment
                \* the query was in service
    removed     \* history: whether a schema of the name asked for was
                \* deleted while the query was in service

answerVars == <<verdict, lastMinor, baseline>>
historyVars == <<judgements, removed>>
queryVars == <<asked, qphase, answerVars, qknown, historyVars>>
systemVars == <<vars, queryVars>>

QueryServing == {"exact", "priorMinor", "lastOfPriorMajor", "priorMajor", "getAll"}

InQueryService(op) == {q \in Queries : qphase[q] \in QueryServing /\ asked[q].op = op}

(* The documents each lookup of a check asks for. *)
Exact(docs, m) == Matching(docs, m.name, m.majorVersion, m.minorVersion)
PriorMinor(docs, m) == Matching(docs, m.name, m.majorVersion, m.minorVersion - 1)
PriorMajor(docs, m, minor) == Matching(docs, m.name, m.majorVersion - 1, minor)
MutantLastOfPriorMajor(docs, m) ==
    LastMinorVersion(docs, m.name, m.majorVersion - 1) - 1
LastOfPriorMajor(docs, m) == LastMinorVersion(docs, m.name, m.majorVersion - 1)

-----------------------------------------------------------------------------
(* Reference definition: the answer to a check of one unchanging collection. *)
Version(major, minor) == [majorVersion |-> major, minorVersion |-> minor]
NoVersion == Version(0, 0)

Judged(docs, m) ==
    LET last == LastOfPriorMajor(docs, m) IN
    IF Exact(docs, m) # {}
    THEN [verdict |-> "same", version |-> Version(m.majorVersion, m.minorVersion)]
    ELSE IF PriorMinor(docs, m) # {}
    THEN [verdict |-> "minorUpgrade",
          version |-> Version(m.majorVersion, m.minorVersion - 1)]
    ELSE IF PriorMajor(docs, m, last) # {}
    THEN [verdict |-> "majorUpgrade", version |-> Version(m.majorVersion - 1, last)]
    ELSE [verdict |-> "notFound", version |-> NoVersion]

(* Recorded after every step for the checks it leaves in service. *)
Observe ==
    LET served == {q \in Queries : qphase'[q] \in QueryServing /\ asked[q].op = "check"}
        gone(q) == \E d \in schemas \ schemas' : d.name = asked[q].name
    IN  /\ judgements' = [q \in Queries |->
              IF q \in served THEN judgements[q] \cup {Judged(schemas', asked[q])}
                              ELSE judgements[q]]
        /\ removed' = [q \in Queries |-> removed[q] \/ (q \in served /\ gone(q))]

-----------------------------------------------------------------------------
QueryInit ==
    /\ Init
    /\ asked \in [Queries -> QueryMessages]
    /\ qphase = [q \in Queries |-> "unsent"]
    /\ verdict = [q \in Queries |-> "none"]
    /\ lastMinor = [q \in Queries |-> 0]
    /\ baseline = [q \in Queries |-> {}]
    /\ qknown = [q \in Queries |-> {}]
    /\ judgements = [q \in Queries |-> {}]
    /\ removed = [q \in Queries |-> FALSE]

QGoto(q, p) == qphase' = [qphase EXCEPT ![q] = p]

QFinish(q, v, docs) ==
    /\ QGoto(q, "answered")
    /\ verdict' = [verdict EXCEPT ![q] = v]
    /\ baseline' = [baseline EXCEPT ![q] = docs]
    /\ UNCHANGED lastMinor

QSend(q) ==
    /\ qphase[q] = "unsent"
    /\ QGoto(q, "queued")
    /\ qknown' = [qknown EXCEPT ![q] = Acknowledged]
    /\ UNCHANGED answerVars

QTake(q) ==
    /\ qphase[q] = "queued"
    /\ Cardinality(InQueryService(asked[q].op)) < QueryPoolSize[asked[q].op]
    /\ QGoto(q, IF asked[q].op = "check" THEN "exact" ELSE "getAll")
    /\ UNCHANGED <<answerVars, qknown>>

(* first() of a lookup that found something answers with any match. *)
Compare(q, v, matches) == \E d \in matches : QFinish(q, v, {d})

MutantFindExactMatch(q) ==
    /\ qphase[q] = "exact"
    /\ QGoto(q, "priorMinor")
    /\ UNCHANGED <<answerVars, qknown>>
FindExactMatch(q) ==
    /\ qphase[q] = "exact"
    /\ \/ Compare(q, "same", Exact(schemas, asked[q]))
       \/ /\ Exact(schemas, asked[q]) = {}
          /\ QGoto(q, "priorMinor") /\ UNCHANGED answerVars
    /\ UNCHANGED qknown

FindPriorMinor(q) ==
    /\ qphase[q] = "priorMinor"
    /\ \/ Compare(q, "minorUpgrade", PriorMinor(schemas, asked[q]))
       \/ /\ PriorMinor(schemas, asked[q]) = {}
          /\ QGoto(q, "lastOfPriorMajor") /\ UNCHANGED answerVars
    /\ UNCHANGED qknown

(* The argument of the next lookup, read by a call of its own. *)
MutantLastMinorToTry(q) == LastMinorVersion(schemas, asked[q].name, asked[q].majorVersion)
LastMinorToTry(q) == LastOfPriorMajor(schemas, asked[q])

ReadLastOfPriorMajor(q) ==
    /\ qphase[q] = "lastOfPriorMajor"
    /\ QGoto(q, "priorMajor")
    /\ lastMinor' = [lastMinor EXCEPT ![q] = LastMinorToTry(q)]
    /\ UNCHANGED <<verdict, baseline, qknown>>

FindPriorMajor(q) ==
    LET matches == PriorMajor(schemas, asked[q], lastMinor[q]) IN
    /\ qphase[q] = "priorMajor"
    /\ \/ Compare(q, "majorUpgrade", matches)
       \/ matches = {} /\ QFinish(q, "notFound", {})
    /\ UNCHANGED qknown

GetAll(q) ==
    /\ qphase[q] = "getAll"
    /\ QFinish(q, "ok", schemas)
    /\ UNCHANGED qknown

QueryFails(q) ==
    /\ MayFail
    /\ qphase[q] \in QueryServing
    /\ QFinish(q, "error", {})
    /\ UNCHANGED qknown

QueryStep ==
    /\ \E q \in Queries :
          \/ QSend(q) \/ QTake(q)
          \/ FindExactMatch(q) \/ FindPriorMinor(q)
          \/ ReadLastOfPriorMajor(q) \/ FindPriorMajor(q)
          \/ GetAll(q) \/ QueryFails(q)
    /\ UNCHANGED <<asked, vars>>

SchemaStep ==
    /\ \E r \in Requests : Send(r) \/ ActorStep(r) \/ ApplyWrite(r)
    /\ UNCHANGED <<asked, qphase, answerVars, qknown>>

(* The process stops: all pools lose what they hold. *)
Stop ==
    LET held == Serving \cup QueryServing \cup {"queued"} IN
    /\ MayCrash
    /\ \/ \E r \in Requests : phase[r] \in held
       \/ \E q \in Queries : qphase[q] \in held
    /\ phase' = [r \in Requests |-> IF phase[r] \in held THEN "lost" ELSE phase[r]]
    /\ qphase' = [q \in Queries |-> IF qphase[q] \in held THEN "lost" ELSE qphase[q]]
    /\ UNCHANGED <<answer, found, requestVars, storeVars, asked, answerVars, qknown>>

QueryNext == (QueryStep \/ SchemaStep \/ Stop) /\ Observe

QuerySpec == QueryInit /\ [][QueryNext]_systemVars

-----------------------------------------------------------------------------
(* Type invariant of the queries' part. *)
Verdicts == {"same", "minorUpgrade", "majorUpgrade", "notFound"}

QueryTypeOK ==
    /\ asked \in [Queries -> QueryMessages]
    /\ qphase \in [Queries -> {"unsent", "queued", "answered", "lost"} \cup QueryServing]
    /\ verdict \in [Queries -> {"none", "ok", "error"} \cup Verdicts]
    /\ lastMinor \in [Queries -> Nat]
    /\ baseline \in [Queries -> SUBSET EverStored]
    /\ qknown \in [Queries -> SUBSET EverStored]
    /\ removed \in [Queries -> BOOLEAN]
    /\ \A q \in Queries : \A j \in judgements[q] : j.verdict \in Verdicts

(* Four reads at four moments give the answer of one, unless the answer of   *)
(* one changed under them: if a single read would have led to the same form  *)
(* of comparison with the same version at every moment of its service, the   *)
(* check is answered so, whatever else was written, and however often.       *)
(* CompatibilityActor.scala:32-83.                                           *)
SteadyCheckIsRight ==
    \A q \in Queries :
       verdict[q] \in Verdicts =>
          \A j \in judgements[q] :
             judgements[q] = {j} =>
                /\ verdict[q] = j.verdict
                /\ \A d \in baseline[q] :
                      Version(d.majorVersion, d.minorVersion) = j.version

(* A check is answered 404 only if at some moment of its service there was   *)
(* nothing to compare with, or a schema of that name was deleted meanwhile:  *)
(* no race with creates alone makes a stored baseline unfindable.            *)
(* CompatibilityActor.scala:46-57.                                           *)
NotFoundIsJustified ==
    \A q \in Queries :
       verdict[q] = "notFound" =>
          \/ \E j \in judgements[q] : j.verdict = "notFound"
          \/ removed[q]

(* A schema answered 201 before a query was sent and of whose version no     *)
(* DELETE has been issued is in every list, and a check of its version is a  *)
(* comparison with that version, neither an upgrade nor a 404.               *)
(* SchemasActor.scala:22-39, CompatibilityActor.scala:32-38.                 *)
AcknowledgedIsQueried ==
    \A q \in Queries : \A d \in qknown[q] :
       verdict[q] \notin {"none", "error"} /\ ~DeleteIssued(d) =>
          IF asked[q].op = "list" THEN d \in baseline[q]
          ELSE d \in Exact({d}, asked[q]) => verdict[q] = "same"
==============================================================================
