---------------------------- MODULE SchemaRegistry ----------------------------
(***************************************************************************)
(* What the schema endpoints promise a client that never notices another   *)
(* one: every request takes effect, and is decided on, in one step.        *)
(*                                                                         *)
(* The rule a create has to satisfy is the one the code applies, written   *)
(* as one judgement of one collection (SchemaCreationService.scala:8-54).  *)
(* SchemaService implements this module as long as one actor serves the    *)
(* pool and no call fails.                                                 *)
(***************************************************************************)
EXTENDS SchemaStore

CONSTANTS Requests, Messages, Seed

VARIABLES message, verdict, reported, schemas

vars == <<message, verdict, reported, schemas>>

Versioned(r) == Matching(schemas, message[r].name,
                         message[r].majorVersion, message[r].minorVersion)

Judgement(m) ==
    IF m.majorVersion < 1 THEN "badMajor"
    ELSE IF m.minorVersion < 1 THEN "badMinor"
    ELSE IF m.applicationId = "" THEN "blankApplication"
    ELSE IF Matching(schemas, m.name, m.majorVersion, m.minorVersion) # {}
    THEN "exists"
    ELSE IF LastMajorVersion(schemas, m.name) + 1 # m.majorVersion
    THEN "skipsMajor"
    ELSE IF LastMinorVersion(schemas, m.name, m.minorVersion) + 1 # m.minorVersion
    THEN "skipsMinor"
    ELSE "created"

Decide(r, v) == verdict' = [verdict EXCEPT ![r] = v]

Report(r, docs) == reported' = [reported EXCEPT ![r] = docs]

Init ==
    /\ message \in [Requests -> Messages]
    /\ verdict = [r \in Requests |-> "none"]
    /\ reported = [r \in Requests |-> {}]
    /\ schemas = Seed

Create(r) ==
    /\ message[r].op = "create"
    /\ Decide(r, Judgement(message[r]))
    /\ schemas' = IF Judgement(message[r]) # "created" THEN schemas
                  ELSE schemas \cup
                         {[id |-> r, name |-> message[r].name,
                           majorVersion |-> message[r].majorVersion,
                           minorVersion |-> message[r].minorVersion]}
    /\ UNCHANGED reported

Get(r) ==
    /\ message[r].op = "get"
    /\ Report(r, Named(schemas, message[r].name))
    /\ Decide(r, IF Named(schemas, message[r].name) = {} THEN "notFound" ELSE "ok")
    /\ UNCHANGED schemas

GetVersion(r) ==
    /\ message[r].op = "getVersion"
    /\ \/ /\ Versioned(r) = {}
          /\ Report(r, {})
          /\ Decide(r, "notFound")
       \/ \E d \in Versioned(r) : Report(r, {d}) /\ Decide(r, "ok")
    /\ UNCHANGED schemas

(* The document removed is the document reported. *)
Delete(r) ==
    /\ message[r].op = "delete"
    /\ \/ /\ Versioned(r) = {}
          /\ Report(r, {})
          /\ Decide(r, "notFound")
          /\ UNCHANGED schemas
       \/ \E d \in Versioned(r) : /\ Report(r, {d})
                                  /\ Decide(r, "ok")
                                  /\ schemas' = schemas \ {d}

Serve(r) == /\ verdict[r] = "none"
            /\ Create(r) \/ Get(r) \/ GetVersion(r) \/ Delete(r)
            /\ UNCHANGED message

Next == \E r \in Requests : Serve(r)

Spec == Init /\ [][Next]_vars
==============================================================================
