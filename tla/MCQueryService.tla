---------------------------- MODULE MCQueryService ----------------------------
(* QueryService on a small instance. *)
EXTENDS QueryService, TLC

SchemaMessage(op, name, major, minor) ==
    [op |-> op, name |-> name, majorVersion |-> major, minorVersion |-> minor,
     applicationId |-> "app"]

Check(name, major, minor) ==
    [op |-> "check", name |-> name, majorVersion |-> major, minorVersion |-> minor]

(* Of `a' a major version has two minor versions, so that a delete can take   *)
(* the last one away under a check; `b' can be given a new major version      *)
(* without any delete.                                                        *)
Stored(id, name, major, minor) ==
    [id |-> id, name |-> name, majorVersion |-> major, minorVersion |-> minor]
Filled ==
    {Stored("s1", "a", 1, 1), Stored("s2", "a", 2, 1), Stored("s3", "a", 2, 2),
     Stored("s4", "b", 2, 1)}

(* b's 3.1 and 3.2 can only both be created in a race. *)
Traffic ==
    {SchemaMessage("delete", "a", 2, 2), SchemaMessage("delete", "a", 2, 1),
     SchemaMessage("create", "b", 3, 2), SchemaMessage("create", "b", 3, 1)}

Asked ==
    {Check("a", 3, 1), Check("b", 3, 2), Check("b", 4, 1),
     [op |-> "list", name |-> "any", majorVersion |-> 0, minorVersion |-> 0]}

OneOfEach == [op \in {"check", "list"} |-> 1]
NoIndex == {}

RequestSymmetry == Permutations(Requests) \cup Permutations(Queries)
==============================================================================
