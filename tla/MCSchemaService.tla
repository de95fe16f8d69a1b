--------------------------- MODULE MCSchemaService ---------------------------
(* SchemaService on small instances. *)
EXTENDS SchemaRefinement, TLC

Message(op, name, major, minor, application) ==
    [op |-> op, name |-> name, majorVersion |-> major, minorVersion |-> minor,
     applicationId |-> application]

CreateA(major, minor) == Message("create", "a", major, minor, "app")
DeleteA(major, minor) == Message("delete", "a", major, minor, "")
GetA(major, minor) == Message("getVersion", "a", major, minor, "")
ListA == Message("get", "a", 0, 0, "")

(* Creates that follow 1.1 by the rule of lines 27-45, and the reads and      *)
(* deletes that can fall between them.                                        *)
RacingMessages ==
    {CreateA(1, 1), CreateA(2, 1), CreateA(3, 2), CreateA(0, 1),
     DeleteA(1, 1), GetA(2, 1), ListA}

(* The same on a collection that holds 1.1 and 2.1 already. *)
LaterMessages ==
    {CreateA(3, 2), CreateA(4, 2), CreateA(4, 3), Message("create", "b", 1, 1, "app"),
     DeleteA(3, 2), DeleteA(2, 1), GetA(3, 2), ListA}

(* Every version up to 3.3. *)
Creations == {CreateA(major, minor) : major \in 1..3, minor \in 1..3}

FirstVersionRace == {CreateA(1, 1)}

SerialMessages ==
    {CreateA(1, 1), CreateA(2, 1), CreateA(1, 2), CreateA(0, 1), CreateA(1, 0),
     DeleteA(1, 1), GetA(1, 1), ListA}

Stored(id, name, major, minor) ==
    [id |-> id, name |-> name, majorVersion |-> major, minorVersion |-> minor]

NoSeed == {}
TwoMajors == {Stored("s1", "a", 1, 1), Stored("s2", "a", 2, 1)}

NoIndex == {}
DeployedIndex == {{"name", "major_version", "minor_version"}}

RequestSymmetry == Permutations(Requests)

==============================================================================
