-------------------------- MODULE MCRegistryService --------------------------
(* RegistryService on small instances. *)
EXTENDS RegistryService, TLC

SchemaMessage(op, name, major, minor) ==
    [op |-> op, name |-> name, majorVersion |-> major, minorVersion |-> minor,
     applicationId |-> "app"]

ConsumerMessage(op, name, schemaName, major, minor) ==
    [op |-> op, name |-> name, schemaName |-> schemaName,
     schemaMajorVersion |-> major, schemaMinorVersion |-> minor]

Register(major, minor) == ConsumerMessage("register", "c", "a", major, minor)

(* 1.1 comes and goes, and consumers of it and of a version never stored. *)
SchemaTraffic ==
    {SchemaMessage("create", "a", 1, 1), SchemaMessage("delete", "a", 1, 1)}

ConsumerTraffic ==
    {Register(1, 1), Register(1, 2),
     ConsumerMessage("getBySchema", "c", "a", 1, 1),
     ConsumerMessage("get", "c", "a", 1, 1)}

DeleteOnly == {SchemaMessage("delete", "a", 1, 1)}
RegisterOnly == {Register(1, 1)}
TwoSchemas == {Register(1, 1), ConsumerMessage("register", "c", "b", 1, 1)}

Stored(id, name) ==
    [id |-> id, name |-> name, majorVersion |-> 1, minorVersion |-> 1]
NoSeed == {}
FirstStored == {Stored("s1", "a")}
BothStored == {Stored("s1", "a"), Stored("s2", "b")}

NoIndex == {}
DeployedConsumerIndex == {{"name", "schemaId"}}

ConsumerSymmetry == Permutations(ConsumerRequests)
RequestSymmetry == Permutations(Requests) \cup ConsumerSymmetry
==============================================================================
