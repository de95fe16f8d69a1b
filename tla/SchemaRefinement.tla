--------------------------- MODULE SchemaRefinement ---------------------------
(***************************************************************************)
(* The two abstract specifications SchemaService implements, under the     *)
(* mappings that show it: WorkerPool, whatever fails, and SchemaRegistry,  *)
(* as long as one actor serves the pool and no call fails.                 *)
(***************************************************************************)
EXTENDS SchemaService

(* SchemaService implements SchemaRegistry: a request is decided on by the   *)
(* step that fixes its outcome, for a write the one in which the database    *)
(* executes it.  What a request reports is what it read, for a delete from   *)
(* that same step on.                                                        *)
Verdict ==
    [r \in Requests |->
        IF write[r] # "done" THEN answer[r]
        ELSE IF effect[r] = {} THEN "error"
        ELSE IF message[r].op = "create" THEN "created" ELSE "ok"]

Reported == [r \in Requests |-> IF Verdict[r] = "none" THEN {} ELSE found[r]]

Registry == INSTANCE SchemaRegistry WITH verdict <- Verdict, reported <- Reported
ImplementsRegistry == Registry!Spec

-----------------------------------------------------------------------------
(* SchemaService's actors are a WorkerPool, failures, late writes and the    *)
(* stop of the process included: no more requests in service than actors,    *)
(* none served twice or dropped while the process runs.  ActorPool keeps the *)
(* same promise with Akka's router and mailboxes in it, so what SchemaService *)
(* leaves out of the pool changes nothing it says.                           *)
(* ApplicationMain.scala:56-63, SchemaActor.scala:27-116.                    *)
Stage ==
    [r \in Requests |->
        IF phase[r] \in Serving THEN "serving"
        ELSE IF phase[r] = "answered" THEN "done" ELSE phase[r]]

Workers == INSTANCE WorkerPool WITH stage <- Stage
ImplementsWorkerPool == Workers!Spec
==============================================================================
