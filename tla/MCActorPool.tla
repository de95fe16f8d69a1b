----------------------------- MODULE MCActorPool -----------------------------
(* ActorPool with refused requests, reads, and a create that makes three of its calls. *)
EXTENDS ActorPool

SchemaCalls == {0, 1, 3}
==============================================================================
