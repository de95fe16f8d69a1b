------------------------------ MODULE WorkerPool ------------------------------
(***************************************************************************)
(* What a pool of actors promises, whatever its router and its mailboxes   *)
(* do: it serves at most PoolSize messages at a time and each of them      *)
(* once, and a message is lost only with the process.                      *)
(***************************************************************************)
EXTENDS Integers, FiniteSets

CONSTANTS Requests, PoolSize

VARIABLE stage

In(s) == {r \in Requests : stage[r] = s}

Move(r, from, to) == stage[r] = from /\ stage' = [stage EXCEPT ![r] = to]

Init == stage = [r \in Requests |-> "unsent"]

Send(r) == Move(r, "unsent", "queued")

HasRoom == Cardinality(In("serving")) < PoolSize

Take(r) == HasRoom /\ Move(r, "queued", "serving")

(* A message an actor answers at once. *)
Dismiss(r) == HasRoom /\ Move(r, "queued", "done")

Finish(r) == Move(r, "serving", "done")

Stop == stage' = [r \in Requests |->
                     IF stage[r] \in {"queued", "serving"} THEN "lost" ELSE stage[r]]

Next == \/ \E r \in Requests : Send(r) \/ Take(r) \/ Dismiss(r) \/ Finish(r)
        \/ Stop

Spec == Init /\ [][Next]_stage
==============================================================================
