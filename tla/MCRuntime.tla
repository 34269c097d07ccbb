----------------------------- MODULE MCRuntime -----------------------------
(* AsyncEngine with a few calls, and KVPool on a small pool: the loop never  *)
(* touches the pool but through the engine, which Engine.tla composes with   *)
(* it, so that each is on its own here and a behaviour moves only `part`.    *)
EXTENDS AsyncEngine, KVPool

CONSTANT Parts   \* which of them

VARIABLE part

\* Two calls with the same id, one after the other or at once; and two with an id
\* each, over an engine that the backend starts again.
Reusing == [calls |-> Call, idOf |-> [c \in Call |-> 1], restarts |-> FALSE]
Restarting == [calls |-> Call, idOf |-> [c \in Call |-> c], restarts |-> TRUE]
BothUses == {Reusing, Restarting}

runtimeVars == <<part, vars, allocatorVars>>

RuntimeInit ==
  /\ part \in Parts
  /\ use \in IF part = "async" THEN Uses ELSE {CHOOSE u \in Uses : TRUE}
  /\ Init /\ AllocatorInit

RuntimeNext ==
  \/ part = "async" /\ Next /\ UNCHANGED <<part, allocatorVars>>
  \/ part = "pool" /\ AllocatorNext /\ UNCHANGED <<part, vars>>

\* Nothing in the loop's fairness is enabled in a behaviour of the pool.
RuntimeSpec == RuntimeInit /\ [][RuntimeNext]_runtimeVars /\ Fairness
=============================================================================
