------------------------------ MODULE MCChaos ------------------------------
(* Chaos over two replicas and a handful of schedules.                     *)
EXTENDS Chaos

TwoReplicas == <<"a", "b">>
Kill(first, every, grace, restart, target) ==
  [kind |-> "kill", first |-> first, every |-> every, grace |-> grace, restart |-> restart, target |-> target]
Partition(at, for, target) == [kind |-> "partition", at |-> at, for |-> for, target |-> target]

\* Rolling kills, abrupt and graceful; a partition and a kill of different replicas, apart
\* and meeting; a total outage; two faults on one replica.
SomeSchedules ==
  {<<Kill(1, 1, 0, 1, Anyone)>>, <<Kill(1, 2, 1, 1, Anyone)>>,
   <<Kill(1, 3, 1, 1, "a"), Partition(1, 2, "b")>>,
   <<Kill(1, 3, 0, 3, "a"), Kill(1, 3, 0, 1, "b")>>,
   <<Kill(1, 3, 1, 1, "a"), Partition(0, 2, "a")>>}
=============================================================================
