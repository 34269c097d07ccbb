--------------------------- MODULE FaultSchedule ---------------------------
(***************************************************************************)
(* chaos/faults.py: a schedule of faults expanded into a timeline before   *)
(* the run.  Times are whole units.  The steady faults (latency, error)    *)
(* are not events: see Chaos.  A timeline is a set of events and an order  *)
(* on them.                                                                *)
(***************************************************************************)
EXTENDS Integers, Sequences, FiniteSets

CONSTANTS
  Fleet,     \* the replicas, in a sequence without repetitions
  Duration   \* duration_s

ASSUME FleetAssumption == /\ Fleet \in Seq({Fleet[i] : i \in DOMAIN Fleet}) \ {<< >>}
                          /\ \A i, j \in DOMAIN Fleet : Fleet[i] = Fleet[j] => i = j
ASSUME DurationAssumption == Duration \in Nat \ {0}

Workers == {Fleet[i] : i \in DOMAIN Fleet}
Anyone == "any"

\* __post_init__: what a fault has to satisfy.
Fault ==
  [kind : {"kill"}, first : Nat, every : Nat \ {0}, grace : Nat, restart : Nat,
   target : Workers \union {Anyone}]
  \union [kind : {"partition"}, at : Nat, for : Nat \ {0}, target : Workers]

Down == {"drain", "kill", "partition_start"}

\* A slip: disruptions before recoveries.
OrderWorstFirst(action) ==
  CASE action = "drain" -> 0 [] action = "kill" -> 1 [] action = "partition_start" -> 2
    [] action = "restart" -> 3 [] OTHER -> 4

\* _ACTION_ORDER
Order(action) ==
  CASE action = "restart" -> 0 [] action = "partition_end" -> 1
    [] action = "drain" -> 2 [] action = "kill" -> 3 [] OTHER -> 4

Event(t, action, target, kind, id) ==
  [t |-> t, action |-> action, target |-> target, kind |-> kind, id |-> id]

\* _kill_events: drain, kill and restart, round robin over the fleet from a drawn offset.
\* The restart is there even if it falls after the end of the run.
KillEvents(f, n, offset) ==
  UNION {LET at == f.first + k * f.every
             target == IF f.target # Anyone THEN f.target ELSE Fleet[1 + ((offset + k) % Len(Fleet))]
             E(t, action) == Event(t, action, target, "kill", <<n, k>>)
         IN  {E(at + f.grace, "kill"), E(at + f.grace + f.restart, "restart")}
             \union (IF f.grace > 0 THEN {E(at, "drain")} ELSE {})
         : k \in {k \in 0 .. Duration : f.first + k * f.every < Duration}}

\* _partition_events
PartitionEvents(f, n) ==
  IF f.at >= Duration THEN {}
  ELSE {Event(f.at, "partition_start", f.target, "partition", <<n, 0>>),
        Event(f.at + f.for, "partition_end", f.target, "partition", <<n, 0>>)}

\* FaultSchedule.events
Events(faults, offset) ==
  UNION {IF faults[n].kind = "kill" THEN KillEvents(faults[n], n, offset)
         ELSE PartitionEvents(faults[n], n) : n \in DOMAIN faults}

\* The sort key: the time, the kind of action, the target (by its place in the fleet), and
\* for the rest the order of the faults.
Place(w) == CHOOSE i \in DOMAIN Fleet : Fleet[i] = w
Key(e) == <<e.t, Order(e.action), Place(e.target), e.id[1], e.id[2]>>
Before(a, b) ==
  \E i \in 1 .. 5 : Key(a)[i] < Key(b)[i] /\ \A j \in 1 .. i - 1 : Key(a)[j] = Key(b)[j]

First(E) == CHOOSE e \in E : \A o \in E \ {e} : Before(e, o)
Last(E) == CHOOSE e \in E : \A o \in E \ {e} : Before(o, e)

\* outage_windows: the replicas that are out once the events of E have been applied; an
\* outage is where it is the whole fleet.
DownAfter(E) ==
  {w \in Workers : LET mine == {e \in E : e.target = w}
                   IN  mine # {} /\ Last(mine).action \in Down}

----------------------------------------------------------------------------
(* What is said of a timeline                                              *)

Ids(E) == {e.id : e \in E}
Start(E, id) == LET T == {e.t : e \in {e \in E : e.id = id}} IN CHOOSE t \in T : \A u \in T : t <= u
End(E, id) == LET T == {e.t : e \in {e \in E : e.id = id}} IN CHOOSE t \in T : \A u \in T : t >= u
TargetOf(E, id) == (CHOOSE e \in E : e.id = id).target

\* No replica is hit again before it is back, and a replica is not back as it is hit.
Clean(E) ==
  /\ \A a, b \in Ids(E) : a # b /\ TargetOf(E, a) = TargetOf(E, b) =>
       End(E, a) <= Start(E, b) \/ End(E, b) <= Start(E, a)
  /\ \A e \in E : e.action = "restart" =>
       \A k \in E : k.action = "kill" /\ k.id = e.id => k.t < e.t

\* At some time every replica is hit by a fault that is not over.
Doomed(E) ==
  \E t \in {e.t : e \in E} : \A w \in Workers :
    \E id \in Ids(E) : TargetOf(E, id) = w /\ Start(E, id) <= t /\ t < End(E, id)
=============================================================================
