------------------------------- MODULE Router -------------------------------
(***************************************************************************)
(* gateway/router.py: the pool of one model, what the router believes of   *)
(* each replica, and the choice of one for an attempt.  A selection first  *)
(* refreshes stale verdicts, one awaited probe after the other, all with   *)
(* the time at which the refresh began; several of them run side by side.  *)
(* Replicas answer probes and requests as they like.                       *)
(***************************************************************************)
EXTENDS Integers, FiniteSets, FiniteSetsExt, Limits

CONSTANTS
  NumReplicas,
  LaneOf,        \* replica -> "stable" or "canary"
  CanaryWeight,  \* 0 .. 100
  HealthTTL,     \* in ticks
  MaxAttempts,
  MaxTime        \* bound on the clock

Replica == 1 .. NumReplicas

ASSUME RouterSizes == {NumReplicas, HealthTTL, MaxAttempts} \subseteq Nat \ {0} /\ MaxTime \in Nat
ASSUME RouterLanes == LaneOf \in [Replica -> {"stable", "canary"}] /\ CanaryWeight \in 0 .. 100

VARIABLES
  now,        \* the router's clock
  healthy,    \* BackendEntry.healthy
  checkedAt,  \* BackendEntry.checked_at
  route,      \* per task, where its selection or its attempt is
  failedAt,   \* history: when _mark_failure last condemned the replica
  early       \* history: the tasks that were probing the replica at that moment

Never == 0 - HealthTTL

poolVars == <<healthy, checkedAt, failedAt, early>>

\* A task that routes nothing; `tried` are the replicas of its attempts, `started`
\* says that an event has been yielded.
AtRest(at) ==
  [at |-> at, stamp |-> 0, replica |-> 0, attempt |-> 0, tried |-> {}, started |-> FALSE]

RouteType ==
  [at : {"new", "probing", "attempt", "yielded", "closing", "done"}, stamp : 0 .. MaxTime,
   replica : 0 .. NumReplicas, attempt : 0 .. MaxAttempts, tried : SUBSET Replica, started : BOOLEAN]

PoolInit ==
  /\ now = 0
  /\ healthy = [b \in Replica |-> TRUE]
  /\ checkedAt = [b \in Replica |-> Never]
  /\ failedAt = [b \in Replica |-> Never]
  /\ early = [b \in Replica |-> {}]

\* is_fresh
Fresh(stamp, checked) == stamp - checked < HealthTTL

\* ModelPool.candidates
Candidates(lane, tried, H) == {b \in Replica : LaneOf[b] = lane /\ H[b] /\ b \notin tried}

\* choose_lane and _weighted_choice: every replica the draw may end at.
Drawn(tried, H) ==
  LET stable == Candidates("stable", tried, H)
      canary == Candidates("canary", tried, H)
  IN  IF stable = {} \/ canary = {} THEN stable \cup canary
      ELSE (IF CanaryWeight > 0 THEN canary ELSE {}) \cup (IF CanaryWeight < 100 THEN stable ELSE {})

\* The replicas _refresh_pool has still to probe, from the one at `from` on.
Stale(stamp, from, C) == {b \in Replica : b >= from /\ ~Fresh(stamp, C[b])}

\* select, from the visit of replica `from`: up to its next await, or to a choice.
\* H and C are the verdicts and stamps the visits see.
Selects(x, stamp, from, H, C) ==
  LET stale == Stale(stamp, from, C)
  IN  IF stale # {}
        THEN {[x EXCEPT !.at = "probing", !.stamp = stamp, !.replica = Min(stale)]}
        ELSE {[x EXCEPT !.at = "attempt", !.stamp = 0, !.replica = b, !.attempt = @ + 1,
                        !.tried = @ \cup {b}] : b \in Drawn(x.tried, H)}

\* refresh_health after its await: the answer, or FALSE if the probe raised, stamped
\* with the time before it.
Verdict(x, alive) == [healthy EXCEPT ![x.replica] = alive]
Stamped(x) == [checkedAt EXCEPT ![x.replica] = x.stamp]

\* A verdict from before the last failure hides that failure.
Remembers(r, b) ==
  IF r \in early[b]
    THEN failedAt' = [failedAt EXCEPT ![b] = Never] /\ early' = [early EXCEPT ![b] = {}]
    ELSE UNCHANGED <<failedAt, early>>

\* _mark_failure condemns the replica unless the request was rejected, or the
\* exception was not a BackendError and is wrapped as a rejection.
Condemns(kind) == kind = "retryable"

\* A slip: the verdict keeps its old stamp.
CondemnedNoStamp(b, kind) ==
  [H |-> IF Condemns(kind) THEN [healthy EXCEPT ![b] = FALSE] ELSE healthy, C |-> checkedAt]

\* The verdicts and stamps after _mark_failure.
Condemned(b, kind) ==
  IF Condemns(kind)
    THEN [H |-> [healthy EXCEPT ![b] = FALSE], C |-> [checkedAt EXCEPT ![b] = now]]
    ELSE [H |-> healthy, C |-> checkedAt]

Marks(b, kind) ==
  LET probing == {r \in DOMAIN route : route[r].at = "probing" /\ route[r].replica = b}
  IN  IF Condemns(kind)
        THEN failedAt' = [failedAt EXCEPT ![b] = now] /\ early' = [early EXCEPT ![b] = probing]
        ELSE UNCHANGED <<failedAt, early>>
=============================================================================
