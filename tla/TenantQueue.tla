---------------------------- MODULE TenantQueue ----------------------------
(***************************************************************************)
(* _WaitQueue of engine/core/scheduler.py under the "tenant_fair" policy:  *)
(* weighted fair queueing over the tenants that have requests waiting.     *)
(*                                                                         *)
(* A tenant's virtual time advances by 1/weight with every admission.      *)
(* Cost[t] is that advance in units that make it a whole number (the code  *)
(* adds floats; rounding is left out).  A request is only counted: within  *)
(* a tenant the queue is first in, first out.                              *)
(***************************************************************************)
EXTENDS Integers

CONSTANTS
  Tenant,      \* tenant ids, ordered as their names are (ties of _next_tenant)
  Cost,        \* 1 / weight_of(t), scaled
  MaxCost,     \* the largest of them, the cost of the lightest tenant
  MaxBacklog,  \* bound on the requests a tenant has waiting
  MaxNow       \* bound on the virtual clock

ASSUME TenantAssumption == Tenant \subseteq Nat
ASSUME CostAssumption == Cost \in [Tenant -> Nat \ {0}]
ASSUME MaxCostAssumption == MaxCost \in Nat /\ \A t \in Tenant : Cost[t] <= MaxCost
ASSUME BoundAssumption == MaxBacklog \in Nat /\ MaxNow \in Nat

VARIABLES
  backlog,     \* the length of _queues[t]; no entry when 0
  vtime,       \* _vtime; 0 for a tenant never seen
  now          \* _now: the virtual time of the last admission

queueVars == <<backlog, vtime, now>>

\* Backlogs and virtual times are never negative.
QueueTypeOK ==
  /\ backlog \in [Tenant -> Nat]
  /\ vtime \in [Tenant -> Nat]
  /\ now \in Nat

QueueInit ==
  /\ backlog = [t \in Tenant |-> 0]
  /\ vtime = [t \in Tenant |-> 0]
  /\ now = 0

----------------------------------------------------------------------------
Backlogged == {t \in Tenant : backlog[t] > 0}

\* A slip: time spent idle earns credit.
RejoinAtOwn(t) == vtime[t]

\* Where a tenant that becomes backlogged starts.
RejoinAt(t) == IF vtime[t] >= now THEN vtime[t] ELSE now

Push(t) ==
  /\ backlog[t] < MaxBacklog
  /\ backlog' = [backlog EXCEPT ![t] = @ + 1]
  /\ vtime' = IF backlog[t] = 0 THEN [vtime EXCEPT ![t] = RejoinAt(t)] ELSE vtime
  /\ UNCHANGED now

Before(t, u) == vtime[t] < vtime[u] \/ (vtime[t] = vtime[u] /\ t <= u)

\* _next_tenant: the smallest virtual time, then the smallest name.
IsNext(t) == t \in Backlogged /\ \A u \in Backlogged : Before(t, u)

\* A slip: an admission costs nothing.
ChargedNothing(t) == vtime[t]

Charged(t) == vtime[t] + Cost[t]

Pop(t) ==
  /\ IsNext(t) /\ now < MaxNow
  /\ backlog' = [backlog EXCEPT ![t] = @ - 1]
  /\ vtime' = [vtime EXCEPT ![t] = Charged(t)]
  /\ now' = Charged(t)

\* An abort while the request was queued.
AbortWaiting(t) ==
  /\ backlog[t] > 0
  /\ backlog' = [backlog EXCEPT ![t] = @ - 1]
  /\ UNCHANGED <<vtime, now>>

Clear ==
  /\ backlog' = [t \in Tenant |-> 0]
  /\ vtime' = [t \in Tenant |-> 0]
  /\ now' = 0

QueueNext ==
  \/ \E t \in Tenant : Push(t) \/ Pop(t) \/ AbortWaiting(t)
  \/ Clear

QueueSpec == QueueInit /\ [][QueueNext]_queueVars

----------------------------------------------------------------------------
(* Properties                                                              *)

\* The fair share is a share of the current epoch: no two tenants that wait are
\* further apart than one admission of the lightest tenant, however long either
\* has been idle and however often requests were aborted.
LagBounded == \A t, u \in Backlogged : vtime[t] <= vtime[u] + MaxCost

\* What makes that inductive: no tenant, waiting or not, is ahead of the clock or
\* of a waiting tenant by more, and neither is the clock.
LagInv ==
  /\ \A t \in Tenant : vtime[t] <= now + MaxCost
  /\ \A u \in Backlogged : /\ now <= vtime[u] + MaxCost
                           /\ \A t \in Tenant : vtime[t] <= vtime[u] + MaxCost
=============================================================================
