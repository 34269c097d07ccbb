----------------------------- MODULE TenantWait -----------------------------
(***************************************************************************)
(* TenantQueue with a history: for every tenant that waits, how often each *)
(* of the others was admitted since it joined the queue or was last served.*)
(***************************************************************************)
EXTENDS TenantQueue

VARIABLE waited  \* history: the admissions of the second tenant while the first waited

waitVars == <<queueVars, waited>>

NoAdmissions == [u \in Tenant |-> 0]

WaitInit == QueueInit /\ waited = [t \in Tenant |-> NoAdmissions]

\* The count of a tenant starts again when it is served, or has nothing left to wait for.
WaitNext ==
  \/ \E t \in Tenant : Push(t) /\ UNCHANGED waited
  \/ \E t \in Tenant : /\ AbortWaiting(t)
                       /\ waited' = IF backlog'[t] = 0 THEN [waited EXCEPT ![t] = NoAdmissions] ELSE waited
  \/ \E t \in Tenant : /\ Pop(t)
                       /\ waited' = [u \in Tenant |-> IF u = t \/ backlog[u] = 0 THEN NoAdmissions
                                                      ELSE [waited[u] EXCEPT ![t] = @ + 1]]
  \/ Clear /\ waited' = [t \in Tenant |-> NoAdmissions]

WaitSpec == WaitInit /\ [][WaitNext]_waitVars

\* No tenant starves: while one waits, each of the others is admitted as often as
\* its share of the largest lag allows, and once more.
WaitBounded ==
  \A t \in Backlogged : \A u \in Tenant \ {t} : waited[t][u] <= MaxCost \div Cost[u] + 1
=============================================================================
