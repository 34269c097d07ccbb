--------------------------- MODULE GatewayProofs ---------------------------
(***************************************************************************)
(* For any replicas, tenants, limits and requests: a client gets one       *)
(* completion from one replica, the statuses it is sent and the verdicts   *)
(* the canary controller hears are true, a replica that failed is left     *)
(* alone for the TTL of the verdict, the concurrency count is the number   *)
(* of requests under way, and quotas hold.                                 *)
(*                                                                         *)
(* What makes them inductive is what each stage of a request knows of its  *)
(* own past (Shape, Sending, Verdicts, Answered), and, for the replicas,   *)
(* that nobody but the tasks in `early` can be probing one that failed     *)
(* within the last TTL (Ejected).  The quota follows from what a bucket    *)
(* still holds and what was taken from it (Budget).  BilledOnce sums with  *)
(* folds over sets and stays with TLC.                                     *)
(***************************************************************************)
EXTENDS Gateway, FiniteSetTheorems, WellFoundedInduction, TLAPS

How == {"ok", "failed", "left"}
ChunkType == [kind : Kinds, replica : 0 .. NumReplicas]
RecordType == [tokens : Nat, status : {"ok", "error"}]

Types ==
  /\ TypeOK
  /\ failedAt \in [Replica -> Int] /\ early \in [Replica -> SUBSET Task]
  /\ records \in [Request -> Seq(RecordType)]
  /\ ended \in [Request -> Seq(How)] /\ sent \in [Request -> Seq(ChunkType)]

\* A route at each of its places.
Shape(r) ==
  LET x == route[r]
  IN  /\ x.at = "new" => x.tried = {} /\ ~x.started
      /\ x.at = "probing" => ~x.started /\ x.attempt < MaxAttempts /\ x.replica \in Replica
      /\ x.at = "attempt" => x.replica \in x.tried
      /\ x.at \in {"yielded", "closing"} => x.replica \in x.tried /\ x.started /\ r \in Streamed
      /\ x.attempt = Cardinality(x.tried)

\* What has been sent: deltas of one replica, and nothing after a terminating event.
Sending(r) ==
  LET x == route[r]
      s == sent[r]
  IN  /\ ~x.started \/ r \notin Streamed => s = << >>
      /\ \A i \in DOMAIN s : s[i].replica = x.replica
      /\ \A i \in DOMAIN s : i < Len(s) \/ x.at = "attempt" => s[i].kind = "delta"
      /\ x.at = "yielded" => s # << >> /\ event[r] = s[Len(s)].kind
      /\ x.at \in {"closing", "done"} /\ s # << >> /\ s[Len(s)].kind = "delta"
           => ended[r] # << >> /\ ended[r][Len(ended[r])] = "left"
      /\ x.at \in {"new", "probing", "attempt"} \/ (x.at = "yielded" /\ event[r] = "delta")
           => count[r] <= MaxTokens

\* What the canary controller has heard, and may still have to hear.
TrueSoFar(r) == \A i \in 1 .. Len(told[r]) : told[r][i] <=> ended[r][i] = "ok"

Verdicts(r) ==
  LET x == route[r]
      n == Len(told[r])
      m == Len(ended[r])
  IN  /\ n <= m
      /\ TrueSoFar(r)
      /\ x.at \in {"new", "probing", "attempt"} => n = m
      /\ x.at = "yielded" /\ event[r] = "delta" => n = m
      /\ x.at = "yielded" /\ event[r] = "final" => m = n + 1 /\ ended[r][m] = "ok"
      /\ m <= n + 1 /\ (r \notin Streamed => m = n)

\* The status, the records and what they may be at each place.
Answered(r) ==
  LET x == route[r]
  IN  /\ answer[r] = 0 <=> x.at # "done" /\ ~(r \in Streamed /\ x.started)
      /\ r \in Streamed /\ x.started => answer[r] = 200
      /\ answer[r] = 200 /\ r \notin Streamed => ended[r] # << >> /\ ended[r][Len(ended[r])] = "ok"
      /\ answer[r] \notin {0, 200, 502} => ~x.started
      /\ answer[r] \in {400, 502} => told[r] # << >> /\ ~told[r][Len(told[r])]
      /\ x.at = "done" /\ x.tried = {} => answer[r] \in {401, 403, 404, 429, 503}
      /\ Len(records[r]) = IF x.started /\ x.at \in {"closing", "done"} THEN 1 ELSE 0

RequestInv(r) == Shape(r) /\ Sending(r) /\ Verdicts(r) /\ Answered(r)

\* The /readyz handler routes nothing.
ReadyInv ==
  /\ route[Ready].at \in {"new", "probing"}
  /\ route[Ready].at = "probing" => route[Ready].replica \in Replica

\* A probe has the stamp of its refresh.  While a failure is younger than the TTL the
\* replica is condemned, with the stamp of the failure, and only probes that were under
\* way when it failed can still answer.
Ejected ==
  /\ \A k \in Task : route[k].at = "probing" => route[k].stamp <= now
  /\ \A b \in Replica : now - failedAt[b] < HealthTTL =>
       /\ ~healthy[b] /\ checkedAt[b] = failedAt[b]
       /\ \A k \in Task : route[k].at = "probing" /\ route[k].replica = b => k \in early[b]

\* A bucket holds what was neither taken from it nor never put in, so prompts, which are
\* only taken from a level that covers them, stay within the burst and the refills.
Budget(t) ==
  Tpm[t] # NoLimit =>
    /\ charged[t] + tpm[t].level <= Tpm[t] + Rate * tpm[t].updated
    /\ charged[t] - spent[t] <= Tpm[t] + Rate * now

Quotas == \A t \in Tenant : tpm[t].updated <= now /\ rpm[t].updated <= now /\ Budget(t)

GInv ==
  /\ Types
  /\ \A r \in Request : RequestInv(r)
  /\ ReadyInv /\ Ejected /\ Quotas /\ SlotsBalance

----------------------------------------------------------------------------
(* Lemmas on sets and sequences                                            *)

LEMMA SmallestOf ==
  ASSUME NEW T \in SUBSET Nat, T # {}
  PROVE  Min(T) \in T
<1> DEFINE R == OpToRel(<, Nat)
<1>1. IsWellFoundedOn(R, Nat)
  BY NatLessThanWellFounded
<1>2. \A y, x \in Nat : y < x => <<y, x>> \in R
  BY DEF OpToRel
<1> HIDE DEF R
<1>3. PICK x \in T : \A y \in T : ~(<<y, x>> \in R)
  BY <1>1, WFMin
<1>4. \A y \in T : ~(y < x)
  BY <1>2, <1>3
<1>5. \A y \in T : x <= y
  BY <1>4
<1> QED BY <1>3, <1>5 DEF Min

LEMMA AppendFacts ==
  ASSUME NEW S, NEW s \in Seq(S), NEW x \in S
  PROVE  /\ Append(s, x) \in Seq(S) /\ Len(Append(s, x)) = Len(s) + 1 /\ Len(s) \in Nat
         /\ DOMAIN s = 1 .. Len(s) /\ DOMAIN Append(s, x) = 1 .. Len(s) + 1
         /\ Append(s, x)[Len(s) + 1] = x /\ Append(s, x) # << >>
         /\ \A i \in 1 .. Len(s) : Append(s, x)[i] = s[i]
OBVIOUS

LEMMA ReplicasFinite ==
  ASSUME NEW S \in SUBSET Replica
  PROVE  IsFiniteSet(S) /\ Cardinality(S) \in Nat
<1>1. IsFiniteSet(Replica)
  BY FS_Interval, RouterSizes DEF Replica
<1> QED BY <1>1, FS_Subset, FS_CardinalityType

\* The limits of the tenant of a request.
LEMMA TenantFacts ==
  ASSUME Types, NEW r \in Request
  PROVE  /\ owner[r] \in Tenant
         /\ inFlight \in [Tenant -> Nat]
         /\ Rpm \in [Tenant -> Nat] /\ Tpm \in [Tenant -> Nat] /\ MaxConcurrency \in [Tenant -> Nat]
<1>1. owner \in [Request -> Tenant]
  BY GatewayRequests DEF Types, TypeOK
<1>2. inFlight \in [Tenant -> Nat]
  BY DEF Types, TypeOK
<1>3. Rpm \in [Tenant -> Nat] /\ Tpm \in [Tenant -> Nat] /\ MaxConcurrency \in [Tenant -> Nat]
  BY GatewayLimits
<1> QED BY <1>1, <1>2, <1>3

----------------------------------------------------------------------------
(* Selection                                                               *)

\* What select() leaves a request with: a probe of a replica that is stale by the time
\* of the refresh, or an attempt on a healthy replica that was not tried.
LEMMA SelectsFacts ==
  ASSUME NEW x \in RouteType, ~x.started, x.attempt < MaxAttempts, x.attempt = Cardinality(x.tried),
         NEW stamp \in 0 .. MaxTime, NEW from \in Nat,
         NEW H \in [Replica -> BOOLEAN], NEW C \in [Replica -> Int],
         NEW y \in Selects(x, stamp, from, H, C)
  PROVE  /\ y \in RouteType /\ ~y.started /\ y.replica \in Replica /\ y.attempt = Cardinality(y.tried)
         /\ \/ /\ y.at = "probing" /\ y.tried = x.tried /\ y.attempt < MaxAttempts /\ y.stamp = stamp
               /\ stamp - C[y.replica] >= HealthTTL
            \/ /\ y.at = "attempt" /\ y.tried = x.tried \cup {y.replica} /\ y.replica \notin x.tried
               /\ H[y.replica]
<1> DEFINE stale == Stale(stamp, from, C)
<1>1. stale \in SUBSET Replica /\ stale \in SUBSET Nat
  BY DEF Stale, Replica
<1>2. CASE stale # {}
  <2>1. y = [x EXCEPT !.at = "probing", !.stamp = stamp, !.replica = Min(stale)]
    BY <1>2 DEF Selects
  <2>2. Min(stale) \in stale
    BY <1>1, <1>2, SmallestOf
  <2>3. Min(stale) \in Replica /\ stamp - C[Min(stale)] >= HealthTTL
    BY <2>2, RouterSizes DEF Stale, Fresh
  <2> HIDE DEF stale
  <2>4. y \in RouteType
    <3>1. Min(stale) \in 0 .. NumReplicas
      BY <2>3, RouterSizes DEF Replica
    <3> QED BY <2>1, <3>1 DEF RouteType
  <2> QED BY <2>1, <2>3, <2>4 DEF RouteType
<1>3. CASE stale = {}
  <2>1. PICK b \in Drawn(x.tried, H) :
          y = [x EXCEPT !.at = "attempt", !.stamp = 0, !.replica = b, !.attempt = @ + 1,
                        !.tried = @ \cup {b}]
    BY <1>3 DEF Selects
  <2>2. b \in Replica /\ b \notin x.tried /\ H[b]
    BY DEF Drawn, Candidates
  <2>3. x.tried \in SUBSET Replica /\ x.attempt \in Nat
    BY DEF RouteType
  <2>4. Cardinality(x.tried \cup {b}) = Cardinality(x.tried) + 1
    BY <2>2, <2>3, ReplicasFinite, FS_AddElement
  <2>5. y.attempt = x.attempt + 1 /\ y.tried = x.tried \cup {b} /\ y.replica = b /\ y.at = "attempt" /\ ~y.started
    BY <2>1 DEF RouteType
  <2>6. y \in RouteType
    <3>1. b \in 0 .. NumReplicas /\ x.tried \cup {b} \in SUBSET Replica /\ 0 \in 0 .. MaxTime
      BY <2>2, <2>3, RouterSizes DEF Replica
    <3>2. x.attempt + 1 \in 0 .. MaxAttempts
      BY <2>3, RouterSizes
    <3> QED BY <2>1, <3>1, <3>2 DEF RouteType
  <2> QED BY <2>2, <2>3, <2>4, <2>5, <2>6
<1> QED BY <1>2, <1>3

----------------------------------------------------------------------------
(* Frames                                                                  *)

\* What a step leaves alone of another request.
Kept(q) ==
  /\ route'[q] = route[q] /\ count'[q] = count[q] /\ event'[q] = event[q]
  /\ records'[q] = records[q] /\ told'[q] = told[q] /\ answer'[q] = answer[q]
  /\ ended'[q] = ended[q] /\ sent'[q] = sent[q]

LEMMA KeptInv ==
  ASSUME NEW q \in Request, RequestInv(q), Kept(q)
  PROVE  RequestInv(q)'
<1>1. Shape(q)'
  BY DEF Kept, RequestInv, Shape
<1>2. Sending(q)'
  BY DEF Kept, RequestInv, Sending
<1>3. Verdicts(q)'
  BY DEF Kept, RequestInv, Verdicts, TrueSoFar
<1>4. Answered(q)'
  BY DEF Kept, RequestInv, Answered
<1> QED BY <1>1, <1>2, <1>3, <1>4 DEF RequestInv

\* Choosing a replica: it is healthy as the step leaves the pool.
ChosenHealthy ==
  \A q \in Request : route[q].tried # route'[q].tried =>
    route'[q].replica \in Replica /\ healthy'[route'[q].replica] /\ now' = now

StepInv == GInv' /\ ChosenHealthy

\* A task moves; each replica is as it was, is trusted again, or has just failed.
LEMMA EjectedStep ==
  ASSUME Types, Types', Ejected, now' = now, NEW r \in Task,
         \A k \in Task \ {r} : route'[k] = route[k],
         route'[r].at = "probing" =>
           route'[r].stamp <= now /\ route'[r].stamp - checkedAt'[route'[r].replica] >= HealthTTL,
         \A b \in Replica :
           \/ /\ healthy'[b] = healthy[b] /\ checkedAt'[b] = checkedAt[b]
              /\ failedAt'[b] = failedAt[b] /\ early'[b] = early[b]
           \/ now - failedAt'[b] >= HealthTTL
           \/ /\ ~healthy'[b] /\ checkedAt'[b] = now /\ failedAt'[b] = now
              /\ early'[b] = {k \in Task : route[k].at = "probing" /\ route[k].replica = b}
  PROVE  Ejected'
<1>1. now \in Int /\ HealthTTL \in Int /\ HealthTTL > 0
  BY RouterSizes DEF Types, TypeOK
<1>2. \A b \in Replica : failedAt[b] \in Int /\ failedAt'[b] \in Int /\ checkedAt'[b] \in Int
  BY RouterSizes DEF Types, TypeOK, Never
<1>3. \A k \in Task : route'[k].stamp \in Int
  BY DEF Types, TypeOK, RouteType
<1>4. \A k \in Task : route'[k].at = "probing" => route'[k].stamp <= now'
  BY DEF Ejected
<1>5. ASSUME NEW b \in Replica, now' - failedAt'[b] < HealthTTL
      PROVE  /\ ~healthy'[b] /\ checkedAt'[b] = failedAt'[b]
             /\ \A k \in Task : route'[k].at = "probing" /\ route'[k].replica = b => k \in early'[b]
  <2>1. ~(now - failedAt'[b] >= HealthTTL)
    BY <1>1, <1>2, <1>5
  <2>2. CASE /\ healthy'[b] = healthy[b] /\ checkedAt'[b] = checkedAt[b]
             /\ failedAt'[b] = failedAt[b] /\ early'[b] = early[b]
    <3>1. /\ ~healthy[b] /\ checkedAt[b] = failedAt[b]
          /\ \A k \in Task : route[k].at = "probing" /\ route[k].replica = b => k \in early[b]
      BY <2>2, <1>5 DEF Ejected
    <3>2. ~(route'[r].at = "probing" /\ route'[r].replica = b)
      BY <1>1, <1>2, <1>3, <2>1, <2>2, <3>1
    <3> QED BY <2>2, <3>1, <3>2
  <2>3. CASE /\ ~healthy'[b] /\ checkedAt'[b] = now /\ failedAt'[b] = now
             /\ early'[b] = {k \in Task : route[k].at = "probing" /\ route[k].replica = b}
    <3>1. ~(route'[r].at = "probing" /\ route'[r].replica = b)
      BY <1>1, <1>3, <2>3
    <3> QED BY <2>3, <3>1
  <2> QED BY <2>1, <2>2, <2>3
<1> QED BY <1>4, <1>5 DEF Ejected

----------------------------------------------------------------------------
(* The concurrency count                                                   *)

UnderWay(t) == {q \in Of(t) : route[q].at \in Running}

LEMMA UnderWayFinite ==
  ASSUME NEW t
  PROVE  IsFiniteSet(UnderWay(t)) /\ Cardinality(UnderWay(t)) \in Nat
<1>1. UnderWay(t) \in SUBSET Request
  BY DEF UnderWay, Of
<1> QED BY <1>1, GatewayRequests, FS_Subset, FS_CardinalityType

LEMMA SlotKept ==
  ASSUME Types, SlotsBalance, owner' = owner, inFlight' = inFlight,
         \A q \in Request : route'[q].at \in Running <=> route[q].at \in Running
  PROVE  SlotsBalance' /\ inFlight' \in [Tenant -> Nat]
<1>1. \A t \in Tenant : UnderWay(t)' = UnderWay(t)
  BY DEF UnderWay, Of
<1> QED BY <1>1 DEF SlotsBalance, Types, TypeOK, UnderWay

LEMMA SlotEntered ==
  ASSUME Types, SlotsBalance, owner' = owner, NEW r \in Request,
         inFlight' = [inFlight EXCEPT ![owner[r]] = @ + 1], SlotFree(owner[r]),
         route[r].at \notin Running, route'[r].at \in Running,
         \A q \in Request \ {r} : route'[q].at = route[q].at
  PROVE  SlotsBalance' /\ inFlight' \in [Tenant -> Nat]
<1>1. owner[r] \in Tenant /\ inFlight \in [Tenant -> Nat] /\ MaxConcurrency \in [Tenant -> Nat]
  BY TenantFacts
<1>2. \A t \in Tenant : t # owner[r] => UnderWay(t)' = UnderWay(t)
  BY DEF UnderWay, Of
<1>3. UnderWay(owner[r])' = UnderWay(owner[r]) \cup {r} /\ r \notin UnderWay(owner[r])
  BY DEF UnderWay, Of
<1>4. Cardinality(UnderWay(owner[r])') = Cardinality(UnderWay(owner[r])) + 1
  BY <1>3, UnderWayFinite, FS_AddElement
<1>5. \A t \in Tenant : inFlight[t] = Cardinality(UnderWay(t))
  BY DEF SlotsBalance, UnderWay
<1>6. \A t \in Tenant : inFlight'[t] = Cardinality(UnderWay(t)')
  BY <1>1, <1>2, <1>4, <1>5
<1>7. \A t \in Tenant : MaxConcurrency[t] # NoLimit => inFlight'[t] <= MaxConcurrency[t]
  <2>1. MaxConcurrency[owner[r]] # NoLimit => inFlight[owner[r]] < MaxConcurrency[owner[r]]
    BY DEF SlotFree
  <2>2. \A t \in Tenant : MaxConcurrency[t] # NoLimit => inFlight[t] <= MaxConcurrency[t]
    BY DEF SlotsBalance
  <2> QED BY <1>1, <2>1, <2>2
<1> QED BY <1>1, <1>6, <1>7 DEF SlotsBalance, UnderWay

LEMMA SlotLeft ==
  ASSUME Types, SlotsBalance, owner' = owner, NEW r \in Request,
         inFlight' = [inFlight EXCEPT ![owner[r]] = @ - 1],
         route[r].at \in Running, route'[r].at \notin Running,
         \A q \in Request \ {r} : route'[q].at = route[q].at
  PROVE  SlotsBalance' /\ inFlight' \in [Tenant -> Nat]
<1>1. owner[r] \in Tenant /\ inFlight \in [Tenant -> Nat] /\ MaxConcurrency \in [Tenant -> Nat]
  BY TenantFacts
<1>2. \A t \in Tenant : t # owner[r] => UnderWay(t)' = UnderWay(t)
  BY DEF UnderWay, Of
<1>3. UnderWay(owner[r])' = UnderWay(owner[r]) \ {r} /\ r \in UnderWay(owner[r])
  BY DEF UnderWay, Of
<1>4. /\ Cardinality(UnderWay(owner[r])') = Cardinality(UnderWay(owner[r])) - 1
      /\ Cardinality(UnderWay(owner[r])') \in Nat
  BY <1>3, UnderWayFinite, FS_RemoveElement, FS_CardinalityType
<1>5. \A t \in Tenant : inFlight[t] = Cardinality(UnderWay(t))
  BY DEF SlotsBalance, UnderWay
<1>6. \A t \in Tenant : inFlight'[t] = Cardinality(UnderWay(t)')
  BY <1>1, <1>2, <1>4, <1>5
<1>7. inFlight' \in [Tenant -> Nat]
  BY <1>1, <1>4, <1>5
<1>8. \A t \in Tenant : MaxConcurrency[t] # NoLimit => inFlight'[t] <= MaxConcurrency[t]
  <2>1. \A t \in Tenant : MaxConcurrency[t] # NoLimit => inFlight[t] <= MaxConcurrency[t]
    BY DEF SlotsBalance
  <2> QED BY <1>1, <2>1
<1> QED BY <1>6, <1>7, <1>8 DEF SlotsBalance, UnderWay

----------------------------------------------------------------------------
(* The buckets                                                             *)

LEMMA ChargedBucket ==
  ASSUME NEW bk \in Bucket, NEW at \in 0 .. MaxTime, bk.updated <= at,
         NEW capacity \in Nat, NEW rate \in Nat, NEW amount \in Nat
  PROVE  /\ Charged(bk, capacity, rate, at, amount) \in Bucket
         /\ Charged(bk, capacity, rate, at, amount).updated <= at
<1>1. bk.level \in Int /\ bk.updated \in 0 .. MaxTime /\ MaxTime \in Nat
  BY RouterSizes DEF Bucket
<1>2. (at - bk.updated) * rate \in Int
  BY <1>1
<1> DEFINE filled == Refilled(bk, capacity, rate, at)
<1>3. filled \in Bucket /\ filled.updated <= at
  BY <1>1, <1>2 DEF Refilled, Least, Bucket
<1>4. Charged(bk, capacity, rate, at, amount) = [filled EXCEPT !.level = @ - amount]
  BY DEF Charged
<1> HIDE DEF filled
<1> QED BY <1>3, <1>4 DEF Bucket

LEMMA CheckedBucket ==
  ASSUME NEW bk \in Bucket, NEW at \in 0 .. MaxTime, bk.updated <= at,
         NEW capacity \in Nat, NEW rate \in Nat, NEW amount \in Nat, NEW ok
  PROVE  /\ AfterCheck(bk, capacity, rate, at, amount, ok) \in Bucket
         /\ AfterCheck(bk, capacity, rate, at, amount, ok).updated <= at
BY ChargedBucket DEF AfterCheck

LEMMA RateFacts ==
  /\ Rate \in Nat /\ Rate > 0
  /\ \A i, j \in Int : Rate * i \in Int /\ (i <= j => Rate * i <= Rate * j)
                       /\ Rate * (i + 1) = Rate * i + Rate
<1>1. Rate \in Nat /\ Rate > 0
  BY GatewayLimits
<1>2. \A i, j \in Int : i <= j => Rate * i <= Rate * j
  BY <1>1, Z3
<1> QED BY <1>1, <1>2, Z3

\* A refill adds no more than the rate, and a charge takes what it is for.
LEMMA BudgetCharged ==
  ASSUME NEW bk \in Bucket, NEW at \in 0 .. MaxTime, bk.updated <= at,
         NEW capacity \in Nat, NEW amount \in Nat, NEW c \in Nat,
         c + bk.level <= capacity + Rate * bk.updated
  PROVE  LET b == Charged(bk, capacity, Rate, at, amount)
         IN  /\ c + amount + b.level <= capacity + Rate * b.updated
             /\ Level(bk, capacity, Rate, at) >= amount => b.level >= 0
<1> DEFINE b == Charged(bk, capacity, Rate, at, amount)
           L == bk.level
           u == bk.updated
           f == Refilled(bk, capacity, Rate, at)
<1>1. L \in Int /\ u \in Int /\ at \in Int /\ Rate \in Int
  BY RouterSizes, RateFacts DEF Bucket
<1>2. f.level \in Int /\ f.updated \in Int /\ c + f.level <= capacity + Rate * f.updated
  <2>1. CASE at > u
    <3>1. f = [level |-> Least(capacity, L + (at - u) * Rate), updated |-> at]
      BY <2>1 DEF Refilled
    <3>2. (at - u) * Rate \in Int /\ (at - u) * Rate = Rate * at - Rate * u
          /\ Rate * at \in Int /\ Rate * u \in Int
      BY <1>1, Z3
    <3>3. f.level \in Int /\ f.level <= L + (at - u) * Rate /\ f.updated = at
      BY <1>1, <3>1, <3>2 DEF Least
    <3> HIDE DEF f, L, u
    <3>4. c + L <= capacity + Rate * u
      BY DEF L, u
    <3> QED BY <1>1, <3>2, <3>3, <3>4
  <2>2. CASE ~(at > u)
    BY <1>1, <2>2 DEF Refilled
  <2> QED BY <2>1, <2>2
<1>3. f \in [level : Int, updated : Int]
  BY <1>1, RouterSizes DEF Refilled, Least, Bucket
<1>4. b = [f EXCEPT !.level = @ - amount] /\ Level(bk, capacity, Rate, at) = f.level
  BY DEF Charged, Level
<1> HIDE DEF f, b
<1>5. b.level = f.level - amount /\ b.updated = f.updated
  BY <1>3, <1>4
<1>6. Rate * f.updated \in Int
  BY <1>1, <1>2, RateFacts
<1>7. c + amount + b.level <= capacity + Rate * b.updated /\ (f.level >= amount => b.level >= 0)
  BY <1>2, <1>5, <1>6
<1> QED BY <1>4, <1>7 DEF b

\* retry_after: the deficit over the rate, rounded up.
LEMMA RetryWait ==
  ASSUME NEW bk \in Bucket, NEW at \in Nat, bk.updated <= at,
         NEW capacity \in Nat, NEW amount \in 1 .. capacity
  PROVE  LET wait == RetryAfter(bk, capacity, Rate, at, amount)
             LevelIn(k) == Level(bk, capacity, Rate, at + k)
         IN  LevelIn(wait) >= amount /\ (wait > 0 => LevelIn(wait - 1) < amount)
<1> DEFINE wait == RetryAfter(bk, capacity, Rate, at, amount)
           L == bk.level
           u == bk.updated
           base == L + (at - u) * Rate
           cur == Level(bk, capacity, Rate, at)
           deficit == amount - cur
<1>1. L \in Int /\ u \in Int /\ at \in Int /\ Rate \in Nat /\ Rate > 0 /\ u <= at
  BY RouterSizes, RateFacts DEF Bucket
<1>2. base \in Int /\ (at - u) * Rate \in Int
  BY <1>1
<1>3. \A k \in Nat : k > 0 => Level(bk, capacity, Rate, at + k) = Least(capacity, L + ((at + k) - u) * Rate)
  BY <1>1 DEF Level, Refilled
<1>4. cur = IF at > u THEN Least(capacity, base) ELSE L
  BY DEF Level, Refilled
<1>5. at = u => (at - u) * Rate = 0
  BY <1>1, Z3
<1>6. \A k \in Int : ((at + k) - u) * Rate = (at - u) * Rate + k * Rate /\ k * Rate \in Int
  BY <1>1, Z3
<1> HIDE DEF cur
<1>7. cur \in Int /\ (cur < amount => cur = base)
  BY <1>1, <1>2, <1>4, <1>5 DEF Least
<1>8. \A k \in Nat : k > 0 => Level(bk, capacity, Rate, at + k) = Least(capacity, base + k * Rate)
  <2> HIDE DEF L, u
  <2> SUFFICES ASSUME NEW k \in Nat, k > 0
               PROVE  Level(bk, capacity, Rate, at + k) = Least(capacity, base + k * Rate)
    OBVIOUS
  <2>1. L + ((at + k) - u) * Rate = base + k * Rate
    BY <1>1, <1>2, <1>6
  <2> QED BY <1>3, <2>1
<1>9. wait = IF deficit <= 0 THEN 0 ELSE (deficit + Rate - 1) \div Rate
  BY DEF RetryAfter, cur
<1> HIDE DEF wait, base
<1>10. CASE deficit <= 0
  <2>1. wait = 0 /\ cur >= amount
    BY <1>7, <1>9, <1>10
  <2>2. Level(bk, capacity, Rate, at + 0) = cur
    BY <1>1 DEF cur
  <2> QED BY <2>1, <2>2 DEF wait
<1>11. CASE deficit > 0
  <2>1. deficit \in Nat /\ deficit > 0 /\ cur = base /\ base + deficit = amount
    BY <1>2, <1>7, <1>11
  <2>2. wait \in Nat /\ wait >= 1 /\ wait * Rate \in Int /\ wait * Rate >= deficit /\ (wait - 1) * Rate < deficit
        /\ (wait - 1) * Rate \in Int
    <3> HIDE DEF deficit
    <3>1. wait = (deficit + Rate - 1) \div Rate /\ deficit > 0 /\ deficit \in Nat
      BY <1>7, <1>9, <1>11, <2>1
    <3> QED BY <1>1, <3>1, Z3
  <2> HIDE DEF deficit
  <2>3. Level(bk, capacity, Rate, at + wait) >= amount
    <3>1. Level(bk, capacity, Rate, at + wait) = Least(capacity, base + wait * Rate)
      BY <1>8, <2>2
    <3> QED BY <1>2, <2>1, <2>2, <3>1 DEF Least
  <2>4. Level(bk, capacity, Rate, at + (wait - 1)) < amount
    <3>1. CASE wait = 1
      <4>1. Level(bk, capacity, Rate, at + 0) = cur /\ wait - 1 = 0
        BY <1>1, <3>1 DEF cur
      <4> QED BY <1>2, <2>1, <4>1
    <3>2. CASE wait > 1
      <4>1. wait - 1 \in Nat /\ wait - 1 > 0
        BY <2>2, <3>2
      <4>2. Level(bk, capacity, Rate, at + (wait - 1)) = Least(capacity, base + (wait - 1) * Rate)
        BY <1>8, <4>1
      <4> QED BY <1>2, <2>1, <2>2, <4>2 DEF Least
    <3> QED BY <2>2, <3>1, <3>2
  <2> QED BY <2>3, <2>4 DEF wait
<1> QED BY <1>7, <1>10, <1>11

----------------------------------------------------------------------------
(* The row of a request                                                    *)

LEMMA RowTypes ==
  ASSUME Types, NEW r \in Request
  PROVE  /\ route[r] \in RouteType /\ count[r] \in 0 .. MaxTokens + 1 /\ told[r] \in Seq(BOOLEAN)
         /\ ended[r] \in Seq(How) /\ sent[r] \in Seq(ChunkType) /\ records[r] \in Seq(RecordType)
         /\ Len(told[r]) \in Nat /\ Len(ended[r]) \in Nat /\ Len(sent[r]) \in Nat
         /\ Len(records[r]) \in Nat
<1>1. /\ route[r] \in RouteType /\ count[r] \in 0 .. MaxTokens + 1 /\ told[r] \in Seq(BOOLEAN)
      /\ ended[r] \in Seq(How) /\ sent[r] \in Seq(ChunkType) /\ records[r] \in Seq(RecordType)
  BY DEF Types, TypeOK, Task
<1> QED BY <1>1

\* The controller has heard of every attempt that has ended.
Heard(r) == Len(told[r]) = Len(ended[r]) /\ TrueSoFar(r)

\* A request that has had no event and gets a status instead.
LEMMA RefusedRow ==
  ASSUME Types, Types', NEW r \in Request, RequestInv(r), ~route[r].started,
         route'[r] = [route[r] EXCEPT !.at = "done"],
         sent'[r] = sent[r], records'[r] = records[r], Heard(r)',
         answer'[r] \in {400, 401, 403, 404, 429, 502, 503},
         answer'[r] \in {400, 502} => told'[r] # << >> /\ ~told'[r][Len(told'[r])],
         route[r].tried = {} => answer'[r] \in {401, 403, 404, 429, 503}
  PROVE  RequestInv(r)'
<1>1. /\ route'[r].at = "done" /\ route'[r].tried = route[r].tried /\ ~route'[r].started
      /\ route'[r].attempt = route[r].attempt /\ route'[r].replica = route[r].replica
  BY RowTypes DEF RouteType
<1>2. sent[r] = << >> /\ Len(records[r]) = 0
  BY DEF RequestInv, Sending, Answered
<1>3. Shape(r)'
  BY <1>1 DEF Shape, RequestInv
<1>4. Sending(r)'
  BY <1>1, <1>2 DEF Sending
<1>5. Len(told'[r]) \in Nat /\ Len(ended'[r]) \in Nat
  BY DEF Types, TypeOK
<1>6. Verdicts(r)'
  <2>1. Len(told'[r]) = Len(ended'[r]) /\ TrueSoFar(r)'
    BY DEF Heard
  <2>2. Len(ended'[r]) <= Len(told'[r]) + 1
    BY <1>5, <2>1
  <2>3. Len(told'[r]) <= Len(ended'[r])
    BY <1>5, <2>1
  <2> QED BY <1>1, <2>1, <2>2, <2>3 DEF Verdicts
<1>7. Answered(r)'
  BY <1>1, <1>2 DEF Answered
<1> QED BY <1>3, <1>4, <1>6, <1>7 DEF RequestInv

\* What a selection leaves a request with.
Chosen(y) ==
  /\ ~y.started /\ y.replica \in Replica /\ y.attempt = Cardinality(y.tried)
  /\ \/ y.at = "probing" /\ y.attempt < MaxAttempts
     \/ y.at = "attempt" /\ y.replica \in y.tried

\* A request that has had no event and goes to a probe or to an attempt.
LEMMA ChosenRow ==
  ASSUME Types, Types', NEW r \in Request, RequestInv(r), ~route[r].started,
         route[r].at \in {"new", "probing", "attempt"}, Chosen(route'[r]),
         sent'[r] = sent[r], records'[r] = records[r], answer'[r] = answer[r],
         count'[r] = count[r], Heard(r)'
  PROVE  RequestInv(r)'
<1>1. /\ route'[r].at \in {"probing", "attempt"} /\ ~route'[r].started
      /\ route'[r].attempt = Cardinality(route'[r].tried)
      /\ route'[r].at = "probing" => route'[r].attempt < MaxAttempts /\ route'[r].replica \in Replica
      /\ route'[r].at = "attempt" => route'[r].replica \in route'[r].tried
  BY DEF Chosen
<1>2. sent[r] = << >> /\ Len(records[r]) = 0 /\ answer[r] = 0 /\ count[r] <= MaxTokens
  BY DEF RequestInv, Sending, Answered
<1>3. Shape(r)'
  BY <1>1 DEF Shape
<1>4. Sending(r)'
  BY <1>1, <1>2 DEF Sending
<1>5. Len(told'[r]) \in Nat /\ Len(ended'[r]) \in Nat
  BY DEF Types, TypeOK
<1>6. Verdicts(r)'
  <2>1. Len(told'[r]) = Len(ended'[r]) /\ TrueSoFar(r)'
    BY DEF Heard
  <2>2. Len(ended'[r]) <= Len(told'[r]) + 1
    BY <1>5, <2>1
  <2>3. Len(told'[r]) <= Len(ended'[r])
    BY <1>5, <2>1
  <2> QED BY <1>1, <2>1, <2>2, <2>3 DEF Verdicts
<1>7. Answered(r)'
  BY <1>1, <1>2 DEF Answered
<1> QED BY <1>3, <1>4, <1>6, <1>7 DEF RequestInv

\* One request moves.
LEMMA OneMoves ==
  ASSUME GInv, Types', NEW r \in Request, \A q \in Request \ {r} : Kept(q), RequestInv(r)',
         route'[Ready] = route[Ready], Ejected', Quotas', SlotsBalance'
  PROVE  GInv'
<1>1. \A q \in Request : RequestInv(q)'
  BY KeptInv DEF GInv
<1>2. ReadyInv'
  BY DEF GInv, ReadyInv
<1> QED BY <1>1, <1>2 DEF GInv

----------------------------------------------------------------------------
(* The actions                                                             *)

LEMMA InitInv == Init => GInv
<1> SUFFICES ASSUME Init PROVE GInv
  OBVIOUS
<1> USE DEF Init, PoolInit
<1>1. AtRest("new") \in RouteType
  BY RouterSizes DEF AtRest, RouteType
<1>2. route \in [Task -> RouteType] /\ Ready \in Task
  BY <1>1 DEF Task
<1>3. Rpm \in [Tenant -> Nat] /\ Tpm \in [Tenant -> Nat]
  BY GatewayLimits
<1>4. rpm \in [Tenant -> Bucket] /\ tpm \in [Tenant -> Bucket] /\ Quotas
  <2>1. /\ rpm \in [Tenant -> Bucket] /\ tpm \in [Tenant -> Bucket]
        /\ \A t \in Tenant : tpm[t].updated = 0 /\ rpm[t].updated = 0 /\ tpm[t].level = Tpm[t]
                             /\ charged[t] = 0 /\ spent[t] = 0 /\ Tpm[t] \in Nat
    BY <1>3, RouterSizes DEF NewBucket, Bucket
  <2>2. Rate * 0 = 0
    BY RateFacts, Z3
  <2>3. \A t \in Tenant : Budget(t)
    BY <2>1, <2>2 DEF Budget
  <2> QED BY <2>1, <2>3 DEF Quotas
<1>5. /\ << >> \in Seq(RecordType) /\ << >> \in Seq(BOOLEAN) /\ << >> \in Seq(How)
      /\ << >> \in Seq(ChunkType)
  OBVIOUS
<1>6. /\ records \in [Request -> Seq(RecordType)] /\ told \in [Request -> Seq(BOOLEAN)]
      /\ ended \in [Request -> Seq(How)] /\ sent \in [Request -> Seq(ChunkType)]
  BY <1>5
<1>7. TypeOK
  <2>1. now \in 0 .. MaxTime /\ count \in [Request -> 0 .. MaxTokens + 1]
    BY RouterSizes, GatewayLimits
  <2> QED BY <1>2, <1>4, <1>6, <2>1 DEF TypeOK
<1>8. Types
  BY <1>6, <1>7, RouterSizes DEF Types, Never
<1>9. \A r \in Request : RequestInv(r)
  <2>1. Cardinality({}) = 0
    BY FS_EmptySet
  <2>2. SUFFICES ASSUME NEW r \in Request PROVE RequestInv(r)
    OBVIOUS
  <2>3. route[r] = AtRest("new") /\ sent[r] = << >> /\ ended[r] = << >> /\ told[r] = << >>
        /\ records[r] = << >> /\ count[r] = 0 /\ answer[r] = 0 /\ Len(<< >>) = 0 /\ DOMAIN sent[r] = {}
    BY DEF Task
  <2>4. Shape(r)
    <3>1. route[r].at = "new" /\ route[r].attempt = 0
      BY <2>3 DEF AtRest
    <3>2. ~route[r].started
      BY <2>3 DEF AtRest
    <3>3. route[r].tried = {}
      <4>1. AtRest("new").tried = {}
        BY Zenon DEF AtRest
      <4> QED BY <2>3, <4>1
    <3> QED BY <2>1, <3>1, <3>2, <3>3 DEF Shape
  <2>5. Sending(r)
    BY <2>3, GatewayLimits DEF Sending, AtRest
  <2>6. Verdicts(r)
    BY <2>3 DEF Verdicts, TrueSoFar, AtRest
  <2>7. Answered(r)
    BY <2>3 DEF Answered, AtRest
  <2> QED BY <2>4, <2>5, <2>6, <2>7 DEF RequestInv
<1>10. ReadyInv
  BY <1>2 DEF ReadyInv, AtRest
<1>11. Ejected
  BY RouterSizes DEF Ejected, AtRest, Never
<1>12. SlotsBalance
  <2>1. \A t \in Tenant : {r \in Of(t) : route[r].at \in Running} = {}
    BY DEF AtRest, Running, Of, Task
  <2>2. MaxConcurrency \in [Tenant -> Nat]
    BY GatewayLimits
  <2>3. \A t \in Tenant : inFlight[t] = 0 /\ 0 <= MaxConcurrency[t]
    BY <2>2
  <2>4. Cardinality({}) = 0
    BY FS_EmptySet
  <2> QED BY <2>1, <2>3, <2>4 DEF SlotsBalance
<1> QED BY <1>4, <1>8, <1>9, <1>10, <1>11, <1>12 DEF GInv

LEMMA TaskFacts ==
  ASSUME NEW r \in Request
  PROVE  Ready \in Task /\ r \in Task /\ Ready # r /\ Ready \notin Request
BY GatewayRequests DEF Ready, Task

Refusals == {400, 401, 403, 404, 429, 502, 503}
Status == {0, 200, 400, 401, 403, 404, 429, 502, 503}

\* The request has its status, or one of the routes.
Gone(r, next, status) ==
  /\ route' \in [Task -> RouteType] /\ answer' \in [Request -> Status]
  /\ \A k \in Task \ {r} : route'[k] = route[k]
  /\ \A q \in Request \ {r} : answer'[q] = answer[q]
  /\ \/ next = {} /\ route'[r] = [route[r] EXCEPT !.at = "done"] /\ answer'[r] = status
     \/ next # {} /\ route'[r] \in next /\ answer'[r] = answer[r]

LEMMA GoesFacts ==
  ASSUME Types, NEW r \in Request, NEW next, next \subseteq RouteType, NEW status \in Refusals,
         Goes(r, next, status)
  PROVE  Gone(r, next, status)
<1>1. route \in [Task -> RouteType] /\ answer \in [Request -> Status] /\ r \in Task
  BY TaskFacts DEF Types, TypeOK, Status
<1>2. CASE next = {}
  <2>1. route' = [route EXCEPT ![r].at = "done"] /\ answer' = [answer EXCEPT ![r] = status]
    BY <1>2 DEF Goes
  <2>2. [route[r] EXCEPT !.at = "done"] \in RouteType
    BY <1>1 DEF RouteType
  <2> QED BY <1>1, <1>2, <2>1, <2>2 DEF Gone, Refusals, Status
<1>3. CASE next # {}
  <2>1. PICK y \in next : route' = [route EXCEPT ![r] = y] /\ UNCHANGED answer
    BY <1>3 DEF Goes
  <2> QED BY <1>1, <1>3, <2>1 DEF Gone
<1> QED BY <1>2, <1>3

\* Before an event, a request waits with what its attempts have been heard of.
LEMMA WaitingFacts ==
  ASSUME Types, NEW r \in Request, RequestInv(r), route[r].at \in {"new", "probing", "attempt"}
  PROVE  /\ Heard(r) /\ route[r].attempt = Cardinality(route[r].tried)
         /\ route[r].at \in {"new", "probing"} => ~route[r].started /\ route[r].attempt < MaxAttempts
<1>1. Heard(r)
  BY DEF RequestInv, Verdicts, Heard
<1>2. Cardinality({}) = 0 /\ 0 < MaxAttempts
  BY FS_EmptySet, RouterSizes
<1> QED BY <1>1, <1>2 DEF RequestInv, Shape

\* Every type but those of the routes, the answers and the slots.
RestTypes ==
  /\ owner \in Owners /\ now \in 0 .. MaxTime
  /\ healthy \in [Replica -> BOOLEAN] /\ checkedAt \in [Replica -> {Never} \cup 0 .. MaxTime]
  /\ failedAt \in [Replica -> Int] /\ early \in [Replica -> SUBSET Task]
  /\ rpm \in [Tenant -> Bucket] /\ tpm \in [Tenant -> Bucket]
  /\ charged \in [Tenant -> Nat] /\ spent \in [Tenant -> Nat]
  /\ count \in [Request -> 0 .. MaxTokens + 1]
  /\ event \in [Request -> {"none", "delta", "final", "failure"}]
  /\ records \in [Request -> Seq(RecordType)] /\ told \in [Request -> Seq(BOOLEAN)]
  /\ ended \in [Request -> Seq(How)] /\ sent \in [Request -> Seq(ChunkType)]

LEMMA TypesParts ==
  /\ Types <=> /\ RestTypes /\ route \in [Task -> RouteType]
               /\ answer \in [Request -> Status] /\ inFlight \in [Tenant -> Nat]
  /\ Types' <=> /\ RestTypes' /\ route' \in [Task -> RouteType]
                /\ answer' \in [Request -> Status] /\ inFlight' \in [Tenant -> Nat]
<1>1. Types <=> /\ RestTypes /\ route \in [Task -> RouteType]
                /\ answer \in [Request -> Status] /\ inFlight \in [Tenant -> Nat]
  BY DEF Types, TypeOK, RestTypes, Status
<1>2. Types' <=> /\ RestTypes' /\ route' \in [Task -> RouteType]
                 /\ answer' \in [Request -> Status] /\ inFlight' \in [Tenant -> Nat]
  BY DEF Types, TypeOK, RestTypes, Status
<1> QED BY <1>1, <1>2

\* What a step does to each replica.
PoolStep ==
  \A b \in Replica :
    \/ /\ healthy'[b] = healthy[b] /\ checkedAt'[b] = checkedAt[b]
       /\ failedAt'[b] = failedAt[b] /\ early'[b] = early[b]
    \/ now - failedAt'[b] >= HealthTTL
    \/ /\ ~healthy'[b] /\ checkedAt'[b] = now /\ failedAt'[b] = now
       /\ early'[b] = {k \in Task : route[k].at = "probing" /\ route[k].replica = b}

\* The slots, when a request that has had no event moves on to one of `next`, or ends.
SlotStep(r, next) ==
  IF route[r].at = "new"
    THEN IF next = {} THEN inFlight' = inFlight
         ELSE SlotFree(owner[r]) /\ inFlight' = [inFlight EXCEPT ![owner[r]] = @ + 1]
    ELSE IF next = {} THEN inFlight' = [inFlight EXCEPT ![owner[r]] = @ - 1]
         ELSE inFlight' = inFlight

\* A request that has had no event goes on to one of `next`, or gets its status.
GoesOn(r, stamp, from, next, status) ==
  /\ ~route[r].started /\ route[r].at \in {"new", "probing", "attempt"}
  /\ owner' = owner /\ now' = now /\ PoolStep /\ Quotas' /\ RestTypes'
  /\ stamp \in 0 .. MaxTime /\ stamp <= now /\ from \in Nat
  /\ next \subseteq Selects(route[r], stamp, from, healthy', checkedAt')
  /\ next # {} => route[r].attempt < MaxAttempts
  /\ status \in Refusals /\ Goes(r, next, status) /\ SlotStep(r, next)
  /\ UNCHANGED <<count, event, records, sent>>
  /\ \A q \in Request \ {r} : told'[q] = told[q] /\ ended'[q] = ended[q]
  /\ Heard(r)'
  /\ status \in {400, 502} => told'[r] # << >> /\ ~told'[r][Len(told'[r])]
  /\ route[r].tried = {} => status \in {401, 403, 404, 429, 503}

LEMMA GoesStep ==
  ASSUME GInv, NEW r \in Request, NEW stamp, NEW from, NEW next, NEW status,
         GoesOn(r, stamp, from, next, status)
  PROVE  StepInv
<1> USE DEF GoesOn
<1>1. Types /\ RequestInv(r) /\ Ejected /\ SlotsBalance /\ route[r] \in RouteType
  BY RowTypes DEF GInv
<1>2. r \in Task /\ Ready \in Task \ {r} /\ Request \ {r} \subseteq Task \ {r}
  BY TaskFacts DEF Task
<1>3. healthy' \in [Replica -> BOOLEAN] /\ checkedAt' \in [Replica -> Int]
  BY RouterSizes DEF RestTypes, Never
<1>4. route[r].attempt = Cardinality(route[r].tried)
  BY <1>1 DEF RequestInv, Shape
<1>5. ASSUME NEW y \in next
      PROVE  /\ y \in RouteType /\ Chosen(y)
             /\ y.at = "probing" => y.stamp <= now /\ y.stamp - checkedAt'[y.replica] >= HealthTTL
             /\ y.tried # route[r].tried => y.replica \in Replica /\ healthy'[y.replica]
             /\ y.at \in Running
  <2>1. y \in Selects(route[r], stamp, from, healthy', checkedAt') /\ route[r].attempt < MaxAttempts
    BY <1>5
  <2>2. /\ y \in RouteType /\ ~y.started /\ y.replica \in Replica /\ y.attempt = Cardinality(y.tried)
        /\ \/ /\ y.at = "probing" /\ y.tried = route[r].tried /\ y.attempt < MaxAttempts
              /\ y.stamp = stamp /\ stamp - checkedAt'[y.replica] >= HealthTTL
           \/ /\ y.at = "attempt" /\ y.tried = route[r].tried \cup {y.replica}
              /\ y.replica \notin route[r].tried /\ healthy'[y.replica]
    BY <1>1, <1>3, <1>4, <2>1, SelectsFacts
  <2> QED BY <2>2 DEF Chosen, Running
<1>6. next \subseteq RouteType
  BY <1>5
<1>7. /\ route' \in [Task -> RouteType] /\ answer' \in [Request -> Status]
      /\ \A k \in Task \ {r} : route'[k] = route[k]
      /\ \A q \in Request \ {r} : answer'[q] = answer[q]
      /\ \/ next = {} /\ route'[r] = [route[r] EXCEPT !.at = "done"] /\ answer'[r] = status
         \/ next # {} /\ route'[r] \in next /\ answer'[r] = answer[r]
  <2>1. Gone(r, next, status)
    BY <1>1, <1>6, GoesFacts
  <2> QED BY <2>1 DEF Gone
<1>8. \A q \in Request \ {r} : Kept(q)
  BY <1>2, <1>7 DEF Kept
<1>9. next = {} => route'[r].at = "done" /\ route'[r].tried = route[r].tried
  <2>1. LET y == [route[r] EXCEPT !.at = "done"] IN y.at = "done" /\ y.tried = route[r].tried
    BY <1>1 DEF RouteType
  <2> QED BY <1>7, <2>1
<1>10. SlotsBalance' /\ inFlight' \in [Tenant -> Nat]
  <2>1. \A q \in Request \ {r} : route'[q].at = route[q].at
    BY <1>2, <1>7
  <2>2. route'[r].at \in Running <=> next # {}
    BY <1>5, <1>7, <1>9 DEF Running
  <2>3. route[r].at \in Running <=> route[r].at # "new"
    BY DEF Running
  <2>4. CASE next = {} /\ route[r].at = "new"
    <3>1. \A q \in Request : route'[q].at \in Running <=> route[q].at \in Running
      BY <2>1, <2>2, <2>3, <2>4
    <3> QED BY <1>1, <2>4, <3>1, SlotKept DEF SlotStep
  <2>5. CASE next # {} /\ route[r].at = "new"
    BY <1>1, <2>1, <2>2, <2>3, <2>5, SlotEntered DEF SlotStep
  <2>6. CASE next = {} /\ route[r].at # "new"
    BY <1>1, <2>1, <2>2, <2>3, <2>6, SlotLeft DEF SlotStep
  <2>7. CASE next # {} /\ route[r].at # "new"
    <3>1. \A q \in Request : route'[q].at \in Running <=> route[q].at \in Running
      BY <2>1, <2>2, <2>3, <2>7
    <3> QED BY <1>1, <2>7, <3>1, SlotKept DEF SlotStep
  <2> QED BY <2>4, <2>5, <2>6, <2>7
<1>11. Types'
  BY <1>7, <1>10, TypesParts
<1>12. RequestInv(r)'
  <2>1. CASE next = {}
    BY <1>1, <1>7, <1>11, <2>1, RefusedRow DEF Refusals
  <2>2. CASE next # {}
    BY <1>1, <1>5, <1>7, <1>11, <2>2, ChosenRow
  <2> QED BY <2>1, <2>2
<1>13. Ejected'
  <2>1. route'[r].at = "probing" =>
          route'[r].stamp <= now /\ route'[r].stamp - checkedAt'[route'[r].replica] >= HealthTTL
    BY <1>5, <1>7, <1>9
  <2> QED BY <1>1, <1>2, <1>7, <1>11, <2>1, EjectedStep DEF PoolStep
<1>14. ChosenHealthy
  <2>1. \A q \in Request \ {r} : route'[q].tried = route[q].tried
    BY <1>2, <1>7
  <2>2. route[r].tried # route'[r].tried => route'[r].replica \in Replica /\ healthy'[route'[r].replica]
    BY <1>5, <1>7, <1>9
  <2> QED BY <2>1, <2>2 DEF ChosenHealthy
<1> QED BY <1>2, <1>7, <1>8, <1>10, <1>11, <1>12, <1>13, <1>14, OneMoves DEF StepInv

LEMMA PoolKept ==
  ASSUME UNCHANGED poolVars
  PROVE  PoolStep
BY DEF poolVars, PoolStep

LEMMA DeniedStep ==
  ASSUME GInv, NEW r \in Request, NEW status \in {401, 403, 404}, Denied(r, status)
  PROVE  StepInv
<1> USE DEF Denied
<1>1. Types /\ RequestInv(r) /\ Quotas /\ now \in 0 .. MaxTime
  BY DEF GInv, Types, TypeOK
<1>2. RestTypes'
  BY <1>1, TypesParts DEF RestTypes, poolVars, quotaVars
<1>3. ~route[r].started /\ Heard(r)
  BY <1>1, WaitingFacts
<1>4. Heard(r)'
  BY <1>3 DEF Heard, TrueSoFar
<1>5. Quotas'
  BY <1>1 DEF Quotas, Budget, quotaVars
<1>6. PoolStep
  BY PoolKept
<1>7. SlotStep(r, {})
  BY DEF SlotStep, quotaVars
<1>8. status \in Refusals /\ status \notin {400, 502} /\ status \in {401, 403, 404, 429, 503}
  BY DEF Refusals
<1>9. 0 \in 0 .. MaxTime /\ 0 <= now /\ 0 \in Nat /\ {} \subseteq Selects(route[r], 0, 0, healthy', checkedAt')
  BY <1>1, RouterSizes
<1>10. GoesOn(r, 0, 0, {}, status)
  BY <1>1, <1>2, <1>3, <1>4, <1>5, <1>6, <1>7, <1>8, <1>9 DEF GoesOn
<1> QED BY <1>10, GoesStep

LEMMA ArriveStep ==
  ASSUME GInv, NEW r \in Request, Arrive(r)
  PROVE  StepInv
<1> DEFINE t == owner[r]
           ok == Admits(r)
           all == Selects(route[r], now, 1, healthy, checkedAt)
<1>1. Types /\ RequestInv(r) /\ Quotas /\ now \in 0 .. MaxTime
  BY DEF GInv, Types, TypeOK
<1>2. /\ t \in Tenant /\ Rpm \in [Tenant -> Nat] /\ Tpm \in [Tenant -> Nat] /\ Rate \in Nat
      /\ Prompt[r] \in Nat /\ 1 \in Nat
  BY <1>1, TenantFacts, GatewayLimits, GatewayRequests
<1>3. /\ rpm \in [Tenant -> Bucket] /\ tpm \in [Tenant -> Bucket] /\ charged \in [Tenant -> Nat]
      /\ spent \in [Tenant -> Nat]
  BY <1>1 DEF Types, TypeOK
<1>4. /\ rpm' = [rpm EXCEPT ![t] = AfterCheck(@, Rpm[t], Rate, now, 1, ok)]
      /\ tpm' = [tpm EXCEPT ![t] = AfterCheck(@, Tpm[t], Rate, now, Prompt[r], ok)]
      /\ charged' = IF ok /\ Tpm[t] # NoLimit THEN [charged EXCEPT ![t] = @ + Prompt[r]] ELSE charged
      /\ UNCHANGED <<owner, now, poolVars, spent, count, event, records, told, ended, sent>>
      /\ route[r].at = "new"
  BY DEF Arrive
<1>5. /\ AfterCheck(rpm[t], Rpm[t], Rate, now, 1, ok) \in Bucket
      /\ AfterCheck(rpm[t], Rpm[t], Rate, now, 1, ok).updated <= now
      /\ AfterCheck(tpm[t], Tpm[t], Rate, now, Prompt[r], ok) \in Bucket
      /\ AfterCheck(tpm[t], Tpm[t], Rate, now, Prompt[r], ok).updated <= now
  BY <1>1, <1>2, <1>3, CheckedBucket DEF Quotas, Budget
<1>6. rpm' \in [Tenant -> Bucket] /\ tpm' \in [Tenant -> Bucket]
  BY <1>2, <1>3, <1>4, <1>5
<1>7. charged' \in [Tenant -> Nat]
  BY <1>2, <1>3, <1>4
<1>8. Quotas'
  <2> HIDE DEF t, ok
  <2>1. \A u \in Tenant : tpm'[u].updated <= now /\ rpm'[u].updated <= now
    BY <1>1, <1>2, <1>3, <1>4, <1>5 DEF Quotas
  <2>2. \A u \in Tenant \ {t} : Budget(u)'
    BY <1>1, <1>2, <1>3, <1>4 DEF Quotas, Budget
  <2>3. ASSUME NEW u \in Tenant, u = t PROVE Budget(u)'
    <3>1. Budget(t) /\ charged[t] \in Nat /\ spent[t] \in Nat /\ Tpm[t] \in Nat
      BY <1>1, <1>2, <1>3 DEF Quotas
    <3>2. CASE Tpm[t] = NoLimit
      BY <2>3, <3>2 DEF Budget
    <3>3. CASE Tpm[t] # NoLimit /\ ~(ok /\ Prompt[r] > 0)
      <4>1. tpm'[t] = tpm[t] /\ charged'[t] = charged[t]
        BY <1>2, <1>3, <1>4, <3>1, <3>3 DEF AfterCheck
      <4> QED BY <1>4, <2>3, <3>1, <4>1 DEF Budget
    <3>4. CASE Tpm[t] # NoLimit /\ ok /\ Prompt[r] > 0
      <4> DEFINE b == Charged(tpm[t], Tpm[t], Rate, now, Prompt[r])
      <4>1. tpm'[t] = b /\ charged'[t] = charged[t] + Prompt[r] /\ spent'[t] = spent[t]
        BY <1>2, <1>3, <1>4, <3>4 DEF AfterCheck
      <4>2. Level(tpm[t], Tpm[t], Rate, now) >= Prompt[r]
        BY <1>2, <3>4 DEF Admits, Affords, t, ok
      <4>3. charged[t] + tpm[t].level <= Tpm[t] + Rate * tpm[t].updated
        BY <3>1, <3>4 DEF Budget
      <4>4. tpm[t] \in Bucket /\ tpm[t].updated <= now
        BY <1>1, <1>2, <1>3 DEF Quotas
      <4>5. charged[t] + Prompt[r] + b.level <= Tpm[t] + Rate * b.updated /\ b.level >= 0
        BY <1>1, <1>2, <3>1, <4>2, <4>3, <4>4, BudgetCharged
      <4>6. b \in Bucket /\ b.updated <= now
        BY <1>1, <1>2, <3>1, <4>4, ChargedBucket
      <4> HIDE DEF b
      <4>7. b.level \in Int /\ b.updated \in Int /\ now \in Int
        BY <1>1, <4>6, RouterSizes DEF Bucket
      <4>8. Rate * b.updated \in Int /\ Rate * now \in Int /\ Rate * b.updated <= Rate * now
        BY <4>6, <4>7, RateFacts
      <4>9. charged[t] + Prompt[r] - spent[t] <= Tpm[t] + Rate * now
        BY <1>2, <3>1, <4>5, <4>7, <4>8
      <4>10. charged'[t] + tpm'[t].level <= Tpm[t] + Rate * tpm'[t].updated
        BY <4>1, <4>5
      <4>11. charged'[t] - spent'[t] <= Tpm[t] + Rate * now'
        <5>1. now' = now
          BY <1>4
        <5>2. charged'[t] - spent'[t] = charged[t] + Prompt[r] - spent[t]
          BY <1>2, <3>1, <4>1
        <5> QED BY <4>9, <5>1, <5>2
      <4> QED BY <2>3, <4>10, <4>11 DEF Budget
    <3> QED BY <1>2, <3>2, <3>3, <3>4
  <2> QED BY <1>4, <2>1, <2>2, <2>3 DEF Quotas
<1>9. RestTypes'
  BY <1>1, <1>4, <1>6, <1>7, TypesParts DEF RestTypes, poolVars
<1>10. ~route[r].started /\ Heard(r) /\ route[r].attempt < MaxAttempts
  BY <1>1, <1>4, WaitingFacts
<1>11. Heard(r)'
  BY <1>4, <1>10 DEF Heard, TrueSoFar
<1>12. PoolStep
  BY <1>4, PoolKept
<1>13. all = Selects(route[r], now, 1, healthy', checkedAt')
  BY <1>4 DEF poolVars
<1>14. /\ 429 \in Refusals /\ 429 \notin {400, 502} /\ 429 \in {401, 403, 404, 429, 503}
       /\ 503 \in Refusals /\ 503 \notin {400, 502} /\ 503 \in {401, 403, 404, 429, 503}
  BY DEF Refusals
<1> DEFINE stamp == now
           from == 1
<1>15. /\ stamp \in 0 .. MaxTime /\ stamp <= now /\ from \in Nat
       /\ UNCHANGED <<count, event, records, sent>> /\ owner' = owner /\ now' = now
       /\ \A q \in Request \ {r} : told'[q] = told[q] /\ ended'[q] = ended[q]
       /\ route[r].at \in {"new", "probing", "attempt"}
  BY <1>1, <1>4
<1> HIDE DEF t, ok, all
<1>16. CASE ok /\ SlotFree(t)
  <2>1. Goes(r, all, 503) /\ inFlight' = IF all = {} THEN inFlight ELSE [inFlight EXCEPT ![t] = @ + 1]
    BY <1>16 DEF Arrive, t, ok, all
  <2>2. SlotStep(r, all)
    BY <1>4, <1>16, <2>1 DEF SlotStep, t
  <2>3. all \subseteq Selects(route[r], stamp, from, healthy', checkedAt')
    BY <1>13
  <2> DEFINE status == 503
  <2>4. /\ status \in Refusals
        /\ status \in {400, 502} => told'[r] # << >> /\ ~told'[r][Len(told'[r])]
        /\ route[r].tried = {} => status \in {401, 403, 404, 429, 503}
        /\ Goes(r, all, status)
    BY <1>14, <2>1
  <2>5. all # {} => route[r].attempt < MaxAttempts
    BY <1>10
  <2> HIDE DEF status, stamp, from
  <2>6. GoesOn(r, stamp, from, all, status)
    BY <1>1, <1>8, <1>9, <1>10, <1>11, <1>12, <1>15, <2>2, <2>3, <2>4, <2>5 DEF GoesOn
  <2> QED BY <2>6, GoesStep
<1>17. CASE ~(ok /\ SlotFree(t))
  <2> DEFINE none == {}
  <2>1. Goes(r, none, 429) /\ inFlight' = inFlight
    BY <1>17 DEF Arrive, t, ok, all
  <2>2. SlotStep(r, none)
    BY <1>4, <2>1 DEF SlotStep
  <2>3. none \subseteq Selects(route[r], stamp, from, healthy', checkedAt')
    OBVIOUS
  <2> DEFINE status == 429
  <2>4. /\ status \in Refusals
        /\ status \in {400, 502} => told'[r] # << >> /\ ~told'[r][Len(told'[r])]
        /\ route[r].tried = {} => status \in {401, 403, 404, 429, 503}
        /\ Goes(r, none, status)
    BY <1>14, <2>1
  <2>5. none # {} => route[r].attempt < MaxAttempts
    BY <1>10
  <2> HIDE DEF status, stamp, from, none
  <2>6. GoesOn(r, stamp, from, none, status)
    BY <1>1, <1>8, <1>9, <1>10, <1>11, <1>12, <1>15, <2>2, <2>3, <2>4, <2>5 DEF GoesOn
  <2> QED BY <2>6, GoesStep
<1> QED BY <1>16, <1>17

\* The pool after a probe has answered.
LEMMA ProbedPool ==
  ASSUME Types, Ejected, NEW k \in Task, route[k].at = "probing", route[k].replica \in Replica,
         NEW alive \in BOOLEAN, now' = now,
         healthy' = Verdict(route[k], alive), checkedAt' = Stamped(route[k]),
         Remembers(k, route[k].replica)
  PROVE  /\ PoolStep
         /\ healthy' \in [Replica -> BOOLEAN] /\ checkedAt' \in [Replica -> {Never} \cup 0 .. MaxTime]
         /\ failedAt' \in [Replica -> Int] /\ early' \in [Replica -> SUBSET Task]
<1> DEFINE c == route[k].replica
<1>1. /\ healthy \in [Replica -> BOOLEAN] /\ checkedAt \in [Replica -> {Never} \cup 0 .. MaxTime]
      /\ failedAt \in [Replica -> Int] /\ early \in [Replica -> SUBSET Task]
      /\ route[k].stamp \in 0 .. MaxTime /\ now \in 0 .. MaxTime /\ c \in Replica
  BY DEF Types, TypeOK, RouteType
<1>2. /\ healthy' \in [Replica -> BOOLEAN] /\ checkedAt' \in [Replica -> {Never} \cup 0 .. MaxTime]
      /\ \A b \in Replica \ {c} : healthy'[b] = healthy[b] /\ checkedAt'[b] = checkedAt[b]
  BY <1>1 DEF Verdict, Stamped
<1>3. Never \in Int /\ now - Never >= HealthTTL
  BY <1>1, RouterSizes DEF Never
<1>4. /\ failedAt' \in [Replica -> Int] /\ early' \in [Replica -> SUBSET Task]
      /\ \A b \in Replica \ {c} : failedAt'[b] = failedAt[b] /\ early'[b] = early[b]
      /\ failedAt'[c] = Never \/ (k \notin early[c] /\ failedAt'[c] = failedAt[c])
  BY <1>1, <1>3 DEF Remembers
<1>5. k \notin early[c] => now - failedAt[c] >= HealthTTL
  <2>1. ~(now - failedAt[c] < HealthTTL) => now - failedAt[c] >= HealthTTL
    BY <1>1, RouterSizes
  <2> QED BY <1>1, <2>1 DEF Ejected
<1> HIDE DEF c
<1>6. now - failedAt'[c] >= HealthTTL
  BY <1>3, <1>4, <1>5
<1> QED BY <1>2, <1>4, <1>6 DEF PoolStep

LEMMA ProbeReturnsStep ==
  ASSUME GInv, NEW r \in Request, NEW alive \in BOOLEAN, ProbeReturns(r, alive)
  PROVE  StepInv
<1> DEFINE x == route[r]
           all == Selects(x, x.stamp, x.replica + 1, Verdict(x, alive), Stamped(x))
<1>1. Types /\ RequestInv(r) /\ Quotas /\ Ejected /\ x \in RouteType /\ r \in Task
  BY RowTypes, TaskFacts DEF GInv
<1>2. /\ x.at = "probing" /\ healthy' = Verdict(x, alive) /\ checkedAt' = Stamped(x)
      /\ Remembers(r, x.replica) /\ Goes(r, all, 503) /\ Slot(owner[r], all = {})
      /\ UNCHANGED <<owner, now, rpm, tpm, charged, spent, count, event, records, told, ended, sent>>
  BY DEF ProbeReturns
<1>3. all = Selects(x, x.stamp, x.replica + 1, healthy', checkedAt')
  BY <1>2
<1>4. x.replica \in Replica /\ x.replica + 1 \in Nat /\ x.stamp \in 0 .. MaxTime /\ x.stamp <= now
  BY <1>1, <1>2 DEF RequestInv, Shape, RouteType, Ejected, Replica
<1>5. /\ PoolStep
      /\ healthy' \in [Replica -> BOOLEAN] /\ checkedAt' \in [Replica -> {Never} \cup 0 .. MaxTime]
      /\ failedAt' \in [Replica -> Int] /\ early' \in [Replica -> SUBSET Task]
  BY <1>1, <1>2, <1>4, ProbedPool
<1>6. RestTypes'
  BY <1>1, <1>2, <1>5, TypesParts DEF RestTypes
<1>7. Quotas'
  BY <1>1, <1>2 DEF Quotas, Budget
<1>8. ~x.started /\ Heard(r) /\ x.attempt < MaxAttempts
  BY <1>1, <1>2, WaitingFacts
<1>9. Heard(r)'
  BY <1>2, <1>8 DEF Heard, TrueSoFar
<1>10. SlotStep(r, all)
  BY <1>2 DEF SlotStep, Slot
<1>11. 503 \in Refusals /\ 503 \notin {400, 502} /\ 503 \in {401, 403, 404, 429, 503}
  BY DEF Refusals
<1> HIDE DEF all
<1>12. GoesOn(r, x.stamp, x.replica + 1, all, 503)
  BY <1>1, <1>2, <1>3, <1>4, <1>5, <1>6, <1>7, <1>8, <1>9, <1>10, <1>11 DEF GoesOn
<1> QED BY <1>12, GoesStep

\* The /readyz handler moves.
LEMMA ReadyStep ==
  ASSUME GInv, UNCHANGED <<owner, now, quotaVars, bookVars>>, PoolStep, RestTypes',
         NEW y \in RouteType, route' = [route EXCEPT ![Ready] = y],
         y.at = "new" \/ /\ y.at = "probing" /\ y.replica \in Replica
                         /\ y.stamp <= now /\ y.stamp - checkedAt'[y.replica] >= HealthTTL
  PROVE  StepInv
<1>1. Types /\ Ejected /\ Quotas /\ SlotsBalance /\ Ready \in Task /\ Ready \notin Request
  BY GatewayRequests DEF GInv, Task, Ready
<1>2. route \in [Task -> RouteType] /\ answer \in [Request -> Status] /\ inFlight \in [Tenant -> Nat]
  BY <1>1, TypesParts
<1>3. /\ route'[Ready] = y /\ route' \in [Task -> RouteType]
      /\ \A k \in Task \ {Ready} : route'[k] = route[k]
  BY <1>1, <1>2
<1>4. \A q \in Request : route'[q] = route[q]
  BY <1>1, <1>3 DEF Task
<1>5. \A q \in Request : RequestInv(q)'
  BY <1>4, KeptInv DEF GInv, Kept, bookVars
<1>6. Types'
  BY <1>2, <1>3, TypesParts DEF bookVars, quotaVars
<1>7. SlotsBalance'
  BY <1>1, <1>4, SlotKept DEF quotaVars
<1>8. Ejected'
  BY <1>1, <1>3, <1>6, EjectedStep DEF PoolStep
<1>9. Quotas'
  BY <1>1 DEF Quotas, Budget, quotaVars
<1>10. ReadyInv'
  BY <1>3 DEF ReadyInv
<1>11. ChosenHealthy
  BY <1>4 DEF ChosenHealthy
<1> QED BY <1>5, <1>6, <1>7, <1>8, <1>9, <1>10, <1>11 DEF GInv, StepInv

LEMMA ReportsFacts ==
  ASSUME NEW stamp \in 0 .. MaxTime, NEW from \in Nat, NEW C \in [Replica -> Int], Reports(stamp, from, C)
  PROVE  \E y \in RouteType :
           /\ route' = [route EXCEPT ![Ready] = y]
           /\ y.at = "new" \/ /\ y.at = "probing" /\ y.replica \in Replica
                              /\ y.stamp = stamp /\ stamp - C[y.replica] >= HealthTTL
<1> DEFINE stale == Stale(stamp, from, C)
<1>1. stale \in SUBSET Nat
  BY DEF Stale, Replica
<1>2. CASE stale = {}
  <2>1. route' = [route EXCEPT ![Ready] = AtRest("new")]
    BY <1>2 DEF Reports
  <2>2. AtRest("new") \in RouteType /\ AtRest("new").at = "new"
    BY RouterSizes DEF AtRest, RouteType
  <2> QED BY <2>1, <2>2
<1>3. CASE stale # {}
  <2> DEFINE y == [AtRest("probing") EXCEPT !.stamp = stamp, !.replica = Min(stale)]
  <2>1. route' = [route EXCEPT ![Ready] = y]
    BY <1>3 DEF Reports
  <2>2. Min(stale) \in stale
    BY <1>1, <1>3, SmallestOf
  <2>3. Min(stale) \in Replica /\ stamp - C[Min(stale)] >= HealthTTL
    BY <2>2, RouterSizes DEF Stale, Fresh
  <2>4. Min(stale) \in 0 .. NumReplicas /\ 0 \in 0 .. MaxAttempts
    BY <2>3, RouterSizes DEF Replica
  <2> HIDE DEF stale
  <2>5. y \in RouteType /\ y.at = "probing" /\ y.replica = Min(stale) /\ y.stamp = stamp
    BY <2>4 DEF AtRest, RouteType
  <2> HIDE DEF y
  <2> QED BY <2>1, <2>3, <2>5
<1> QED BY <1>2, <1>3

LEMMA AsksReadyStep ==
  ASSUME GInv, AsksReady
  PROVE  StepInv
<1>1. Types /\ now \in 0 .. MaxTime /\ 1 \in Nat /\ checkedAt \in [Replica -> Int]
  BY RouterSizes DEF GInv, Types, TypeOK, Never
<1>2. PICK y \in RouteType :
           /\ route' = [route EXCEPT ![Ready] = y]
           /\ y.at = "new" \/ /\ y.at = "probing" /\ y.replica \in Replica
                              /\ y.stamp = now /\ now - checkedAt[y.replica] >= HealthTTL
  BY <1>1, ReportsFacts DEF AsksReady
<1>3. UNCHANGED <<owner, now, poolVars, quotaVars, bookVars>>
  BY DEF AsksReady
<1>4. RestTypes'
  BY <1>1, <1>3, TypesParts DEF RestTypes, poolVars, quotaVars, bookVars
<1>5. PoolStep /\ checkedAt' = checkedAt /\ now <= now
  BY <1>1, <1>3, PoolKept DEF poolVars
<1> QED BY <1>2, <1>3, <1>4, <1>5, ReadyStep

LEMMA ReadyProbedStep ==
  ASSUME GInv, NEW alive \in BOOLEAN, ReadyProbed(alive)
  PROVE  StepInv
<1> DEFINE x == route[Ready]
<1>1. Types /\ Ejected /\ ReadyInv /\ Ready \in Task /\ x \in RouteType
  BY DEF GInv, Types, TypeOK, Task
<1>2. /\ x.at = "probing" /\ healthy' = Verdict(x, alive) /\ checkedAt' = Stamped(x)
      /\ Remembers(Ready, x.replica) /\ Reports(x.stamp, x.replica + 1, checkedAt')
      /\ UNCHANGED <<owner, now, quotaVars, bookVars>>
  BY DEF ReadyProbed
<1>3. x.replica \in Replica /\ x.replica + 1 \in Nat /\ x.stamp \in 0 .. MaxTime /\ x.stamp <= now
  BY <1>1, <1>2 DEF ReadyInv, RouteType, Ejected, Replica
<1>4. /\ PoolStep
      /\ healthy' \in [Replica -> BOOLEAN] /\ checkedAt' \in [Replica -> {Never} \cup 0 .. MaxTime]
      /\ failedAt' \in [Replica -> Int] /\ early' \in [Replica -> SUBSET Task]
  BY <1>1, <1>2, <1>3, ProbedPool
<1>5. RestTypes'
  BY <1>1, <1>2, <1>4, TypesParts DEF RestTypes, quotaVars, bookVars
<1>6. checkedAt' \in [Replica -> Int]
  BY <1>4, RouterSizes DEF Never
<1>7. PICK y \in RouteType :
           /\ route' = [route EXCEPT ![Ready] = y]
           /\ y.at = "new" \/ /\ y.at = "probing" /\ y.replica \in Replica
                              /\ y.stamp = x.stamp /\ x.stamp - checkedAt'[y.replica] >= HealthTTL
  BY <1>2, <1>3, <1>6, ReportsFacts
<1> QED BY <1>2, <1>3, <1>4, <1>5, <1>7, ReadyStep

LEMMA TickStep ==
  ASSUME GInv, Tick
  PROVE  StepInv
<1>1. Types /\ Ejected /\ Quotas /\ SlotsBalance /\ ReadyInv
  BY DEF GInv
<1>2. now \in 0 .. MaxTime /\ now' = now + 1 /\ now' \in 0 .. MaxTime /\ now \in Int /\ MaxTime \in Nat
  BY <1>1, RouterSizes DEF Tick, Types, TypeOK
<1>3. UNCHANGED <<owner, poolVars, route, quotaVars, bookVars>>
  BY DEF Tick
<1>4. Types'
  BY <1>1, <1>2, <1>3 DEF Types, TypeOK, poolVars, quotaVars, bookVars
<1>5. \A q \in Request : RequestInv(q)'
  BY <1>3, KeptInv DEF GInv, Kept, bookVars
<1>6. Ejected'
  <2>1. \A b \in Replica : failedAt[b] \in Int /\ (now + 1 - failedAt[b] < HealthTTL => now - failedAt[b] < HealthTTL)
    BY <1>1, <1>2, RouterSizes DEF Types
  <2>2. \A k \in Task : route[k].stamp \in Int
    BY <1>1 DEF Types, TypeOK, RouteType
  <2>3. \A k \in Task : route[k].at = "probing" => route[k].stamp <= now + 1
    BY <1>1, <1>2, <2>2 DEF Ejected
  <2> QED BY <1>1, <1>2, <1>3, <2>1, <2>3 DEF Ejected, poolVars
<1>7. Quotas'
  <2>1. \A t \in Tenant : tpm[t].updated \in Int /\ rpm[t].updated \in Int
    BY <1>1 DEF Types, TypeOK, Bucket
  <2>2. \A t \in Tenant : tpm[t].updated <= now + 1 /\ rpm[t].updated <= now + 1
    BY <1>1, <1>2, <2>1 DEF Quotas
  <2>3. \A t \in Tenant : Tpm[t] \in Int /\ charged[t] \in Int /\ spent[t] \in Int
    BY <1>1, GatewayLimits DEF Types, TypeOK
  <2>4. Rate * (now + 1) \in Int /\ Rate * now \in Int /\ Rate * now <= Rate * (now + 1)
    BY <1>2, RateFacts
  <2>5. \A t \in Tenant : charged[t] - spent[t] <= Tpm[t] + Rate * now
          => charged[t] - spent[t] <= Tpm[t] + Rate * (now + 1)
    BY <2>3, <2>4
  <2>6. \A t \in Tenant : Budget(t)'
    BY <1>1, <1>2, <1>3, <2>5 DEF Quotas, Budget, quotaVars
  <2> QED BY <1>2, <1>3, <2>2, <2>6 DEF Quotas, quotaVars
<1>8. SlotsBalance'
  BY <1>1, <1>3, SlotKept DEF quotaVars
<1>9. ReadyInv'
  BY <1>1, <1>3 DEF ReadyInv
<1>10. ChosenHealthy
  BY <1>3 DEF ChosenHealthy
<1> QED BY <1>4, <1>5, <1>6, <1>7, <1>8, <1>9, <1>10 DEF GInv, StepInv

LEMMA StutterStep ==
  ASSUME GInv, UNCHANGED vars
  PROVE  StepInv
<1>1. Types /\ Ejected /\ Quotas /\ SlotsBalance /\ ReadyInv
  BY DEF GInv
<1> USE DEF vars, poolVars, quotaVars, bookVars
<1>2. Types'
  BY <1>1 DEF Types, TypeOK
<1>3. \A q \in Request : RequestInv(q)'
  BY KeptInv DEF GInv, Kept
<1>4. Ejected'
  BY <1>1 DEF Ejected
<1>5. Quotas' /\ ReadyInv'
  BY <1>1 DEF Quotas, Budget, ReadyInv
<1>6. SlotsBalance'
  BY <1>1, SlotKept
<1>7. ChosenHealthy
  BY DEF ChosenHealthy
<1> QED BY <1>2, <1>3, <1>4, <1>5, <1>6, <1>7 DEF GInv, StepInv

----------------------------------------------------------------------------
(* Steps of an attempt                                                     *)

\* A verdict is given on the attempt that has just ended.
LEMMA VerdictGiven ==
  ASSUME Types, NEW r \in Request, Heard(r), NEW ok \in BOOLEAN, NEW how \in How, ok <=> how = "ok",
         Tell(r, ok), Ends(r, how)
  PROVE  /\ Heard(r)' /\ told' \in [Request -> Seq(BOOLEAN)] /\ ended' \in [Request -> Seq(How)]
         /\ told'[r] # << >> /\ told'[r][Len(told'[r])] = ok
         /\ ended'[r] # << >> /\ ended'[r][Len(ended'[r])] = how
         /\ Len(told'[r]) = Len(told[r]) + 1
         /\ \A q \in Request \ {r} : told'[q] = told[q] /\ ended'[q] = ended[q]
<1>1. /\ told \in [Request -> Seq(BOOLEAN)] /\ ended \in [Request -> Seq(How)]
      /\ told[r] \in Seq(BOOLEAN) /\ ended[r] \in Seq(How)
  BY DEF Types, TypeOK
<1>2. /\ told' = [told EXCEPT ![r] = Append(told[r], ok)]
      /\ ended' = [ended EXCEPT ![r] = Append(ended[r], how)]
  BY <1>1 DEF Tell, Ends
<1>3. /\ Append(told[r], ok) \in Seq(BOOLEAN) /\ Len(Append(told[r], ok)) = Len(told[r]) + 1
      /\ Len(told[r]) \in Nat /\ Append(told[r], ok)[Len(told[r]) + 1] = ok
      /\ Append(told[r], ok) # << >>
      /\ \A i \in 1 .. Len(told[r]) : Append(told[r], ok)[i] = told[r][i]
  BY <1>1, AppendFacts
<1>4. /\ Append(ended[r], how) \in Seq(How) /\ Len(Append(ended[r], how)) = Len(ended[r]) + 1
      /\ Append(ended[r], how)[Len(ended[r]) + 1] = how /\ Append(ended[r], how) # << >>
      /\ \A i \in 1 .. Len(ended[r]) : Append(ended[r], how)[i] = ended[r][i]
  BY <1>1, AppendFacts
<1>5. told'[r] = Append(told[r], ok) /\ ended'[r] = Append(ended[r], how)
  BY <1>1, <1>2
<1>6. told' \in [Request -> Seq(BOOLEAN)] /\ ended' \in [Request -> Seq(How)]
  BY <1>1, <1>2, <1>3, <1>4
<1>7. Len(told[r]) = Len(ended[r]) /\ \A i \in 1 .. Len(told[r]) : told[r][i] <=> ended[r][i] = "ok"
  BY DEF Heard, TrueSoFar
<1> DEFINE T == told'[r]
           E == ended'[r]
           n == Len(told[r])
<1>8. /\ Len(T) = n + 1 /\ Len(E) = n + 1 /\ n \in Nat
      /\ \A i \in 1 .. n : T[i] = told[r][i] /\ E[i] = ended[r][i]
      /\ T[n + 1] = ok /\ E[n + 1] = how
  BY <1>3, <1>4, <1>5, <1>7
<1>9. \A i \in 1 .. n + 1 : T[i] <=> E[i] = "ok"
  <2> SUFFICES ASSUME NEW i \in 1 .. n + 1 PROVE T[i] <=> E[i] = "ok"
    OBVIOUS
  <2>1. i \in 1 .. n \/ i = n + 1
    BY <1>8
  <2>2. CASE i \in 1 .. n
    <3>1. T[i] = told[r][i] /\ E[i] = ended[r][i] /\ (told[r][i] <=> ended[r][i] = "ok")
      BY <1>7, <1>8, <2>2
    <3> QED BY <3>1
  <2>3. CASE i = n + 1
    BY <1>8, <2>3
  <2> QED BY <2>1, <2>2, <2>3
<1>10. Heard(r)'
  BY <1>8, <1>9 DEF Heard, TrueSoFar
<1>11. \A q \in Request \ {r} : told'[q] = told[q] /\ ended'[q] = ended[q]
  BY <1>1, <1>2
<1> QED BY <1>3, <1>4, <1>5, <1>6, <1>7, <1>10, <1>11

\* An attempt ends, and the controller has not been told.
LEMMA VerdictDue ==
  ASSUME Types, NEW r \in Request, Verdicts(r), NEW how \in How, Ends(r, how), told'[r] = told[r]
  PROVE  /\ TrueSoFar(r)' /\ ended' \in [Request -> Seq(How)]
         /\ ended'[r] # << >> /\ ended'[r][Len(ended'[r])] = how
         /\ Len(ended'[r]) = Len(ended[r]) + 1
         /\ \A q \in Request \ {r} : ended'[q] = ended[q]
<1>1. ended \in [Request -> Seq(How)] /\ ended[r] \in Seq(How) /\ Len(told[r]) \in Nat
  BY RowTypes DEF Types, TypeOK
<1>2. ended' = [ended EXCEPT ![r] = Append(ended[r], how)]
  BY <1>1 DEF Ends
<1>3. /\ Append(ended[r], how) \in Seq(How) /\ Len(Append(ended[r], how)) = Len(ended[r]) + 1
      /\ Append(ended[r], how)[Len(ended[r]) + 1] = how /\ Append(ended[r], how) # << >>
      /\ \A i \in 1 .. Len(ended[r]) : Append(ended[r], how)[i] = ended[r][i]
      /\ Len(ended[r]) \in Nat
  BY <1>1, AppendFacts
<1>4. ended'[r] = Append(ended[r], how) /\ ended' \in [Request -> Seq(How)]
  BY <1>1, <1>2, <1>3
<1>5. Len(told[r]) <= Len(ended[r]) /\ \A i \in 1 .. Len(told[r]) : told[r][i] <=> ended[r][i] = "ok"
  BY DEF Verdicts, TrueSoFar
<1>6. \A i \in 1 .. Len(told[r]) : ended'[r][i] = ended[r][i]
  BY <1>1, <1>3, <1>4, <1>5
<1>7. TrueSoFar(r)'
  BY <1>5, <1>6 DEF TrueSoFar
<1> QED BY <1>1, <1>2, <1>3, <1>4, <1>7

\* The verdict that was due is given.
LEMMA VerdictCaughtUp ==
  ASSUME Types, NEW r \in Request, Verdicts(r), Len(ended[r]) = Len(told[r]) + 1,
         ended[r][Len(ended[r])] = "ok", Tell(r, TRUE), ended'[r] = ended[r]
  PROVE  /\ Heard(r)' /\ told' \in [Request -> Seq(BOOLEAN)]
         /\ \A q \in Request \ {r} : told'[q] = told[q]
<1>1. told \in [Request -> Seq(BOOLEAN)] /\ told[r] \in Seq(BOOLEAN) /\ TRUE \in BOOLEAN
  BY DEF Types, TypeOK
<1>2. told' = [told EXCEPT ![r] = Append(told[r], TRUE)]
  BY <1>1 DEF Tell
<1>3. /\ Append(told[r], TRUE) \in Seq(BOOLEAN) /\ Len(Append(told[r], TRUE)) = Len(told[r]) + 1
      /\ Len(told[r]) \in Nat /\ Append(told[r], TRUE)[Len(told[r]) + 1] = TRUE
      /\ \A i \in 1 .. Len(told[r]) : Append(told[r], TRUE)[i] = told[r][i]
  BY <1>1, AppendFacts
<1>4. told'[r] = Append(told[r], TRUE) /\ told' \in [Request -> Seq(BOOLEAN)]
  BY <1>1, <1>2, <1>3
<1> DEFINE T == told'[r]
           E == ended[r]
           n == Len(told[r])
<1>5. \A i \in 1 .. n : told[r][i] <=> E[i] = "ok"
  BY DEF Verdicts, TrueSoFar
<1>6. /\ Len(T) = n + 1 /\ Len(E) = n + 1 /\ n \in Nat /\ T[n + 1] = TRUE /\ E[n + 1] = "ok"
      /\ \A i \in 1 .. n : T[i] = told[r][i]
  BY <1>3, <1>4
<1>7. \A i \in 1 .. n + 1 : T[i] <=> E[i] = "ok"
  <2> SUFFICES ASSUME NEW i \in 1 .. n + 1 PROVE T[i] <=> E[i] = "ok"
    OBVIOUS
  <2>1. i \in 1 .. n \/ i = n + 1
    BY <1>6
  <2>2. CASE i \in 1 .. n
    <3>1. T[i] = told[r][i] /\ (told[r][i] <=> E[i] = "ok")
      BY <1>5, <1>6, <2>2
    <3> QED BY <3>1
  <2>3. CASE i = n + 1
    BY <1>6, <2>3
  <2> QED BY <2>1, <2>2, <2>3
<1>8. Heard(r)'
  BY <1>6, <1>7 DEF Heard, TrueSoFar
<1> QED BY <1>1, <1>2, <1>4, <1>8

\* The books of a request that is completed.
LEMMA CompleteFacts ==
  ASSUME GInv, NEW r \in Request, NEW tokens \in Nat, NEW status \in {"ok", "error"},
         Complete(r, tokens, status), now' = now, rpm' = rpm
  PROVE  /\ tpm' \in [Tenant -> Bucket] /\ charged' \in [Tenant -> Nat] /\ spent' \in [Tenant -> Nat]
         /\ Quotas'
         /\ records' \in [Request -> Seq(RecordType)]
         /\ Len(records'[r]) = Len(records[r]) + 1
         /\ \A q \in Request \ {r} : records'[q] = records[q]
<1> DEFINE t == owner[r]
           new == [tokens |-> tokens, status |-> status]
<1>1. Types /\ Quotas /\ now \in 0 .. MaxTime
  BY DEF GInv, Types, TypeOK
<1>2. t \in Tenant /\ Tpm \in [Tenant -> Nat] /\ Rate \in Nat
  BY <1>1, TenantFacts, GatewayLimits
<1>3. /\ tpm \in [Tenant -> Bucket] /\ charged \in [Tenant -> Nat] /\ spent \in [Tenant -> Nat]
      /\ tpm[t].updated <= now
      /\ records \in [Request -> Seq(RecordType)] /\ records[r] \in Seq(RecordType)
  BY <1>1, <1>2 DEF Types, TypeOK, Quotas, Budget
<1>4. Charged(tpm[t], Tpm[t], Rate, now, tokens) \in Bucket /\ Charged(tpm[t], Tpm[t], Rate, now, tokens).updated <= now
  BY <1>1, <1>2, <1>3, ChargedBucket
<1>5. /\ \/ UNCHANGED <<tpm, charged, spent>>
         \/ /\ Tpm[t] # NoLimit
            /\ tpm' = [tpm EXCEPT ![t] = Charged(tpm[t], Tpm[t], Rate, now, tokens)]
            /\ charged' = [charged EXCEPT ![t] = @ + tokens]
            /\ spent' = [spent EXCEPT ![t] = @ + tokens]
      /\ records' = [records EXCEPT ![r] = Append(records[r], new)]
  BY <1>2, <1>3 DEF Complete, Record
<1>6. tpm' \in [Tenant -> Bucket] /\ charged' \in [Tenant -> Nat] /\ spent' \in [Tenant -> Nat]
  <2>1. tpm' \in [Tenant -> Bucket]
    BY <1>2, <1>3, <1>4, <1>5
  <2>2. charged[t] + tokens \in Nat /\ spent[t] + tokens \in Nat
    BY <1>2, <1>3
  <2>3. charged' \in [Tenant -> Nat]
    BY <1>2, <1>3, <1>5, <2>2
  <2>4. spent' \in [Tenant -> Nat]
    BY <1>2, <1>3, <1>5, <2>2
  <2> QED BY <2>1, <2>3, <2>4
<1>7. Quotas'
  <2>1. CASE UNCHANGED <<tpm, charged, spent>>
    BY <1>1, <2>1 DEF Quotas, Budget
  <2>2. CASE /\ Tpm[t] # NoLimit
             /\ tpm' = [tpm EXCEPT ![t] = Charged(tpm[t], Tpm[t], Rate, now, tokens)]
             /\ charged' = [charged EXCEPT ![t] = @ + tokens]
             /\ spent' = [spent EXCEPT ![t] = @ + tokens]
    <3> HIDE DEF t
    <3> DEFINE b == Charged(tpm[t], Tpm[t], Rate, now, tokens)
    <3>1. \A u \in Tenant \ {t} : tpm'[u].updated <= now /\ rpm'[u].updated <= now /\ Budget(u)'
      BY <1>1, <1>2, <1>3, <2>2 DEF Quotas, Budget
    <3>2. tpm'[t] = b /\ charged'[t] = charged[t] + tokens /\ spent'[t] = spent[t] + tokens
      BY <1>2, <1>3, <2>2
    <3>3. /\ charged[t] + tpm[t].level <= Tpm[t] + Rate * tpm[t].updated
          /\ charged[t] - spent[t] <= Tpm[t] + Rate * now
          /\ charged[t] \in Nat /\ spent[t] \in Nat /\ Tpm[t] \in Nat /\ tpm[t] \in Bucket
      BY <1>1, <1>2, <1>3, <2>2 DEF Quotas, Budget
    <3>4. charged[t] + tokens + b.level <= Tpm[t] + Rate * b.updated
      BY <1>1, <1>3, <3>3, BudgetCharged
    <3>5. b.updated <= now /\ rpm[t].updated <= now
      BY <1>1, <1>2, <1>4 DEF Quotas
    <3> HIDE DEF b
    <3>6. (charged[t] + tokens) - (spent[t] + tokens) = charged[t] - spent[t]
      BY <3>3
    <3>7. ASSUME NEW u \in Tenant, u = t PROVE Budget(u)'
      BY <3>2, <3>3, <3>4, <3>6, <3>7 DEF Budget
    <3> QED BY <3>1, <3>2, <3>5, <3>7 DEF Quotas
  <2> QED BY <1>5, <2>1, <2>2
<1>8. new \in RecordType
  BY DEF RecordType
<1> HIDE DEF new
<1>9. Append(records[r], new) \in Seq(RecordType) /\ Len(Append(records[r], new)) = Len(records[r]) + 1
  BY <1>3, <1>8, AppendFacts
<1> QED BY <1>3, <1>5, <1>6, <1>7, <1>9

\* Only the route of r has changed.
Moved(r, y) ==
  /\ route' \in [Task -> RouteType] /\ route'[r] = y
  /\ \A k \in Task \ {r} : route'[k] = route[k]

\* A request that has had an event moves.
Proceeds(r, y) ==
  /\ y \in RouteType /\ Moved(r, y) /\ y.at # "probing" /\ y.tried = route[r].tried
  /\ owner' = owner /\ now' = now /\ PoolStep /\ Quotas' /\ RestTypes'
  /\ answer' \in [Request -> Status]
  /\ \A q \in Request \ {r} :
       /\ count'[q] = count[q] /\ event'[q] = event[q] /\ records'[q] = records[q]
       /\ told'[q] = told[q] /\ answer'[q] = answer[q]
       /\ ended'[q] = ended[q] /\ sent'[q] = sent[q]
  /\ route[r].at \in Running
  /\ y.at \in Running => inFlight' = inFlight
  /\ y.at \notin Running => inFlight' = [inFlight EXCEPT ![owner[r]] = @ - 1]
  /\ RequestInv(r)'

LEMMA StartedStep ==
  ASSUME GInv, NEW r \in Request, NEW y, Proceeds(r, y)
  PROVE  StepInv
<1> USE DEF Proceeds
<1>1. Types /\ Ejected /\ SlotsBalance /\ route \in [Task -> RouteType]
  BY TypesParts DEF GInv
<1>2. r \in Task /\ Ready \in Task \ {r} /\ Request \ {r} \subseteq Task \ {r}
  BY TaskFacts DEF Task
<1>3. route' \in [Task -> RouteType] /\ route'[r] = y /\ \A k \in Task \ {r} : route'[k] = route[k]
  BY DEF Moved
<1>4. \A q \in Request \ {r} : Kept(q)
  BY <1>2, <1>3 DEF Kept
<1>5. SlotsBalance' /\ inFlight' \in [Tenant -> Nat]
  <2>1. \A q \in Request \ {r} : route'[q].at = route[q].at
    BY <1>2, <1>3
  <2>2. CASE y.at \in Running
    <3>1. \A q \in Request : route'[q].at \in Running <=> route[q].at \in Running
      BY <1>3, <2>1, <2>2
    <3> QED BY <1>1, <2>2, <3>1, SlotKept
  <2>3. CASE y.at \notin Running
    BY <1>1, <1>3, <2>1, <2>3, SlotLeft
  <2> QED BY <2>2, <2>3
<1>6. Types'
  BY <1>3, <1>5, TypesParts
<1>7. Ejected'
  BY <1>1, <1>2, <1>3, <1>6, EjectedStep DEF PoolStep
<1>8. ChosenHealthy
  BY <1>2, <1>3 DEF ChosenHealthy
<1> QED BY <1>2, <1>3, <1>4, <1>5, <1>6, <1>7, <1>8, OneMoves DEF StepInv

\* A chunk is sent after nothing but deltas of the same replica.
LEMMA ChunkSent ==
  ASSUME Types, NEW r \in Request, Sending(r), route[r].at = "attempt", NEW kind \in Kinds,
         sent' = [sent EXCEPT ![r] = Append(@, Chunk(r, kind))]
  PROVE  /\ sent' \in [Request -> Seq(ChunkType)]
         /\ \A q \in Request \ {r} : sent'[q] = sent[q]
         /\ sent'[r] # << >> /\ sent'[r][Len(sent'[r])].kind = kind
         /\ \A i \in DOMAIN sent'[r] :
              /\ sent'[r][i].replica = route[r].replica
              /\ i < Len(sent'[r]) => sent'[r][i].kind = "delta"
<1> DEFINE new == Chunk(r, kind)
           n == Len(sent[r])
<1>1. sent \in [Request -> Seq(ChunkType)] /\ sent[r] \in Seq(ChunkType) /\ route[r] \in RouteType
  BY RowTypes DEF Types
<1>2. new \in ChunkType /\ new.kind = kind /\ new.replica = route[r].replica
  BY <1>1 DEF Chunk, ChunkType, RouteType
<1> HIDE DEF new
<1>3. sent' = [sent EXCEPT ![r] = Append(sent[r], new)]
  BY <1>1 DEF new
<1>4. /\ Append(sent[r], new) \in Seq(ChunkType) /\ Len(Append(sent[r], new)) = n + 1 /\ n \in Nat
      /\ DOMAIN sent[r] = 1 .. n /\ DOMAIN Append(sent[r], new) = 1 .. n + 1
      /\ Append(sent[r], new)[n + 1] = new /\ Append(sent[r], new) # << >>
      /\ \A i \in 1 .. n : Append(sent[r], new)[i] = sent[r][i]
  BY <1>1, <1>2, AppendFacts
<1>5. sent'[r] = Append(sent[r], new) /\ sent' \in [Request -> Seq(ChunkType)]
  BY <1>1, <1>3, <1>4
<1>6. \A i \in 1 .. n : sent[r][i].replica = route[r].replica /\ sent[r][i].kind = "delta"
  BY <1>4 DEF Sending
<1>7. \A i \in 1 .. n + 1 : (i \in 1 .. n \/ i = n + 1) /\ (i < n + 1 => i \in 1 .. n)
  BY <1>4
<1>8. \A i \in DOMAIN sent'[r] :
        /\ sent'[r][i].replica = route[r].replica
        /\ i < Len(sent'[r]) => sent'[r][i].kind = "delta"
  BY <1>2, <1>4, <1>5, <1>6, <1>7
<1> QED BY <1>1, <1>2, <1>3, <1>4, <1>5, <1>8

\* Where an attempt finds its request.
LEMMA AttemptFacts ==
  ASSUME GInv, NEW r \in Request, route[r].at = "attempt"
  PROVE  /\ Types /\ Quotas /\ RequestInv(r) /\ Heard(r) /\ route[r] \in RouteType
         /\ route[r].replica \in route[r].tried /\ route[r].replica \in Replica
         /\ route[r].attempt = Cardinality(route[r].tried)
         /\ Len(records[r]) = 0 /\ count[r] \in Nat /\ count[r] <= MaxTokens
         /\ route[r].at \in Running
<1>1. Types /\ Quotas /\ RequestInv(r) /\ route[r] \in RouteType /\ count[r] \in 0 .. MaxTokens + 1
  BY RowTypes DEF GInv
<1>2. Heard(r) /\ route[r].attempt = Cardinality(route[r].tried)
  BY <1>1, WaitingFacts
<1>3. route[r].replica \in route[r].tried /\ Len(records[r]) = 0 /\ count[r] <= MaxTokens
  BY <1>1 DEF RequestInv, Shape, Answered, Sending
<1>4. route[r].replica \in Replica
  BY <1>1, <1>3 DEF RouteType
<1>5. count[r] \in Nat
  BY <1>1
<1> QED BY <1>1, <1>2, <1>3, <1>4, <1>5 DEF Running

\* The pool after an attempt has failed.
LEMMA FailedPool ==
  ASSUME Types, NEW c \in Replica, NEW kind \in Errors,
         healthy' = Condemned(c, kind).H, checkedAt' = Condemned(c, kind).C, Marks(c, kind)
  PROVE  /\ PoolStep
         /\ healthy' \in [Replica -> BOOLEAN] /\ checkedAt' \in [Replica -> {Never} \cup 0 .. MaxTime]
         /\ failedAt' \in [Replica -> Int] /\ early' \in [Replica -> SUBSET Task]
<1>1. /\ healthy \in [Replica -> BOOLEAN] /\ checkedAt \in [Replica -> {Never} \cup 0 .. MaxTime]
      /\ failedAt \in [Replica -> Int] /\ early \in [Replica -> SUBSET Task]
      /\ now \in 0 .. MaxTime /\ now \in Int /\ DOMAIN route = Task
  BY DEF Types, TypeOK
<1>2. CASE Condemns(kind)
  <2> DEFINE probing == {k \in Task : route[k].at = "probing" /\ route[k].replica = c}
  <2>1. /\ healthy' = [healthy EXCEPT ![c] = FALSE] /\ checkedAt' = [checkedAt EXCEPT ![c] = now]
        /\ failedAt' = [failedAt EXCEPT ![c] = now] /\ early' = [early EXCEPT ![c] = probing]
    BY <1>1, <1>2 DEF Condemned, Marks
  <2>2. probing \in SUBSET Task
    OBVIOUS
  <2>3. /\ healthy' \in [Replica -> BOOLEAN] /\ checkedAt' \in [Replica -> {Never} \cup 0 .. MaxTime]
        /\ failedAt' \in [Replica -> Int]
    BY <1>1, <2>1
  <2>4. early' \in [Replica -> SUBSET Task]
    BY <1>1, <2>1, <2>2
  <2>5. ~healthy'[c] /\ checkedAt'[c] = now /\ failedAt'[c] = now /\ early'[c] = probing
    BY <1>1, <2>1
  <2>6. \A b \in Replica \ {c} : /\ healthy'[b] = healthy[b] /\ checkedAt'[b] = checkedAt[b]
                                 /\ failedAt'[b] = failedAt[b] /\ early'[b] = early[b]
    BY <1>1, <2>1
  <2> QED BY <2>3, <2>4, <2>5, <2>6 DEF PoolStep
<1>3. CASE ~Condemns(kind)
  <2>1. UNCHANGED <<healthy, checkedAt, failedAt, early>>
    BY <1>3 DEF Condemned, Marks
  <2> QED BY <1>1, <2>1, PoolKept DEF poolVars
<1> QED BY <1>2, <1>3

\* A streamed request is suspended at a chunk.
Suspends(r, kind) ==
  /\ r \in Streamed /\ kind \in Kinds
  /\ route'[r].at = "yielded" /\ route'[r].started /\ route'[r].replica \in route'[r].tried
  /\ route'[r].attempt = Cardinality(route'[r].tried)
  /\ event'[r] = kind /\ (kind = "delta" => count'[r] <= MaxTokens)
  /\ sent'[r] # << >> /\ sent'[r][Len(sent'[r])].kind = kind
  /\ \A i \in DOMAIN sent'[r] :
       /\ sent'[r][i].replica = route'[r].replica
       /\ i < Len(sent'[r]) => sent'[r][i].kind = "delta"
  /\ TrueSoFar(r)' /\ Len(told'[r]) <= Len(ended'[r]) /\ Len(ended'[r]) <= Len(told'[r]) + 1
  /\ kind = "delta" => Len(ended'[r]) = Len(told'[r])
  /\ kind = "final" => Len(ended'[r]) = Len(told'[r]) + 1 /\ ended'[r][Len(ended'[r])] = "ok"
  /\ answer'[r] = 200 /\ Len(records'[r]) = 0

LEMMA YieldedRow ==
  ASSUME NEW r \in Request, NEW kind, Suspends(r, kind)
  PROVE  RequestInv(r)'
<1> USE DEF Suspends
<1>1. Shape(r)'
  BY DEF Shape
<1>2. Sending(r)'
  BY DEF Sending
<1>3. Verdicts(r)'
  BY DEF Verdicts
<1>4. Answered(r)'
  BY DEF Answered
<1> QED BY <1>1, <1>2, <1>3, <1>4 DEF RequestInv

\* A collected response is done.
LEMMA CollectedRow ==
  ASSUME NEW r \in Request, r \notin Streamed, NEW ok \in BOOLEAN,
         route'[r].at = "done", route'[r].started, route'[r].replica \in route'[r].tried,
         route'[r].attempt = Cardinality(route'[r].tried), sent'[r] = << >>, Heard(r)',
         Len(told'[r]) \in Nat, told'[r] # << >>, told'[r][Len(told'[r])] = ok,
         ended'[r] # << >>, ok => ended'[r][Len(ended'[r])] = "ok",
         answer'[r] = CollectedStatus(ok), Len(records'[r]) = 1
  PROVE  RequestInv(r)'
<1>1. Shape(r)'
  BY DEF Shape
<1>2. Sending(r)'
  BY DEF Sending
<1>3. Verdicts(r)'
  <2>1. Len(told'[r]) = Len(ended'[r]) /\ TrueSoFar(r)'
    BY DEF Heard
  <2>2. Len(told'[r]) <= Len(ended'[r]) /\ Len(ended'[r]) <= Len(told'[r]) + 1
    BY <2>1
  <2> QED BY <2>1, <2>2 DEF Verdicts
<1>4. Answered(r)'
  <2>1. (ok /\ answer'[r] = 200) \/ (~ok /\ answer'[r] = 502)
    BY DEF CollectedStatus
  <2>2. ~ok => ~told'[r][Len(told'[r])]
    OBVIOUS
  <2> QED BY <2>1, <2>2 DEF Answered
<1> QED BY <1>1, <1>2, <1>3, <1>4 DEF RequestInv

LEMMA AttemptFailsStep ==
  ASSUME GInv, NEW r \in Request, NEW kind \in Errors, AttemptFails(r, kind)
  PROVE  StepInv
<1> DEFINE x == route[r]
           marked == Condemned(x.replica, kind)
           next == IF Retries(x, kind) THEN Selects(x, now, 1, marked.H, marked.C) ELSE {}
<1>1. /\ x.at = "attempt" /\ healthy' = marked.H /\ checkedAt' = marked.C /\ Marks(x.replica, kind)
      /\ Tell(r, FALSE) /\ Ends(r, "failed") /\ UNCHANGED <<owner, now, rpm, count>>
  BY DEF AttemptFails
<1>2. /\ Types /\ Quotas /\ RequestInv(r) /\ Heard(r) /\ x \in RouteType
      /\ x.replica \in x.tried /\ x.replica \in Replica /\ x.attempt = Cardinality(x.tried)
      /\ Len(records[r]) = 0 /\ count[r] \in Nat /\ count[r] <= MaxTokens /\ x.at \in Running
  BY <1>1, AttemptFacts
<1>3. /\ PoolStep
      /\ healthy' \in [Replica -> BOOLEAN] /\ checkedAt' \in [Replica -> {Never} \cup 0 .. MaxTime]
      /\ failedAt' \in [Replica -> Int] /\ early' \in [Replica -> SUBSET Task]
  BY <1>1, <1>2, FailedPool
<1>4. /\ Heard(r)' /\ told' \in [Request -> Seq(BOOLEAN)] /\ ended' \in [Request -> Seq(How)]
      /\ told'[r] # << >> /\ told'[r][Len(told'[r])] = FALSE
      /\ ended'[r] # << >> /\ Len(told'[r]) = Len(told[r]) + 1
      /\ \A q \in Request \ {r} : told'[q] = told[q] /\ ended'[q] = ended[q]
  <2>1. FALSE \in BOOLEAN /\ "failed" \in How /\ (FALSE <=> "failed" = "ok")
    BY DEF How
  <2> QED BY <1>1, <1>2, <2>1, VerdictGiven
<1>5. Len(told'[r]) \in Nat /\ Len(ended'[r]) = Len(told'[r]) /\ TrueSoFar(r)'
  BY <1>2, <1>4, RowTypes DEF Heard
<1>6. now \in 0 .. MaxTime /\ owner \in Owners /\ RestTypes
  BY <1>2, TypesParts DEF RestTypes
<1>7. CASE /\ ~x.started
           /\ Goes(r, next, IF Retries(x, kind) THEN 503 ELSE BackendStatus(kind))
           /\ Slot(owner[r], next = {})
           /\ UNCHANGED <<tpm, charged, spent, records, event, sent>>
  <2> DEFINE status == IF Retries(x, kind) THEN 503 ELSE BackendStatus(kind)
             stamp == now
             from == 1
  <2>1. status \in Refusals /\ Goes(r, next, status)
    BY <1>7 DEF BackendStatus, Refusals
  <2>2. /\ next \subseteq Selects(x, stamp, from, healthy', checkedAt')
        /\ next # {} => x.attempt < MaxAttempts
    BY <1>1 DEF Retries
  <2>3. SlotStep(r, next)
    BY <1>1, <1>7 DEF SlotStep, Slot
  <2>4. /\ status \in {400, 502} => told'[r] # << >> /\ ~told'[r][Len(told'[r])]
        /\ x.tried = {} => status \in {401, 403, 404, 429, 503}
    BY <1>2, <1>4
  <2>5. RestTypes'
    BY <1>1, <1>3, <1>4, <1>6, <1>7 DEF RestTypes
  <2>6. Quotas'
    BY <1>1, <1>2, <1>7 DEF Quotas, Budget
  <2>7. stamp \in 0 .. MaxTime /\ stamp <= now /\ from \in Nat
    BY <1>6
  <2>8. UNCHANGED <<count, event, records, sent>> /\ owner' = owner /\ now' = now
        /\ x.at \in {"new", "probing", "attempt"} /\ ~route[r].started
    BY <1>1, <1>7
  <2>9. PoolStep /\ Heard(r)' /\ \A q \in Request \ {r} : told'[q] = told[q] /\ ended'[q] = ended[q]
    BY <1>3, <1>4
  <2> HIDE DEF status, next, stamp, from
  <2>10. GoesOn(r, stamp, from, next, status)
    BY <2>1, <2>2, <2>3, <2>4, <2>5, <2>6, <2>7, <2>8, <2>9 DEF GoesOn
  <2> QED BY <2>10, GoesStep
<1>8. CASE /\ x.started /\ r \in Streamed
           /\ route' = [route EXCEPT ![r].at = "yielded"]
           /\ event' = [event EXCEPT ![r] = "failure"]
           /\ sent' = [sent EXCEPT ![r] = Append(@, Chunk(r, "failure"))]
           /\ UNCHANGED <<tpm, charged, spent, inFlight, records, answer>>
  <2> DEFINE y == [x EXCEPT !.at = "yielded"]
             failure == "failure"
  <2>1. failure \in Kinds /\ Sending(r)
    BY <1>2 DEF Kinds, RequestInv
  <2>2. /\ sent' \in [Request -> Seq(ChunkType)]
        /\ \A q \in Request \ {r} : sent'[q] = sent[q]
        /\ sent'[r] # << >> /\ sent'[r][Len(sent'[r])].kind = failure
        /\ \A i \in DOMAIN sent'[r] :
             /\ sent'[r][i].replica = x.replica
             /\ i < Len(sent'[r]) => sent'[r][i].kind = "delta"
    BY <1>1, <1>2, <1>8, <2>1, ChunkSent
  <2>3. /\ y \in RouteType /\ y.at = "yielded" /\ y.started /\ y.tried = x.tried
        /\ y.replica = x.replica /\ y.attempt = x.attempt
    BY <1>2, <1>8 DEF RouteType
  <2>4. Moved(r, y) /\ route'[r] = y
    <3>1. route \in [Task -> RouteType] /\ r \in Task
      BY <1>2, TaskFacts DEF Types, TypeOK
    <3> QED BY <1>8, <2>3, <3>1 DEF Moved
  <2>5. /\ event' \in [Request -> {"none", "delta", "final", "failure"}] /\ event'[r] = failure
        /\ \A q \in Request \ {r} : event'[q] = event[q]
    BY <1>6, <1>8 DEF RestTypes
  <2>6. RestTypes'
    BY <1>1, <1>3, <1>4, <1>6, <1>8, <2>2, <2>5 DEF RestTypes
  <2>7. answer'[r] = 200 /\ Len(records'[r]) = 0 /\ answer' \in [Request -> Status]
    BY <1>2, <1>8, TypesParts DEF RequestInv, Answered
  <2>8. Quotas'
    BY <1>1, <1>2, <1>8 DEF Quotas, Budget
  <2>9. /\ y.at \in Running /\ failure # "delta" /\ failure # "final"
        /\ Len(told'[r]) <= Len(ended'[r]) /\ Len(ended'[r]) <= Len(told'[r]) + 1
    BY <1>5, <2>3 DEF Running
  <2> HIDE DEF y, failure
  <2>10. RequestInv(r)'
    <3>1. Suspends(r, failure)
      BY <1>2, <1>5, <1>8, <2>1, <2>2, <2>3, <2>4, <2>5, <2>7, <2>9 DEF Suspends
    <3> QED BY <3>1, YieldedRow
  <2>11. Proceeds(r, y)
    BY <1>1, <1>2, <1>3, <1>4, <1>8, <2>2, <2>3, <2>4, <2>5, <2>6, <2>7, <2>8, <2>9, <2>10 DEF Proceeds
  <2> QED BY <2>11, StartedStep
<1>9. CASE /\ x.started /\ r \notin Streamed
           /\ Finishes(r, count[r], "error") /\ Answers(r, CollectedStatus(FALSE))
           /\ UNCHANGED <<event, sent>>
  <2> DEFINE y == [x EXCEPT !.at = "done", !.started = TRUE]
             ok == FALSE
  <2>1. Complete(r, count[r], "error") /\ Slot(owner[r], TRUE)
    BY <1>9 DEF Finishes
  <2>2. /\ tpm' \in [Tenant -> Bucket] /\ charged' \in [Tenant -> Nat] /\ spent' \in [Tenant -> Nat] /\ Quotas'
        /\ records' \in [Request -> Seq(RecordType)]
        /\ Len(records'[r]) = Len(records[r]) + 1
        /\ \A q \in Request \ {r} : records'[q] = records[q]
    BY <1>1, <1>2, <2>1, CompleteFacts
  <2>3. /\ y \in RouteType /\ y.at = "done" /\ y.started /\ y.tried = x.tried
        /\ y.replica = x.replica /\ y.attempt = x.attempt
    BY <1>2 DEF RouteType
  <2>4. Moved(r, y) /\ route'[r] = y
    <3>1. route \in [Task -> RouteType] /\ r \in Task
      BY <1>2, TaskFacts DEF Types, TypeOK
    <3> QED BY <1>9, <2>3, <3>1 DEF Moved, Finishes
  <2>5. /\ answer' \in [Request -> Status] /\ answer'[r] = CollectedStatus(ok)
        /\ \A q \in Request \ {r} : answer'[q] = answer[q]
    BY <1>2, <1>9, TypesParts DEF Answers, CollectedStatus, Status
  <2>6. RestTypes'
    BY <1>1, <1>3, <1>4, <1>6, <1>9, <2>2 DEF RestTypes
  <2>7. sent'[r] = << >> /\ Len(records'[r]) = 1
    BY <1>2, <1>9, <2>2 DEF RequestInv, Sending
  <2>8. y.at \notin Running /\ inFlight' = [inFlight EXCEPT ![owner[r]] = @ - 1]
    BY <2>1, <2>3 DEF Running, Slot
  <2> HIDE DEF y
  <2>9. RequestInv(r)'
    BY <1>2, <1>4, <1>5, <1>9, <2>3, <2>4, <2>5, <2>7, CollectedRow
  <2>10. Proceeds(r, y)
    BY <1>1, <1>2, <1>3, <1>4, <1>9, <2>2, <2>3, <2>4, <2>5, <2>6, <2>8, <2>9 DEF Proceeds
  <2> QED BY <2>10, StartedStep
<1> QED BY <1>7, <1>8, <1>9 DEF AttemptFails, Retries

LEMMA YieldsStep ==
  ASSUME GInv, NEW r \in Request, NEW kind \in Kinds, Yields(r, kind)
  PROVE  StepInv
<1> DEFINE x == route[r]
<1>1. /\ x.at = "attempt" /\ (kind = "delta" => count[r] < MaxTokens)
      /\ UNCHANGED <<owner, now, poolVars, rpm>>
  BY DEF Yields
<1>2. /\ Types /\ Quotas /\ RequestInv(r) /\ Heard(r) /\ x \in RouteType
      /\ x.replica \in x.tried /\ x.replica \in Replica /\ x.attempt = Cardinality(x.tried)
      /\ Len(records[r]) = 0 /\ count[r] \in Nat /\ count[r] <= MaxTokens /\ x.at \in Running
  BY <1>1, AttemptFacts
<1>3. RestTypes /\ PoolStep /\ answer \in [Request -> Status] /\ Verdicts(r)
  BY <1>1, <1>2, TypesParts, PoolKept DEF RequestInv
<1>4. route \in [Task -> RouteType] /\ r \in Task
  BY <1>2, TaskFacts DEF Types, TypeOK
<1>5. PICK n \in FinalCount(r, kind) :
        /\ count' = [count EXCEPT ![r] = n]
        /\ IF kind = "delta" THEN UNCHANGED ended
           ELSE Ends(r, IF kind = "final" THEN "ok" ELSE "failed")
        /\ \/ /\ r \in Streamed
              /\ route' = [route EXCEPT ![r] = [x EXCEPT !.at = "yielded", !.started = TRUE]]
              /\ event' = [event EXCEPT ![r] = kind]
              /\ sent' = [sent EXCEPT ![r] = Append(@, Chunk(r, kind))]
              /\ Answers(r, 200)
              /\ UNCHANGED <<tpm, charged, spent, inFlight, records, told>>
           \/ /\ r \notin Streamed /\ kind = "delta"
              /\ route' = [route EXCEPT ![r].started = TRUE]
              /\ UNCHANGED <<tpm, charged, spent, inFlight, records, event, told, answer, sent>>
           \/ /\ r \notin Streamed /\ kind # "delta"
              /\ Tell(r, kind = "final") /\ Answers(r, CollectedStatus(kind = "final"))
              /\ Finishes(r, n, IF kind = "final" THEN "ok" ELSE "error")
              /\ UNCHANGED <<event, sent>>
  BY DEF Yields
<1>6. n \in 0 .. MaxTokens + 1 /\ n \in Nat /\ (kind = "delta" => n <= MaxTokens)
  BY <1>1, <1>2, GatewayLimits DEF FinalCount
<1>7. /\ count' \in [Request -> 0 .. MaxTokens + 1] /\ count'[r] = n
      /\ \A q \in Request \ {r} : count'[q] = count[q]
  BY <1>3, <1>5, <1>6 DEF RestTypes
<1>8. /\ Len(told[r]) \in Nat /\ Len(ended[r]) \in Nat /\ Len(told[r]) = Len(ended[r])
      /\ TrueSoFar(r)
  BY <1>2, RowTypes DEF Heard
<1>9. CASE /\ r \in Streamed
           /\ route' = [route EXCEPT ![r] = [x EXCEPT !.at = "yielded", !.started = TRUE]]
           /\ event' = [event EXCEPT ![r] = kind]
           /\ sent' = [sent EXCEPT ![r] = Append(@, Chunk(r, kind))]
           /\ Answers(r, 200)
           /\ UNCHANGED <<tpm, charged, spent, inFlight, records, told>>
  <2> DEFINE y == [x EXCEPT !.at = "yielded", !.started = TRUE]
  <2>1. /\ sent' \in [Request -> Seq(ChunkType)]
        /\ \A q \in Request \ {r} : sent'[q] = sent[q]
        /\ sent'[r] # << >> /\ sent'[r][Len(sent'[r])].kind = kind
        /\ \A i \in DOMAIN sent'[r] :
             /\ sent'[r][i].replica = x.replica
             /\ i < Len(sent'[r]) => sent'[r][i].kind = "delta"
    BY <1>1, <1>2, <1>9, ChunkSent DEF RequestInv
  <2>2. /\ y \in RouteType /\ y.at = "yielded" /\ y.started /\ y.tried = x.tried
        /\ y.replica = x.replica /\ y.attempt = x.attempt
    BY <1>2 DEF RouteType
  <2>3. Moved(r, y) /\ route'[r] = y
    BY <1>4, <1>9, <2>2 DEF Moved
  <2>4. /\ event' \in [Request -> {"none", "delta", "final", "failure"}] /\ event'[r] = kind
        /\ \A q \in Request \ {r} : event'[q] = event[q]
    BY <1>3, <1>9 DEF RestTypes, Kinds
  <2>5. /\ answer' \in [Request -> Status] /\ answer'[r] = 200
        /\ \A q \in Request \ {r} : answer'[q] = answer[q]
    BY <1>3, <1>9 DEF Answers, Status
  <2>6. /\ ended' \in [Request -> Seq(How)] /\ TrueSoFar(r)'
        /\ \A q \in Request \ {r} : ended'[q] = ended[q]
        /\ kind = "delta" => Len(ended'[r]) = Len(told'[r])
        /\ kind # "delta" => Len(ended'[r]) = Len(told'[r]) + 1
        /\ kind = "final" => ended'[r][Len(ended'[r])] = "ok"
    <3>1. CASE kind = "delta"
      BY <1>3, <1>5, <1>8, <1>9, <3>1 DEF RestTypes, TrueSoFar
    <3>2. CASE kind # "delta"
      <4> DEFINE how == IF kind = "final" THEN "ok" ELSE "failed"
      <4>1. how \in How /\ Ends(r, how) /\ told'[r] = told[r] /\ (kind = "final" => how = "ok")
        BY <1>5, <1>9, <3>2 DEF How
      <4> HIDE DEF how
      <4>2. /\ TrueSoFar(r)' /\ ended' \in [Request -> Seq(How)]
            /\ ended'[r][Len(ended'[r])] = how
            /\ Len(ended'[r]) = Len(ended[r]) + 1
            /\ \A q \in Request \ {r} : ended'[q] = ended[q]
        BY <1>2, <1>3, <4>1, VerdictDue
      <4> QED BY <1>8, <3>2, <4>1, <4>2
    <3> QED BY <3>1, <3>2
  <2>7. RestTypes'
    BY <1>1, <1>3, <1>7, <1>9, <2>1, <2>4, <2>6 DEF RestTypes, poolVars
  <2>8. Quotas'
    BY <1>1, <1>2, <1>9 DEF Quotas, Budget
  <2>9. /\ Len(told'[r]) <= Len(ended'[r]) /\ Len(ended'[r]) <= Len(told'[r]) + 1
        /\ kind = "final" => Len(ended'[r]) = Len(told'[r]) + 1
    BY <1>8, <1>9, <2>6
  <2>10. y.at \in Running
    BY <2>2 DEF Running
  <2> HIDE DEF y
  <2>11. Suspends(r, kind)
    BY <1>2, <1>6, <1>7, <1>9, <2>1, <2>2, <2>3, <2>4, <2>5, <2>6, <2>9 DEF Suspends
  <2>12. Proceeds(r, y)
    BY <1>1, <1>2, <1>3, <1>7, <1>9, <2>1, <2>2, <2>3, <2>4, <2>5, <2>6, <2>7, <2>8, <2>10, <2>11,
       YieldedRow DEF Proceeds
  <2> QED BY <2>12, StartedStep
<1>10. CASE /\ r \notin Streamed /\ kind = "delta"
            /\ route' = [route EXCEPT ![r].started = TRUE]
            /\ UNCHANGED <<tpm, charged, spent, inFlight, records, event, told, answer, sent>>
  <2> DEFINE y == [x EXCEPT !.started = TRUE]
  <2>1. /\ y \in RouteType /\ y.at = "attempt" /\ y.started /\ y.tried = x.tried
        /\ y.replica = x.replica /\ y.attempt = x.attempt
    BY <1>1, <1>2 DEF RouteType
  <2>2. Moved(r, y) /\ route'[r] = y
    BY <1>4, <1>10, <2>1 DEF Moved
  <2>3. ended' = ended /\ RestTypes' /\ Quotas' /\ answer' \in [Request -> Status]
    BY <1>1, <1>2, <1>3, <1>5, <1>7, <1>10 DEF RestTypes, poolVars, Quotas, Budget
  <2> HIDE DEF y
  <2>4. Shape(r)'
    BY <1>2, <2>1, <2>2 DEF Shape
  <2>5. Sending(r)'
    BY <1>1, <1>2, <1>6, <1>7, <1>10, <2>1, <2>2, <2>3 DEF RequestInv, Sending
  <2>6. TrueSoFar(r)'
    BY <1>8, <1>10, <2>3 DEF TrueSoFar
  <2>7. Verdicts(r)'
    <3>1. /\ Len(told'[r]) = Len(ended'[r]) /\ Len(told'[r]) <= Len(ended'[r])
          /\ Len(ended'[r]) <= Len(told'[r]) + 1
      BY <1>8, <1>10, <2>3
    <3> QED BY <2>1, <2>2, <2>6, <3>1 DEF Verdicts
  <2>8. Answered(r)'
    BY <1>1, <1>2, <1>10, <2>1, <2>2 DEF RequestInv, Answered
  <2>9. y.at \in Running
    BY <2>1 DEF Running
  <2>10. Proceeds(r, y)
    BY <1>1, <1>2, <1>3, <1>7, <1>10, <2>1, <2>2, <2>3, <2>4, <2>5, <2>7, <2>8, <2>9 DEF Proceeds, RequestInv
  <2> QED BY <2>10, StartedStep
<1>11. CASE /\ r \notin Streamed /\ kind # "delta"
            /\ Tell(r, kind = "final") /\ Answers(r, CollectedStatus(kind = "final"))
            /\ Finishes(r, n, IF kind = "final" THEN "ok" ELSE "error")
            /\ UNCHANGED <<event, sent>>
  <2> DEFINE y == [x EXCEPT !.at = "done", !.started = TRUE]
             ok == kind = "final"
             how == IF kind = "final" THEN "ok" ELSE "failed"
             status == IF kind = "final" THEN "ok" ELSE "error"
  <2>1. /\ ok \in BOOLEAN /\ how \in How /\ (ok <=> how = "ok") /\ status \in {"ok", "error"}
        /\ Tell(r, ok) /\ Ends(r, how) /\ Answers(r, CollectedStatus(ok)) /\ Finishes(r, n, status)
    BY <1>5, <1>11 DEF How
  <2> HIDE DEF ok, how, status
  <2>2. /\ Heard(r)' /\ told' \in [Request -> Seq(BOOLEAN)] /\ ended' \in [Request -> Seq(How)]
        /\ told'[r] # << >> /\ told'[r][Len(told'[r])] = ok
        /\ ended'[r] # << >> /\ ended'[r][Len(ended'[r])] = how
        /\ Len(told'[r]) = Len(told[r]) + 1
        /\ \A q \in Request \ {r} : told'[q] = told[q] /\ ended'[q] = ended[q]
    BY <1>2, <2>1, VerdictGiven
  <2>3. /\ tpm' \in [Tenant -> Bucket] /\ charged' \in [Tenant -> Nat] /\ spent' \in [Tenant -> Nat] /\ Quotas'
        /\ records' \in [Request -> Seq(RecordType)]
        /\ Len(records'[r]) = Len(records[r]) + 1
        /\ \A q \in Request \ {r} : records'[q] = records[q]
    BY <1>1, <1>6, <2>1, CompleteFacts DEF Finishes
  <2>4. /\ y \in RouteType /\ y.at = "done" /\ y.started /\ y.tried = x.tried
        /\ y.replica = x.replica /\ y.attempt = x.attempt
    BY <1>2 DEF RouteType
  <2>5. Moved(r, y) /\ route'[r] = y
    BY <1>4, <2>1, <2>4 DEF Moved, Finishes
  <2>6. /\ answer' \in [Request -> Status] /\ answer'[r] = CollectedStatus(ok)
        /\ \A q \in Request \ {r} : answer'[q] = answer[q]
    BY <1>3, <2>1 DEF Answers, CollectedStatus, Status
  <2>7. RestTypes'
    BY <1>1, <1>3, <1>7, <1>11, <2>2, <2>3 DEF RestTypes, poolVars
  <2>8. sent'[r] = << >> /\ Len(records'[r]) = 1 /\ Len(told'[r]) \in Nat
    BY <1>2, <1>8, <1>11, <2>2, <2>3 DEF RequestInv, Sending
  <2>9. y.at \notin Running /\ inFlight' = [inFlight EXCEPT ![owner[r]] = @ - 1]
    BY <2>1, <2>4 DEF Running, Slot, Finishes
  <2> HIDE DEF y
  <2>10. RequestInv(r)'
    BY <1>2, <1>11, <2>1, <2>2, <2>4, <2>5, <2>6, <2>8, CollectedRow
  <2>11. Proceeds(r, y)
    BY <1>1, <1>2, <1>3, <1>7, <1>11, <2>2, <2>3, <2>4, <2>5, <2>6, <2>7, <2>9, <2>10 DEF Proceeds
  <2> QED BY <2>11, StartedStep
<1> QED BY <1>5, <1>9, <1>10, <1>11

\* A streamed request that has had its status is over, or waits to be finalized.
EndsStream(r) ==
  /\ r \in Streamed /\ route'[r].at \in {"closing", "done"} /\ route'[r].started
  /\ route'[r].replica \in route'[r].tried /\ route'[r].attempt = Cardinality(route'[r].tried)
  /\ \A i \in DOMAIN sent'[r] :
       /\ sent'[r][i].replica = route'[r].replica
       /\ i < Len(sent'[r]) => sent'[r][i].kind = "delta"
  /\ sent'[r] # << >> /\ sent'[r][Len(sent'[r])].kind = "delta"
       => ended'[r] # << >> /\ ended'[r][Len(ended'[r])] = "left"
  /\ TrueSoFar(r)' /\ Len(told'[r]) <= Len(ended'[r]) /\ Len(ended'[r]) <= Len(told'[r]) + 1
  /\ answer'[r] = 200 /\ Len(records'[r]) = 1

LEMMA EndedRow ==
  ASSUME NEW r \in Request, EndsStream(r)
  PROVE  RequestInv(r)'
<1> USE DEF EndsStream
<1>1. Shape(r)'
  BY DEF Shape
<1>2. Sending(r)'
  BY DEF Sending
<1>3. Verdicts(r)'
  BY DEF Verdicts
<1>4. Answered(r)'
  BY DEF Answered
<1> QED BY <1>1, <1>2, <1>3, <1>4 DEF RequestInv

\* A streamed request that has started and is not done.
LEMMA StreamFacts ==
  ASSUME GInv, NEW r \in Request, r \in Streamed, route[r].started,
         route[r].at \in {"attempt", "yielded", "closing"}
  PROVE  /\ Types /\ Quotas /\ RequestInv(r) /\ RestTypes /\ route[r] \in RouteType
         /\ route \in [Task -> RouteType] /\ r \in Task /\ answer \in [Request -> Status]
         /\ route[r].replica \in route[r].tried /\ route[r].attempt = Cardinality(route[r].tried)
         /\ Len(records[r]) = IF route[r].at = "closing" THEN 1 ELSE 0
         /\ answer[r] = 200 /\ count[r] \in Nat /\ route[r].at \in Running
         /\ TrueSoFar(r) /\ Len(told[r]) <= Len(ended[r]) /\ Len(ended[r]) <= Len(told[r]) + 1
         /\ Len(told[r]) \in Nat /\ Len(ended[r]) \in Nat
         /\ \A i \in DOMAIN sent[r] :
              /\ sent[r][i].replica = route[r].replica
              /\ i < Len(sent[r]) => sent[r][i].kind = "delta"
<1>1. Types /\ Quotas /\ RequestInv(r) /\ route[r] \in RouteType /\ count[r] \in 0 .. MaxTokens + 1
      /\ Len(told[r]) \in Nat /\ Len(ended[r]) \in Nat
  BY RowTypes DEF GInv
<1>2. RestTypes /\ route \in [Task -> RouteType] /\ r \in Task /\ answer \in [Request -> Status]
  BY <1>1, TypesParts, TaskFacts
<1>3. route[r].replica \in route[r].tried /\ route[r].attempt = Cardinality(route[r].tried)
  BY <1>1 DEF RequestInv, Shape
<1>4. Len(records[r]) = (IF route[r].at = "closing" THEN 1 ELSE 0) /\ answer[r] = 200
  BY <1>1 DEF RequestInv, Answered
<1>5. TrueSoFar(r) /\ Len(told[r]) <= Len(ended[r]) /\ Len(ended[r]) <= Len(told[r]) + 1
  BY <1>1 DEF RequestInv, Verdicts
<1>6. \A i \in DOMAIN sent[r] :
        /\ sent[r][i].replica = route[r].replica
        /\ i < Len(sent[r]) => sent[r][i].kind = "delta"
  BY <1>1 DEF RequestInv, Sending
<1>7. count[r] \in Nat /\ route[r].at \in Running
  BY <1>1 DEF Running
<1> QED BY <1>1, <1>2, <1>3, <1>4, <1>5, <1>6, <1>7

\* A record that has only the place changed, or the place and the mark of a start.
LEMMA MovesTo ==
  ASSUME NEW x \in RouteType, NEW at \in {"attempt", "yielded", "closing", "done"}
  PROVE  LET y == [x EXCEPT !.at = at]
             z == [x EXCEPT !.at = at, !.started = TRUE]
         IN  /\ y \in RouteType /\ y.at = at /\ y.started = x.started /\ y.tried = x.tried
             /\ y.replica = x.replica /\ y.attempt = x.attempt
             /\ z \in RouteType /\ z.at = at /\ z.started /\ z.tried = x.tried
             /\ z.replica = x.replica /\ z.attempt = x.attempt
BY DEF RouteType

LEMMA TakenStep ==
  ASSUME GInv, NEW r \in Request, Taken(r)
  PROVE  StepInv
<1> DEFINE x == route[r]
<1>1. x.at = "yielded" /\ UNCHANGED <<owner, now, poolVars, rpm, count, event, answer, ended, sent>>
  BY DEF Taken
<1>2. r \in Streamed /\ x.started
  BY <1>1 DEF GInv, RequestInv, Shape
<1>3. /\ Types /\ Quotas /\ RequestInv(r) /\ RestTypes /\ x \in RouteType
      /\ route \in [Task -> RouteType] /\ r \in Task /\ answer \in [Request -> Status]
      /\ x.replica \in x.tried /\ x.attempt = Cardinality(x.tried)
      /\ Len(records[r]) = 0 /\ answer[r] = 200 /\ count[r] \in Nat /\ x.at \in Running
      /\ TrueSoFar(r) /\ Len(told[r]) <= Len(ended[r]) /\ Len(ended[r]) <= Len(told[r]) + 1
      /\ Len(told[r]) \in Nat /\ Len(ended[r]) \in Nat
      /\ \A i \in DOMAIN sent[r] :
           /\ sent[r][i].replica = x.replica
           /\ i < Len(sent[r]) => sent[r][i].kind = "delta"
  BY <1>1, <1>2, StreamFacts
<1>4. PoolStep
  BY <1>1, PoolKept
<1>5. sent[r] # << >> /\ event[r] = sent[r][Len(sent[r])].kind
  BY <1>1, <1>3 DEF RequestInv, Sending
<1>6. CASE /\ event[r] = "delta"
           /\ route' = [route EXCEPT ![r].at = "attempt"]
           /\ UNCHANGED <<tpm, charged, spent, inFlight, records, told>>
  <2> DEFINE y == [x EXCEPT !.at = "attempt"]
  <2>1. /\ y \in RouteType /\ y.at = "attempt" /\ y.started = x.started /\ y.tried = x.tried
        /\ y.replica = x.replica /\ y.attempt = x.attempt
    BY <1>3, MovesTo
  <2>2. Moved(r, y) /\ route'[r] = y
    BY <1>3, <1>6, <2>1 DEF Moved
  <2>3. RestTypes' /\ Quotas'
    BY <1>1, <1>3, <1>6 DEF RestTypes, poolVars, Quotas, Budget
  <2> HIDE DEF y
  <2>4. Shape(r)'
    BY <1>3, <2>1, <2>2 DEF Shape
  <2>5. \A i \in DOMAIN sent[r] : sent[r][i].kind = "delta"
    <3>1. sent[r] \in Seq(ChunkType)
      BY <1>3, RowTypes
    <3>2. \A i \in DOMAIN sent[r] : i < Len(sent[r]) \/ i = Len(sent[r])
      BY <3>1
    <3> QED BY <1>3, <1>5, <1>6, <3>2
  <2>6. count[r] <= MaxTokens
    BY <1>1, <1>3, <1>6 DEF RequestInv, Sending
  <2>7. Sending(r)'
    BY <1>1, <1>2, <1>3, <2>1, <2>2, <2>5, <2>6 DEF Sending
  <2>8. Len(told[r]) = Len(ended[r])
    BY <1>1, <1>3, <1>6 DEF RequestInv, Verdicts
  <2>9. TrueSoFar(r)' /\ told'[r] = told[r] /\ ended'[r] = ended[r]
    BY <1>1, <1>3, <1>6 DEF TrueSoFar
  <2>10. Verdicts(r)'
    BY <1>2, <1>3, <2>1, <2>2, <2>8, <2>9 DEF Verdicts
  <2>11. Answered(r)'
    BY <1>1, <1>2, <1>3, <1>6, <2>1, <2>2 DEF Answered
  <2>12. y.at \in Running
    BY <2>1 DEF Running
  <2>13. Proceeds(r, y)
    BY <1>1, <1>3, <1>4, <1>6, <2>1, <2>2, <2>3, <2>4, <2>7, <2>10, <2>11, <2>12 DEF Proceeds, RequestInv
  <2> QED BY <2>13, StartedStep
<1>7. CASE event[r] = "final" /\ Tell(r, TRUE) /\ Finishes(r, count[r], "ok")
  <2> DEFINE y == [x EXCEPT !.at = "done", !.started = TRUE]
  <2>1. /\ y \in RouteType /\ y.at = "done" /\ y.started /\ y.tried = x.tried
        /\ y.replica = x.replica /\ y.attempt = x.attempt
    BY <1>3, MovesTo
  <2>2. Moved(r, y) /\ route'[r] = y
    BY <1>3, <1>7, <2>1 DEF Moved, Finishes
  <2>3. Len(ended[r]) = Len(told[r]) + 1 /\ ended[r][Len(ended[r])] = "ok" /\ Verdicts(r)
    BY <1>1, <1>3, <1>7 DEF RequestInv, Verdicts
  <2>4. /\ Heard(r)' /\ told' \in [Request -> Seq(BOOLEAN)]
        /\ \A q \in Request \ {r} : told'[q] = told[q]
    BY <1>1, <1>3, <1>7, <2>3, VerdictCaughtUp
  <2>5. /\ tpm' \in [Tenant -> Bucket] /\ charged' \in [Tenant -> Nat] /\ spent' \in [Tenant -> Nat] /\ Quotas'
        /\ records' \in [Request -> Seq(RecordType)]
        /\ Len(records'[r]) = Len(records[r]) + 1
        /\ \A q \in Request \ {r} : records'[q] = records[q]
    BY <1>1, <1>3, <1>7, CompleteFacts DEF Finishes
  <2>6. RestTypes'
    BY <1>1, <1>3, <2>4, <2>5 DEF RestTypes, poolVars
  <2>7. y.at \notin Running /\ inFlight' = [inFlight EXCEPT ![owner[r]] = @ - 1]
    BY <1>7, <2>1 DEF Running, Slot, Finishes
  <2>8. /\ TrueSoFar(r)' /\ Len(told'[r]) <= Len(ended'[r]) /\ Len(ended'[r]) <= Len(told'[r]) + 1
    <3>1. Len(told'[r]) = Len(ended'[r]) /\ TrueSoFar(r)' /\ ended'[r] = ended[r]
      BY <1>1, <2>4 DEF Heard
    <3> QED BY <1>3, <3>1
  <2> HIDE DEF y
  <2>9. EndsStream(r)
    BY <1>1, <1>2, <1>3, <1>5, <1>7, <2>1, <2>2, <2>5, <2>8 DEF EndsStream
  <2>10. Proceeds(r, y)
    BY <1>1, <1>3, <1>4, <2>1, <2>2, <2>4, <2>5, <2>6, <2>7, <2>9, EndedRow DEF Proceeds
  <2> QED BY <2>10, StartedStep
<1>8. CASE /\ event[r] = "failure"
           /\ Complete(r, count[r], "error")
           /\ route' = [route EXCEPT ![r].at = "closing"]
           /\ UNCHANGED <<inFlight, told>>
  <2> DEFINE y == [x EXCEPT !.at = "closing"]
  <2>1. /\ y \in RouteType /\ y.at = "closing" /\ y.started = x.started /\ y.tried = x.tried
        /\ y.replica = x.replica /\ y.attempt = x.attempt
    BY <1>3, MovesTo
  <2>2. Moved(r, y) /\ route'[r] = y
    BY <1>3, <1>8, <2>1 DEF Moved
  <2>3. /\ tpm' \in [Tenant -> Bucket] /\ charged' \in [Tenant -> Nat] /\ spent' \in [Tenant -> Nat] /\ Quotas'
        /\ records' \in [Request -> Seq(RecordType)]
        /\ Len(records'[r]) = Len(records[r]) + 1
        /\ \A q \in Request \ {r} : records'[q] = records[q]
    BY <1>1, <1>3, <1>8, CompleteFacts
  <2>4. RestTypes'
    BY <1>1, <1>3, <1>8, <2>3 DEF RestTypes, poolVars
  <2>5. y.at \in Running
    BY <2>1 DEF Running
  <2>6. TrueSoFar(r)' /\ told'[r] = told[r] /\ ended'[r] = ended[r]
    BY <1>1, <1>3, <1>8 DEF TrueSoFar
  <2> HIDE DEF y
  <2>7. EndsStream(r)
    BY <1>1, <1>2, <1>3, <1>5, <1>8, <2>1, <2>2, <2>3, <2>6 DEF EndsStream
  <2>8. Proceeds(r, y)
    BY <1>1, <1>3, <1>4, <1>8, <2>1, <2>2, <2>3, <2>4, <2>5, <2>7, EndedRow DEF Proceeds
  <2> QED BY <2>8, StartedStep
<1> QED BY <1>6, <1>7, <1>8 DEF Taken

LEMMA DisconnectsStep ==
  ASSUME GInv, NEW r \in Request, Disconnects(r)
  PROVE  StepInv
<1> DEFINE x == route[r]
           left == "left"
<1>1. /\ r \in Streamed /\ x.started /\ x.at \in {"attempt", "yielded"}
      /\ UNCHANGED <<owner, now, poolVars, rpm, count, event, told, answer, sent>>
  BY DEF Disconnects
<1>2. /\ Types /\ Quotas /\ RequestInv(r) /\ RestTypes /\ x \in RouteType
      /\ route \in [Task -> RouteType] /\ r \in Task /\ answer \in [Request -> Status]
      /\ x.replica \in x.tried /\ x.attempt = Cardinality(x.tried)
      /\ Len(records[r]) = 0 /\ answer[r] = 200 /\ count[r] \in Nat /\ x.at \in Running
      /\ TrueSoFar(r) /\ Len(told[r]) <= Len(ended[r]) /\ Len(ended[r]) <= Len(told[r]) + 1
      /\ Len(told[r]) \in Nat /\ Len(ended[r]) \in Nat
      /\ \A i \in DOMAIN sent[r] :
           /\ sent[r][i].replica = x.replica
           /\ i < Len(sent[r]) => sent[r][i].kind = "delta"
  BY <1>1, StreamFacts
<1>3. PoolStep /\ Verdicts(r) /\ left \in How
  BY <1>1, <1>2, PoolKept DEF RequestInv, How
<1>4. /\ TrueSoFar(r)' /\ Len(told'[r]) <= Len(ended'[r]) /\ Len(ended'[r]) <= Len(told'[r]) + 1
      /\ ended' \in [Request -> Seq(How)] /\ \A q \in Request \ {r} : ended'[q] = ended[q]
      /\ sent'[r] # << >> /\ sent'[r][Len(sent'[r])].kind = "delta"
           => ended'[r] # << >> /\ ended'[r][Len(ended'[r])] = "left"
  <2>1. CASE x.at = "attempt" \/ event[r] = "delta"
    <3>1. Len(told[r]) = Len(ended[r])
      BY <1>1, <1>3, <2>1 DEF Verdicts
    <3>2. Ends(r, left) /\ told'[r] = told[r]
      BY <1>1, <2>1 DEF Disconnects
    <3>3. /\ TrueSoFar(r)' /\ ended' \in [Request -> Seq(How)]
          /\ ended'[r] # << >> /\ ended'[r][Len(ended'[r])] = left
          /\ Len(ended'[r]) = Len(ended[r]) + 1
          /\ \A q \in Request \ {r} : ended'[q] = ended[q]
      BY <1>2, <1>3, <3>2, VerdictDue
    <3> QED BY <1>2, <3>1, <3>2, <3>3
  <2>2. CASE ~(x.at = "attempt" \/ event[r] = "delta")
    <3>1. ended' = ended /\ told'[r] = told[r] /\ sent' = sent
      BY <1>1, <2>2 DEF Disconnects
    <3>2. sent[r] # << >> /\ event[r] = sent[r][Len(sent[r])].kind
      BY <1>1, <1>2, <2>2 DEF RequestInv, Sending
    <3>3. TrueSoFar(r)' /\ ended' \in [Request -> Seq(How)]
      BY <1>2, <3>1 DEF TrueSoFar, RestTypes
    <3> QED BY <1>2, <2>2, <3>1, <3>2, <3>3
  <2> QED BY <2>1, <2>2
<1>5. CASE x.at = "attempt" /\ Finishes(r, count[r], "ok")
  <2> DEFINE y == [x EXCEPT !.at = "done", !.started = TRUE]
  <2>1. /\ y \in RouteType /\ y.at = "done" /\ y.started /\ y.tried = x.tried
        /\ y.replica = x.replica /\ y.attempt = x.attempt
    BY <1>2, MovesTo
  <2>2. Moved(r, y) /\ route'[r] = y
    BY <1>2, <1>5, <2>1 DEF Moved, Finishes
  <2>3. /\ tpm' \in [Tenant -> Bucket] /\ charged' \in [Tenant -> Nat] /\ spent' \in [Tenant -> Nat] /\ Quotas'
        /\ records' \in [Request -> Seq(RecordType)]
        /\ Len(records'[r]) = Len(records[r]) + 1
        /\ \A q \in Request \ {r} : records'[q] = records[q]
    BY <1>1, <1>2, <1>5, CompleteFacts DEF Finishes
  <2>4. RestTypes'
    BY <1>1, <1>2, <1>4, <2>3 DEF RestTypes, poolVars
  <2>5. y.at \notin Running /\ inFlight' = [inFlight EXCEPT ![owner[r]] = @ - 1]
    BY <1>5, <2>1 DEF Running, Slot, Finishes
  <2> HIDE DEF y
  <2>6. EndsStream(r)
    BY <1>1, <1>2, <1>4, <2>1, <2>2, <2>3 DEF EndsStream
  <2>7. Proceeds(r, y)
    BY <1>1, <1>2, <1>3, <1>4, <2>1, <2>2, <2>3, <2>4, <2>5, <2>6, EndedRow DEF Proceeds
  <2> QED BY <2>7, StartedStep
<1>6. CASE /\ x.at = "yielded"
           /\ Complete(r, count[r], IF event[r] = "failure" THEN "error" ELSE "ok")
           /\ route' = [route EXCEPT ![r].at = "closing"]
           /\ UNCHANGED inFlight
  <2> DEFINE y == [x EXCEPT !.at = "closing"]
             status == IF event[r] = "failure" THEN "error" ELSE "ok"
  <2>1. /\ y \in RouteType /\ y.at = "closing" /\ y.started = x.started /\ y.tried = x.tried
        /\ y.replica = x.replica /\ y.attempt = x.attempt
    BY <1>2, MovesTo
  <2>2. Moved(r, y) /\ route'[r] = y
    BY <1>2, <1>6, <2>1 DEF Moved
  <2>3. /\ status \in {"ok", "error"} /\ Complete(r, count[r], status)
        /\ count[r] \in Nat /\ now' = now /\ rpm' = rpm
    BY <1>1, <1>2, <1>6
  <2> HIDE DEF status
  <2>4. /\ tpm' \in [Tenant -> Bucket] /\ charged' \in [Tenant -> Nat] /\ spent' \in [Tenant -> Nat] /\ Quotas'
        /\ records' \in [Request -> Seq(RecordType)]
        /\ Len(records'[r]) = Len(records[r]) + 1
        /\ \A q \in Request \ {r} : records'[q] = records[q]
    BY <2>3, CompleteFacts
  <2>5. RestTypes'
    BY <1>1, <1>2, <1>4, <2>4 DEF RestTypes, poolVars
  <2>6. y.at \in Running
    BY <2>1 DEF Running
  <2> HIDE DEF y
  <2>7. EndsStream(r)
    <3>1. /\ route'[r].at = "closing" /\ route'[r].started /\ route'[r].replica \in route'[r].tried
          /\ route'[r].attempt = Cardinality(route'[r].tried) /\ route'[r].replica = x.replica
      BY <1>1, <1>2, <2>1, <2>2
    <3>2. sent'[r] = sent[r] /\ answer'[r] = 200 /\ Len(records'[r]) = 1
      BY <1>1, <1>2, <2>4
    <3> QED BY <1>1, <1>2, <1>4, <3>1, <3>2 DEF EndsStream
  <2>8. Proceeds(r, y)
    BY <1>1, <1>2, <1>3, <1>4, <1>6, <2>1, <2>2, <2>4, <2>5, <2>6, <2>7, EndedRow DEF Proceeds
  <2> QED BY <2>8, StartedStep
<1> QED BY <1>5, <1>6 DEF Disconnects

LEMMA FinalizedStep ==
  ASSUME GInv, NEW r \in Request, Finalized(r)
  PROVE  StepInv
<1> DEFINE x == route[r]
           y == [x EXCEPT !.at = "done"]
<1>1. /\ x.at = "closing" /\ Slot(owner[r], TRUE) /\ route' = [route EXCEPT ![r].at = "done"]
      /\ UNCHANGED <<owner, now, poolVars, rpm, tpm, charged, spent, bookVars>>
  BY DEF Finalized
<1>2. r \in Streamed /\ x.started
  BY <1>1 DEF GInv, RequestInv, Shape
<1>3. /\ Types /\ Quotas /\ RequestInv(r) /\ RestTypes /\ x \in RouteType
      /\ route \in [Task -> RouteType] /\ r \in Task /\ answer \in [Request -> Status]
      /\ x.replica \in x.tried /\ x.attempt = Cardinality(x.tried)
      /\ Len(records[r]) = 1 /\ answer[r] = 200 /\ count[r] \in Nat /\ x.at \in Running
      /\ TrueSoFar(r) /\ Len(told[r]) <= Len(ended[r]) /\ Len(ended[r]) <= Len(told[r]) + 1
      /\ \A i \in DOMAIN sent[r] :
           /\ sent[r][i].replica = x.replica
           /\ i < Len(sent[r]) => sent[r][i].kind = "delta"
  BY <1>1, <1>2, StreamFacts
<1>4. PoolStep
  BY <1>1, PoolKept
<1>5. /\ y \in RouteType /\ y.at = "done" /\ y.started = x.started /\ y.tried = x.tried
      /\ y.replica = x.replica /\ y.attempt = x.attempt
  BY <1>3, MovesTo
<1>6. Moved(r, y) /\ route'[r] = y
  BY <1>1, <1>3, <1>5 DEF Moved
<1>7. RestTypes' /\ Quotas'
  BY <1>1, <1>3 DEF RestTypes, poolVars, bookVars, Quotas, Budget
<1>8. sent[r] # << >> /\ sent[r][Len(sent[r])].kind = "delta"
        => ended[r] # << >> /\ ended[r][Len(ended[r])] = "left"
  BY <1>1, <1>3 DEF RequestInv, Sending
<1>9. TrueSoFar(r)'
  BY <1>1, <1>3 DEF TrueSoFar, bookVars
<1>10. y.at \notin Running /\ inFlight' = [inFlight EXCEPT ![owner[r]] = @ - 1]
  BY <1>1, <1>5 DEF Running, Slot
<1> HIDE DEF y
<1>11. EndsStream(r)
  BY <1>1, <1>2, <1>3, <1>5, <1>6, <1>8, <1>9 DEF EndsStream, bookVars
<1>12. Proceeds(r, y)
  BY <1>1, <1>3, <1>4, <1>5, <1>6, <1>7, <1>10, <1>11, EndedRow DEF Proceeds, bookVars
<1> QED BY <1>12, StartedStep

----------------------------------------------------------------------------
(* The theorems                                                            *)

LEMMA NextStep ==
  ASSUME GInv, [Next]_vars
  PROVE  StepInv
<1>1. ASSUME NEW r \in Request, Arrive(r) PROVE StepInv
  BY <1>1, ArriveStep
<1>2. ASSUME NEW r \in Request, Taken(r) PROVE StepInv
  BY <1>2, TakenStep
<1>3. ASSUME NEW r \in Request, Disconnects(r) PROVE StepInv
  BY <1>3, DisconnectsStep
<1>4. ASSUME NEW r \in Request, Finalized(r) PROVE StepInv
  BY <1>4, FinalizedStep
<1>5. ASSUME NEW r \in Request, NEW alive \in BOOLEAN, ProbeReturns(r, alive) PROVE StepInv
  BY <1>5, ProbeReturnsStep
<1>6. ASSUME NEW r \in Request, NEW status \in {401, 403, 404}, Denied(r, status) PROVE StepInv
  BY <1>6, DeniedStep
<1>7. ASSUME NEW r \in Request, NEW kind \in Errors, AttemptFails(r, kind) PROVE StepInv
  BY <1>7, AttemptFailsStep
<1>8. ASSUME NEW r \in Request, NEW kind \in Kinds, Yields(r, kind) PROVE StepInv
  BY <1>8, YieldsStep
<1>9. ASSUME NEW alive \in BOOLEAN, ReadyProbed(alive) PROVE StepInv
  BY <1>9, ReadyProbedStep
<1>10. CASE AsksReady
  BY <1>10, AsksReadyStep
<1>11. CASE Tick
  BY <1>11, TickStep
<1>12. CASE Rests \/ UNCHANGED vars
  BY <1>12, StutterStep DEF Rests
<1> QED BY <1>1, <1>2, <1>3, <1>4, <1>5, <1>6, <1>7, <1>8, <1>9, <1>10, <1>11, <1>12 DEF Next

LEMMA GatewayInductive == Spec => []GInv
<1>1. GInv /\ [Next]_vars => GInv'
  BY NextStep DEF StepInv
<1> QED BY <1>1, InitInv, PTL DEF Spec

\* The last element of a sequence that has one.
LEMMA LastOf ==
  ASSUME NEW s
  PROVE  Last(s) = s[Len(s)]
BY DEF Last

\* A request's attempts are on different replicas; all a client is sent comes from one of
\* them, ends with the only terminating event, and lacks it only if the client left: the
\* loop of ModelRouter.generate never retries a stream that has yielded.
THEOREM EachClientOneCompletion == Spec => []OneCompletion
<1>1. GInv => OneCompletion
  <2> SUFFICES ASSUME GInv, NEW r \in Request
               PROVE  /\ route[r].attempt = Cardinality(route[r].tried)
                      /\ \A i \in DOMAIN sent[r] :
                           /\ sent[r][i].replica = sent[r][1].replica
                           /\ i < Len(sent[r]) => sent[r][i].kind = "delta"
                      /\ route[r].at = "done" /\ sent[r] # << >> /\ Last(sent[r]).kind = "delta"
                           => Last(ended[r]) = "left"
    BY DEF OneCompletion
  <2>1. Shape(r) /\ Sending(r) /\ sent[r] \in Seq(ChunkType)
    BY RowTypes DEF GInv, RequestInv
  <2>2. route[r].attempt = Cardinality(route[r].tried)
    BY <2>1 DEF Shape
  <2>3. \A i \in DOMAIN sent[r] : 1 \in DOMAIN sent[r]
    BY <2>1
  <2>4. \A i \in DOMAIN sent[r] :
          /\ sent[r][i].replica = sent[r][1].replica
          /\ i < Len(sent[r]) => sent[r][i].kind = "delta"
    BY <2>1, <2>3 DEF Sending
  <2>5. route[r].at = "done" /\ sent[r] # << >> /\ Last(sent[r]).kind = "delta"
          => Last(ended[r]) = "left"
    BY <2>1, LastOf DEF Sending
  <2> QED BY <2>2, <2>4, <2>5
<1> QED BY <1>1, GatewayInductive, PTL

\* The statuses of app.py are true (a collected 200 is a whole completion, a client told to
\* come back or to mend its request has had nothing and is not billed), and the verdicts
\* _observe gives the canary controller are those of the attempts, in order, none twice.
THEOREM StatusesAndVerdictsTrue == Spec => []ToldTrue
<1>1. GInv => ToldTrue
  <2> SUFFICES ASSUME GInv PROVE AnswersTrue /\ VerdictsTrue
    BY DEF ToldTrue
  <2>1. ASSUME NEW r \in Request
        PROVE  /\ Len(told[r]) <= Len(ended[r])
               /\ \A i \in DOMAIN told[r] : told[r][i] <=> ended[r][i] = "ok"
               /\ route[r].at = "done" =>
                    Len(told[r]) >= Len(ended[r]) - (IF r \in Streamed THEN 1 ELSE 0)
    <3>1. Verdicts(r) /\ told[r] \in Seq(BOOLEAN) /\ Len(told[r]) \in Nat /\ Len(ended[r]) \in Nat
      BY RowTypes DEF GInv, RequestInv
    <3>2. DOMAIN told[r] = 1 .. Len(told[r])
      BY <3>1
    <3>3. TrueSoFar(r) /\ Len(told[r]) <= Len(ended[r]) /\ Len(ended[r]) <= Len(told[r]) + 1
          /\ (r \notin Streamed => Len(ended[r]) = Len(told[r]))
      BY <3>1 DEF Verdicts
    <3>4. \A i \in DOMAIN told[r] : told[r][i] <=> ended[r][i] = "ok"
      BY <3>2, <3>3 DEF TrueSoFar
    <3>5. CASE r \in Streamed
      BY <3>1, <3>3, <3>4, <3>5
    <3>6. CASE r \notin Streamed
      BY <3>1, <3>3, <3>4, <3>6
    <3> QED BY <3>5, <3>6
  <2>2. VerdictsTrue
    BY <2>1 DEF VerdictsTrue
  <2>3. ASSUME NEW r \in Request
        PROVE  LET x == route[r]
               IN  /\ answer[r] = 0 <=> x.at # "done" /\ ~(r \in Streamed /\ x.started)
                   /\ answer[r] = 200 /\ r \notin Streamed => Last(ended[r]) = "ok"
                   /\ answer[r] \notin {0, 200, 502} => records[r] = << >> /\ sent[r] = << >>
                   /\ answer[r] \in {400, 502} => told[r] # << >> /\ ~Last(told[r])
                   /\ x.at = "done" /\ x.tried = {} => answer[r] \in {401, 403, 404, 429, 503}
    <3>1. Answered(r) /\ Sending(r) /\ records[r] \in Seq(RecordType)
      BY RowTypes DEF GInv, RequestInv
    <3>2. Len(records[r]) = 0 => records[r] = << >>
      BY <3>1
    <3>3. answer[r] \notin {0, 200, 502} => Len(records[r]) = 0 /\ sent[r] = << >>
      BY <3>1 DEF Answered, Sending
    <3> QED BY <3>1, <3>2, <3>3, LastOf DEF Answered
  <2>4. AnswersTrue
    BY <2>3 DEF AnswersTrue
  <2> QED BY <2>2, <2>4
<1> QED BY <1>1, GatewayInductive, PTL

\* _mark_failure ejects: no request is routed to a replica within HealthTTL of a failure it
\* was condemned for, unless a probe that was under way at the failure has answered since.
THEOREM FailedReplicasLeftAlone == Spec => EjectionHolds
<1>1. ASSUME GInv, [Next]_vars, NEW r \in Request, route[r].tried # route'[r].tried
      PROVE  now - failedAt'[route'[r].replica] >= HealthTTL
  <2>1. StepInv
    BY <1>1, NextStep
  <2>2. route'[r].replica \in Replica /\ healthy'[route'[r].replica] /\ now' = now
    BY <1>1, <2>1 DEF StepInv, ChosenHealthy
  <2>3. ~(now' - failedAt'[route'[r].replica] < HealthTTL)
    BY <2>1, <2>2 DEF StepInv, GInv, Ejected
  <2>4. now \in Int /\ failedAt'[route'[r].replica] \in Int /\ HealthTTL \in Int
    BY <1>1, <2>1, <2>2, RouterSizes DEF StepInv, GInv, Types, TypeOK
  <2> QED BY <2>2, <2>3, <2>4
<1>2. GInv /\ [Next]_vars =>
        [\A r \in Request : route[r].tried # route'[r].tried =>
           now - failedAt'[route'[r].replica] >= HealthTTL]_vars
  BY <1>1
<1> QED BY <1>2, GatewayInductive, PTL DEF Spec, EjectionHolds

\* A tenant's limits hold on every path: TenantLimiter._in_flight is the number of requests
\* under way, on every way out of the slot() context, and within the limit; the prompts that
\* check_request has admitted stay within the burst and what was refilled since the start;
\* and an amount that was refused fits after the Retry-After and not a tick before.
THEOREM LimitsHold == Spec => []LimitsInv
<1>1. GInv => LimitsInv
  <2> SUFFICES ASSUME GInv PROVE WithinBudget /\ RetryHonest
    BY DEF GInv, Types, LimitsInv
  <2>1. Types /\ Quotas
    BY DEF GInv
  <2>2. WithinBudget
    BY <2>1 DEF Quotas, Budget, WithinBudget
  <2>3. ASSUME NEW t \in Tenant, NEW amount \in 1 .. Tpm[t]
        PROVE  LET wait == RetryAfter(tpm[t], Tpm[t], Rate, now, amount)
                   LevelIn(k) == Level(tpm[t], Tpm[t], Rate, now + k)
               IN  LevelIn(wait) >= amount /\ (wait > 0 => LevelIn(wait - 1) < amount)
    <3>1. tpm[t] \in Bucket /\ tpm[t].updated <= now /\ now \in Nat /\ Tpm[t] \in Nat
      BY <2>1, GatewayLimits DEF Quotas, Types, TypeOK
    <3> QED BY <3>1, RetryWait
  <2>4. RetryHonest
    BY <2>3 DEF RetryHonest
  <2> QED BY <2>2, <2>4
<1> QED BY <1>1, GatewayInductive, PTL

\* Whoever has had an event has one record when the request is over, and nobody else has:
\* _Session.complete runs once, whoever ends the response.
THEOREM RecordedOnce ==
  Spec => [](\A r \in Request :
    Len(records[r]) = IF route[r].started /\ route[r].at \in {"closing", "done"} THEN 1 ELSE 0)
<1>1. GInv => \A r \in Request :
        Len(records[r]) = IF route[r].started /\ route[r].at \in {"closing", "done"} THEN 1 ELSE 0
  BY DEF GInv, RequestInv, Answered
<1> QED BY <1>1, GatewayInductive, PTL
=============================================================================
