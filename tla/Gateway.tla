------------------------------ MODULE Gateway ------------------------------
(***************************************************************************)
(* The life of a request in the gateway: quotas (gateway/limits.py),       *)
(* routing with retries (router.py), the response, streamed or collected   *)
(* (app.py), and the accounting (usage.py).  Everything runs on one event  *)
(* loop, so an action is the code between two awaits.  `at` says where a   *)
(* request waits:                                                          *)
(*   probing   for a replica's answer to a health probe                    *)
(*   attempt   for the next event of the replica's stream                  *)
(*   yielded   streamed responses only: for the client to take the chunk   *)
(*   closing   for the abandoned router generator to be finalized          *)
(* Task 0 is the /readyz handler, which refreshes the pool and does not    *)
(* route.                                                                  *)
(***************************************************************************)
EXTENDS Router, Sequences, SequencesExt, Functions

CONSTANTS
  Request,         \* 1 .. n
  Tenant, Owners,  \* Owners: the assignments of requests to tenants to look at
  Streamed,        \* the requests with stream=true
  Prompt,          \* the prompt's tokens
  MaxTokens,       \* bound on the tokens of a completion
  Rpm, Tpm, MaxConcurrency,  \* limits per tenant, NoLimit for none
  Rate             \* tokens and requests refilled per tick

VARIABLES
  owner,        \* the tenant whose key came with the request
  rpm, tpm,     \* TenantLimiter._rpm and _tpm
  inFlight,     \* TenantLimiter._in_flight
  charged,      \* TenantLimiter.tokens_charged
  spent,        \* history: the part of it that paid for completions
  count,        \* UsageAccumulator.completion_tokens
  event,        \* the event the router generator is suspended at
  records,      \* what UsageTracker.record was given, per request
  told,         \* the verdicts given to the canary controller, per request
  answer,       \* the HTTP status of the response, 0 before it has one
  ended,        \* history: how each attempt of the request ended
  sent          \* history: the chunks of the response, each with its replica

Ready == 0
Task == Request \cup {Ready}
Of(t) == {r \in Request : owner[r] = t}

ASSUME GatewayRequests ==
  /\ Request \subseteq Nat \ {0} /\ IsFiniteSet(Request) /\ Streamed \subseteq Request
  /\ Owners \subseteq [Request -> Tenant] /\ Prompt \in [Request -> Nat]
ASSUME GatewayLimits ==
  /\ {Rpm, Tpm, MaxConcurrency} \subseteq [Tenant -> Nat]
  /\ {Rate, MaxTokens} \subseteq Nat \ {0}

quotaVars == <<rpm, tpm, inFlight, charged, spent>>
bookVars == <<count, event, records, told, answer, ended, sent>>
vars == <<owner, now, poolVars, route, quotaVars, bookVars>>

Bucket == [level : Int, updated : 0 .. MaxTime]

\* Every field has its type.
TypeOK ==
  /\ owner \in Owners
  /\ now \in 0 .. MaxTime
  /\ healthy \in [Replica -> BOOLEAN]
  /\ checkedAt \in [Replica -> {Never} \cup 0 .. MaxTime]
  /\ route \in [Task -> RouteType]
  /\ rpm \in [Tenant -> Bucket] /\ tpm \in [Tenant -> Bucket]
  /\ inFlight \in [Tenant -> Nat] /\ charged \in [Tenant -> Nat] /\ spent \in [Tenant -> Nat]
  /\ count \in [Request -> 0 .. MaxTokens + 1]
  /\ event \in [Request -> {"none", "delta", "final", "failure"}]
  /\ told \in [Request -> Seq(BOOLEAN)]
  /\ answer \in [Request -> {0, 200, 400, 401, 403, 404, 429, 502, 503}]

Init ==
  /\ PoolInit
  /\ owner \in Owners
  /\ route = [r \in Task |-> AtRest("new")]
  /\ rpm = [t \in Tenant |-> NewBucket(Rpm[t], 0)]
  /\ tpm = [t \in Tenant |-> NewBucket(Tpm[t], 0)]
  /\ inFlight = [t \in Tenant |-> 0] /\ charged = [t \in Tenant |-> 0]
  /\ spent = [t \in Tenant |-> 0]
  /\ count = [r \in Request |-> 0] /\ event = [r \in Request |-> "none"]
  /\ records = [r \in Request |-> << >>] /\ told = [r \in Request |-> << >>]
  /\ answer = [r \in Request |-> 0]
  /\ ended = [r \in Request |-> << >>] /\ sent = [r \in Request |-> << >>]

----------------------------------------------------------------------------
(* Admission                                                               *)

\* try_acquire_slot
SlotFree(t) == MaxConcurrency[t] = NoLimit \/ inFlight[t] < MaxConcurrency[t]

\* check_request
Admits(r) ==
  LET t == owner[r]
  IN  Affords(rpm[t], Rpm[t], Rate, now, 1) /\ Affords(tpm[t], Tpm[t], Rate, now, Prompt[r])

\* _open_session pulls the first event, so that an error can still be a status: a route
\* to one of `next`, or, with none left, the exception generate() raises.
Goes(r, next, status) ==
  IF next = {}
    THEN route' = [route EXCEPT ![r].at = "done"] /\ answer' = [answer EXCEPT ![r] = status]
    ELSE \E x \in next : route' = [route EXCEPT ![r] = x] /\ UNCHANGED answer

\* A slip: the generator that raises keeps its slot.
SlotLeaks(t, leaves) == UNCHANGED inFlight

\* The slot() context, left when the generator ends, by a return or by an exception.
Slot(t, leaves) ==
  inFlight' = IF leaves THEN [inFlight EXCEPT ![t] = @ - 1] ELSE inFlight

\* authenticate, authorize_model, _require_served and resolve_adapter come before anything
\* is charged; which of them refuses depends on the key, the model and the adapter.
Denied(r, status) ==
  /\ route[r].at = "new" /\ Goes(r, {}, status)
  /\ UNCHANGED <<owner, now, poolVars, quotaVars, count, event, records, told, ended, sent>>

\* The handler up to its first await: quotas, the concurrency gate, the selection.
\* What the quotas took is not given back when the gate refuses.
Arrive(r) ==
  LET t == owner[r]
      ok == Admits(r)
      next == Selects(route[r], now, 1, healthy, checkedAt)
  IN  /\ route[r].at = "new"
      /\ rpm' = [rpm EXCEPT ![t] = AfterCheck(@, Rpm[t], Rate, now, 1, ok)]
      /\ tpm' = [tpm EXCEPT ![t] = AfterCheck(@, Tpm[t], Rate, now, Prompt[r], ok)]
      /\ charged' = IF ok /\ Tpm[t] # NoLimit THEN [charged EXCEPT ![t] = @ + Prompt[r]] ELSE charged
      /\ IF ok /\ SlotFree(t)
           THEN /\ Goes(r, next, 503)
                /\ inFlight' = IF next = {} THEN inFlight ELSE [inFlight EXCEPT ![t] = @ + 1]
           ELSE Goes(r, {}, 429) /\ UNCHANGED inFlight
      /\ UNCHANGED <<owner, now, poolVars, spent, count, event, records, told, ended, sent>>

----------------------------------------------------------------------------
(* Routing                                                                 *)

\* A request's probe is answered, or raises; the selection goes on.
ProbeReturns(r, alive) ==
  LET x == route[r]
      H == Verdict(x, alive)
      C == Stamped(x)
      next == Selects(x, x.stamp, x.replica + 1, H, C)
  IN  /\ r \in Request /\ x.at = "probing"
      /\ healthy' = H /\ checkedAt' = C /\ Remembers(r, x.replica)
      /\ Goes(r, next, 503) /\ Slot(owner[r], next = {})
      /\ UNCHANGED <<owner, now, rpm, tpm, charged, spent, count, event, records, told, ended, sent>>

\* /readyz: health_report refreshes the pool the same way.
Reports(stamp, from, C) ==
  LET stale == Stale(stamp, from, C)
  IN  route' = [route EXCEPT ![Ready] =
        IF stale = {} THEN AtRest("new")
        ELSE [AtRest("probing") EXCEPT !.stamp = stamp, !.replica = Min(stale)]]

AsksReady ==
  /\ route[Ready].at = "new" /\ Stale(now, 1, checkedAt) # {}
  /\ Reports(now, 1, checkedAt)
  /\ UNCHANGED <<owner, now, poolVars, quotaVars, bookVars>>

ReadyProbed(alive) ==
  LET x == route[Ready]
  IN  /\ x.at = "probing"
      /\ healthy' = Verdict(x, alive) /\ checkedAt' = Stamped(x) /\ Remembers(Ready, x.replica)
      /\ Reports(x.stamp, x.replica + 1, Stamped(x))
      /\ UNCHANGED <<owner, now, quotaVars, bookVars>>

\* A slip: every stream that ends is a success.
TellsSuccess(r, ok) == told' = [told EXCEPT ![r] = Append(@, TRUE)]

\* _observe
Tell(r, ok) == told' = [told EXCEPT ![r] = Append(@, ok)]
Ends(r, how) == ended' = [ended EXCEPT ![r] = Append(@, how)]

----------------------------------------------------------------------------
(* The response                                                            *)

\* UsageAccumulator.finish and UsageTracker.record
Record(r, tokens, status) ==
  records' = [records EXCEPT ![r] = Append(@, [tokens |-> tokens, status |-> status])]

\* A slip: the ledger is written without a charge.
CompleteUnpaid(r, tokens, status) ==
  /\ Record(r, tokens, status)
  /\ UNCHANGED <<tpm, charged, spent>>

\* _Session.complete: the completion is charged, whatever the level, and recorded.
Complete(r, tokens, status) ==
  LET t == owner[r]
      owes == Tpm[t] # NoLimit /\ tokens > 0
  IN  /\ tpm' = IF owes THEN [tpm EXCEPT ![t] = Charged(@, Tpm[t], Rate, now, tokens)] ELSE tpm
      /\ charged' = IF owes THEN [charged EXCEPT ![t] = @ + tokens] ELSE charged
      /\ spent' = IF owes THEN [spent EXCEPT ![t] = @ + tokens] ELSE spent
      /\ Record(r, tokens, status)

Chunk(r, kind) == [kind |-> kind, replica |-> route[r].replica]

\* Takes the request to its end: the generator is exhausted, the session completed.
Finishes(r, tokens, status) ==
  /\ Complete(r, tokens, status)
  /\ Slot(owner[r], TRUE)
  /\ route' = [route EXCEPT ![r].at = "done", ![r].started = TRUE]

\* _backend_status: a failure no replica could make good, a request the replica refused,
\* and an exception that is wrapped.
BackendStatus(kind) == CASE kind = "retryable" -> 503 [] kind = "rejected" -> 400 [] OTHER -> 502

\* The status of a collected response.
CollectedStatus(ok) == IF ok THEN 200 ELSE 502

\* The response's status line; a streamed response has one with its first event.
Answers(r, status) == answer' = [answer EXCEPT ![r] = status]

\* A slip: a stream that has started is retried too.
RetriesAlways(x, kind) == kind = "retryable" /\ x.attempt < MaxAttempts

\* Whether generate() goes round its loop again.
Retries(x, kind) == ~x.started /\ kind = "retryable" /\ x.attempt < MaxAttempts

\* The replica's stream raises: "retryable", "rejected", or an unexpected exception.
AttemptFails(r, kind) ==
  LET x == route[r]
      marked == Condemned(x.replica, kind)
      next == IF Retries(x, kind) THEN Selects(x, now, 1, marked.H, marked.C) ELSE {}
  IN  /\ x.at = "attempt"
      /\ healthy' = marked.H /\ checkedAt' = marked.C /\ Marks(x.replica, kind)
      /\ Tell(r, FALSE) /\ Ends(r, "failed")
      /\ \/ /\ ~x.started \/ Retries(x, kind)
            /\ Goes(r, next, IF Retries(x, kind) THEN 503 ELSE BackendStatus(kind))
            /\ Slot(owner[r], next = {})
            /\ UNCHANGED <<tpm, charged, spent, records, event, sent>>
         \/ /\ x.started /\ ~Retries(x, kind) /\ r \in Streamed
            /\ route' = [route EXCEPT ![r].at = "yielded"]
            /\ event' = [event EXCEPT ![r] = "failure"]
            /\ sent' = [sent EXCEPT ![r] = Append(@, Chunk(r, "failure"))]
            /\ UNCHANGED <<tpm, charged, spent, inFlight, records, answer>>
         \/ /\ x.started /\ ~Retries(x, kind) /\ r \notin Streamed
            /\ Finishes(r, count[r], "error") /\ Answers(r, CollectedStatus(FALSE))
            /\ UNCHANGED <<event, sent>>
      /\ UNCHANGED <<owner, now, rpm, count>>

\* What the last event says of the tokens: the deltas counted, or the usage block of
\* the replica, which knows of tokens that made no text yet.
FinalCount(r, kind) ==
  IF kind = "delta" THEN {count[r] + 1}
  ELSE IF kind = "final" THEN {count[r], count[r] + 1} ELSE {count[r]}

\* The replica yields an event.  A streamed response hands the chunk to the client; a
\* collected one takes the next event at once, and after the last one ends.
Yields(r, kind) ==
  LET x == route[r]
  IN  /\ x.at = "attempt"
      /\ kind = "delta" => count[r] < MaxTokens
      /\ kind = "failure" => x.started
      /\ \E n \in FinalCount(r, kind) :
           /\ count' = [count EXCEPT ![r] = n]
           /\ IF kind = "delta" THEN UNCHANGED ended
              ELSE Ends(r, IF kind = "final" THEN "ok" ELSE "failed")
           /\ \/ /\ r \in Streamed
                 /\ route' = [route EXCEPT ![r] = [x EXCEPT !.at = "yielded", !.started = TRUE]]
                 /\ event' = [event EXCEPT ![r] = kind]
                 /\ sent' = [sent EXCEPT ![r] = Append(@, Chunk(r, kind))]
                 /\ Answers(r, 200)
                 /\ UNCHANGED <<tpm, charged, spent, inFlight, records, told>>
              \/ /\ r \notin Streamed /\ kind = "delta"
                 /\ route' = [route EXCEPT ![r].started = TRUE]
                 /\ UNCHANGED <<tpm, charged, spent, inFlight, records, event, told, answer, sent>>
              \/ /\ r \notin Streamed /\ kind # "delta"
                 /\ Tell(r, kind = "final") /\ Answers(r, CollectedStatus(kind = "final"))
                 /\ Finishes(r, n, IF kind = "final" THEN "ok" ELSE "error")
                 /\ UNCHANGED <<event, sent>>
      /\ UNCHANGED <<owner, now, poolVars, rpm>>

\* The client has taken the chunk.  After a final event the generator is asked once
\* more and ends; after a failure it is dropped where it stands.
Taken(r) ==
  /\ route[r].at = "yielded"
  /\ \/ /\ event[r] = "delta"
        /\ route' = [route EXCEPT ![r].at = "attempt"]
        /\ UNCHANGED <<tpm, charged, spent, inFlight, records, told>>
     \/ /\ event[r] = "final"
        /\ Tell(r, TRUE)
        /\ Finishes(r, count[r], "ok")
     \/ /\ event[r] = "failure"
        /\ Complete(r, count[r], "error")
        /\ route' = [route EXCEPT ![r].at = "closing"]
        /\ UNCHANGED <<inFlight, told>>
  /\ UNCHANGED <<owner, now, poolVars, rpm, count, event, answer, ended, sent>>

\* The client of a streamed response goes away.  A generator that waits for the replica
\* is cancelled; one that is suspended at a chunk is finalized later.
Disconnects(r) ==
  /\ r \in Streamed /\ route[r].started
  /\ \/ route[r].at = "attempt" /\ Finishes(r, count[r], "ok")
     \/ /\ route[r].at = "yielded"
        /\ Complete(r, count[r], IF event[r] = "failure" THEN "error" ELSE "ok")
        /\ route' = [route EXCEPT ![r].at = "closing"]
        /\ UNCHANGED inFlight
  /\ IF route[r].at = "attempt" \/ event[r] = "delta" THEN Ends(r, "left") ELSE UNCHANGED ended
  /\ UNCHANGED <<owner, now, poolVars, rpm, count, event, told, answer, sent>>

\* The event loop closes a generator nobody refers to any more.
Finalized(r) ==
  /\ route[r].at = "closing"
  /\ Slot(owner[r], TRUE)
  /\ route' = [route EXCEPT ![r].at = "done"]
  /\ UNCHANGED <<owner, now, poolVars, rpm, tpm, charged, spent, bookVars>>

Tick ==
  /\ now < MaxTime /\ now' = now + 1
  /\ UNCHANGED <<owner, poolVars, route, quotaVars, bookVars>>

\* Every request has its answer; anything else that cannot go on is a deadlock.
Rests == (\A r \in Request : route[r].at = "done") /\ UNCHANGED vars

Errors == {"retryable", "rejected", "unexpected"}
Kinds == {"delta", "final", "failure"}

Next ==
  \/ \E r \in Request :
       \/ Arrive(r) \/ Taken(r) \/ Disconnects(r) \/ Finalized(r)
       \/ \E alive \in BOOLEAN : ProbeReturns(r, alive)
       \/ \E status \in {401, 403, 404} : Denied(r, status)
       \/ \E kind \in Errors : AttemptFails(r, kind)
       \/ \E kind \in Kinds : Yields(r, kind)
  \/ AsksReady \/ (\E alive \in BOOLEAN : ReadyProbed(alive)) \/ Tick \/ Rests

Spec == Init /\ [][Next]_vars

----------------------------------------------------------------------------
(* Properties                                                              *)

Running == {"probing", "attempt", "yielded", "closing"}

\* The concurrency count is the number of requests that are really under way, on every
\* way out of the generator, and within the tenant's limit.
SlotsBalance ==
  \A t \in Tenant :
    /\ inFlight[t] = Cardinality({r \in Of(t) : route[r].at \in Running})
    /\ MaxConcurrency[t] # NoLimit => inFlight[t] <= MaxConcurrency[t]

\* A request's attempts are on different replicas, and once the client holds part of a
\* completion there is no other attempt: all it was sent comes from one replica, ends
\* with the only terminating event, and that is missing only if it left.
OneCompletion ==
  \A r \in Request :
    /\ route[r].attempt = Cardinality(route[r].tried)
    /\ \A i \in DOMAIN sent[r] :
         /\ sent[r][i].replica = sent[r][1].replica
         /\ i < Len(sent[r]) => sent[r][i].kind = "delta"
    /\ route[r].at = "done" /\ sent[r] # << >> /\ Last(sent[r]).kind = "delta"
         => Last(ended[r]) = "left"

SumOver(S, f(_)) == MapThenSumSet(f, S)

\* Whoever got an event is recorded once when the request is over, nobody else is, and
\* the bucket has paid for exactly the prompts that were admitted and the completions
\* that are on the records.
BilledOnce ==
  /\ \A r \in Request :
       Len(records[r]) = IF route[r].started /\ route[r].at \in {"closing", "done"} THEN 1 ELSE 0
  /\ \A t \in Tenant : Tpm[t] # NoLimit =>
       LET billed(r) == IF records[r] = << >> THEN 0 ELSE records[r][1].tokens
           paidFor == {S \in SUBSET {r \in Of(t) : route[r].at # "new"} :
                         /\ \A r \in Of(t) : route[r].tried # {} => r \in S
                         /\ charged[t] = SumOver(S, LAMBDA r : Prompt[r]) + spent[t]}
       IN  paidFor # {} /\ spent[t] = SumOver(Of(t), billed)

\* The quota: what a tenant has been admitted with never exceeds its burst and what has
\* been refilled since the start; only completions, charged afterwards, overdraw it.
WithinBudget ==
  \A t \in Tenant : Tpm[t] # NoLimit => charged[t] - spent[t] <= Tpm[t] + Rate * now

\* A Retry-After is honest: an amount that fits the bucket at all fits it after that
\* wait and not a tick earlier, if nobody else spends, however far it is overdrawn.
RetryHonest ==
  \A t \in Tenant : \A amount \in 1 .. Tpm[t] :
    LET wait == RetryAfter(tpm[t], Tpm[t], Rate, now, amount)
        LevelIn(k) == Level(tpm[t], Tpm[t], Rate, now + k)
    IN  LevelIn(wait) >= amount /\ (wait > 0 => LevelIn(wait - 1) < amount)

\* What the canary controller hears is true, in order, and never doubled: a success is a
\* completion that reached its end.  Of the attempts that ended by themselves only the
\* last one of a streamed response may be missing.
VerdictsTrue ==
  \A r \in Request :
    /\ Len(told[r]) <= Len(ended[r])
    /\ \A i \in DOMAIN told[r] : told[r][i] <=> ended[r][i] = "ok"
    /\ route[r].at = "done" =>
         Len(told[r]) >= Len(ended[r]) - (IF r \in Streamed THEN 1 ELSE 0)

\* The status tells the truth: every request gets one, 200 for a collected response means
\* the whole completion, and a client told to come back or to mend its request has had
\* nothing, is not billed, and if no replica was asked it is the quotas or the pool.
AnswersTrue ==
  \A r \in Request :
    LET x == route[r]
    IN  /\ answer[r] = 0 <=> x.at # "done" /\ ~(r \in Streamed /\ x.started)
        /\ answer[r] = 200 /\ r \notin Streamed => Last(ended[r]) = "ok"
        /\ answer[r] \notin {0, 200, 502} => records[r] = << >> /\ sent[r] = << >>
        /\ answer[r] \in {400, 502} => told[r] # << >> /\ ~Last(told[r])
        /\ x.at = "done" /\ x.tried = {} => answer[r] \in {401, 403, 404, 429, 503}

\* A replica that failed a request is left alone for HealthTTL, unless a probe that was
\* under way when it failed answers afterwards.
EjectionHolds ==
  [][\A r \in Request : route[r].tried # route'[r].tried =>
       now - failedAt'[route'[r].replica] >= HealthTTL]_vars

\* A tenant's limits hold, and are accounted for, on every path through the gateway.
LimitsInv == TypeOK /\ SlotsBalance /\ WithinBudget /\ RetryHonest

\* What the gateway says of an attempt is true: to the client and to the canary controller.
ToldTrue == AnswersTrue /\ VerdictsTrue
=============================================================================
