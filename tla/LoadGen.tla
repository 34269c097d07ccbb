------------------------------ MODULE LoadGen ------------------------------
(***************************************************************************)
(* The load generator (bench/loadgen.py) against the mock backend: a        *)
(* warmup, then requests kept in flight by a fixed number of workers or     *)
(* sent at arrival times whatever the progress, each of them watched by a   *)
(* RecordBuilder (bench/metrics.py) that turns its events into a record.    *)
(* Time is a clock in small units; what is due is done before it moves on.  *)
(***************************************************************************)
EXTENDS MockBackend, Summary

CONSTANTS
  Loads,      \* LoadSpecs: [mode, concurrency, ceiling, duration, timeout, repeat, pool, warmup],
              \* 0 for a ceiling, duration or timeout that is None
  Gaps,       \* the inter-arrival times that may be drawn
  Slos,       \* the objectives to count goodput by: [ttft, tpot, e2e], None if not asserted
  MaxClock,   \* bound on the clock
  MaxSent     \* bound on the requests of a run that repeats its pool

ASSUME LoadBounds ==
  \A l \in Loads : /\ l.mode \in {"closed", "open"} /\ l.concurrency > 0 /\ l.pool > 0
                   /\ l.repeat => l.duration > 0

VARIABLES
  load,
  stage,      \* warmup, measured, done
  clock,
  began,      \* when the stage began
  cursor,     \* requests sent in this stage
  arrival,    \* the open loop's next target
  running,    \* the requests in flight: [id, stream, builder]
  flights,    \* _InFlight: [current, peak]
  permits,    \* of the semaphore
  records,    \* collected, in the order of completion
  stats       \* MockStats

loadVars == <<load, stage, clock, began, cursor, arrival, running, flights, permits, records, stats>>

LoadInit ==
  /\ load \in Loads
  /\ stage = IF load.warmup > 0 THEN "warmup" ELSE "measured"
  /\ clock = 0 /\ began = 0 /\ cursor = 0 /\ arrival = 0
  /\ running = {} /\ flights = [current |-> 0, peak |-> 0] /\ permits = load.ceiling
  /\ records = <<>> /\ stats = NewStats

----------------------------------------------------------------------------
(* RecordBuilder.                                                            *)

NewBuilder(t) ==
  [sent |-> t, first |-> None, last |-> None, lastEvent |-> None, gaps |-> <<>>, counted |-> 0,
   firstChunk |-> 0, usage |-> 0, ok |-> TRUE]

\* _account_tokens: the tokens of the first chunk have no gap, those of a later one share
\* the time since the chunk before.
AccountTokens(b, n, t) ==
  IF b.first = None
  THEN [b EXCEPT !.first = t, !.firstChunk = n, !.lastEvent = t, !.counted = @ + n]
  ELSE [b EXCEPT !.gaps = @ \o [i \in 1 .. n |-> (t - b.lastEvent) \div n],
                 !.lastEvent = t, !.counted = @ + n]

\* A slip: an error event is taken for the end of the stream and nothing else.
ObserveEnd(b, e, t) ==
  LET c == IF e.tokens > 0 THEN AccountTokens(b, e.tokens, t) ELSE b
  IN [c EXCEPT !.usage = IF e.usage > 0 THEN e.usage ELSE @, !.last = IF e.finished THEN t ELSE @]

\* observe
Observe(b, e, t) ==
  LET c == IF e.tokens > 0 THEN AccountTokens(b, e.tokens, t) ELSE b
  IN [c EXCEPT !.ok = @ /\ ~e.error, !.usage = IF e.usage > 0 THEN e.usage ELSE @,
               !.last = IF e.finished THEN t ELSE @]

\* failed
Failed(b, t) == [b EXCEPT !.ok = FALSE, !.last = t]

\* build: the backend's count of the tokens wins.
Build(r, b) ==
  [id |-> r.id, ok |-> b.ok, output |-> IF b.usage > 0 THEN b.usage ELSE b.counted,
   sent |-> b.sent, first |-> b.first, last |-> b.last, gaps |-> b.gaps,
   firstChunk |-> b.firstChunk, cut |-> r.stream.cut]

----------------------------------------------------------------------------
(* Sending.                                                                  *)

PoolSize == IF stage = "warmup" THEN load.warmup ELSE load.pool
Workers == IF stage = "warmup" THEN Min({load.concurrency, load.warmup}) ELSE load.concurrency

\* _nth_request: repetitions have ids of their own.
NthRequest(n) == <<stage, n % PoolSize, n \div PoolSize>>

\* The deadline, which the warmup does not have.
Due(t) == stage = "measured" /\ load.duration > 0 /\ t >= began + load.duration

\* _drive_one up to its first await.
Launch(fate) ==
  /\ cursor' = cursor + 1
  /\ running' = running \cup {[id |-> NthRequest(cursor), stream |-> NewStream(fate),
                               builder |-> NewBuilder(clock)]}
  /\ flights' = [current |-> flights.current + 1, peak |-> Max({flights.peak, flights.current + 1})]
  /\ stats' = Entered(stats)
  /\ UNCHANGED <<load, stage, clock, began, records>>

ClosedLoop == stage = "warmup" \/ load.mode = "closed"

\* A worker of run_closed_loop that is free takes the next request of the pool.
CanPull == ClosedLoop /\ stage # "done" /\ Cardinality(running) < Workers /\ cursor < PoolSize /\ ~Due(clock)
Pull == CanPull /\ (\E fate \in Fates : Launch(fate)) /\ UNCHANGED <<arrival, permits>>

\* run_open_loop: the next arrival, once there is room for it.
More == (load.repeat /\ cursor < MaxSent) \/ cursor < load.pool
CanArrive ==
  /\ stage = "measured" /\ load.mode = "open" /\ More
  /\ ~Due(arrival) /\ clock >= arrival /\ (load.ceiling > 0 => permits > 0)
Arrive ==
  /\ CanArrive
  /\ \E fate \in Fates : Launch(fate)
  /\ \E gap \in Gaps : arrival' = arrival + gap
  /\ permits' = IF load.ceiling > 0 THEN permits - 1 ELSE permits

----------------------------------------------------------------------------
(* Streams.                                                                  *)

\* _drive_one returns: the record is collected, unless this is the warmup.
Collected(r, b) ==
  /\ running' = running \ {r}
  /\ flights' = [flights EXCEPT !.current = @ - 1]
  /\ permits' = IF stage = "measured" /\ load.mode = "open" /\ load.ceiling > 0 THEN permits + 1 ELSE permits
  /\ records' = IF stage = "warmup" THEN records ELSE Append(records, Build(r, b))

\* The backend raises before its first token.
RaisesEarly(r) ==
  /\ Failing(r.stream)
  /\ stats' = Left(stats, "failed")
  /\ Collected(r, Failed(r.builder, clock))
  /\ UNCHANGED <<load, stage, clock, began, cursor, arrival>>

\* The backend yields an event (_consume), the last one perhaps.
Yields(r) ==
  LET w == Woken(r.stream)
      b == Observe(r.builder, w.event, clock)
  IN /\ ~Failing(r.stream)
     /\ \/ /\ ~w.event.finished
           /\ running' = (running \ {r}) \cup {[r EXCEPT !.stream = w.stream, !.builder = b]}
           /\ UNCHANGED <<flights, permits, records, stats>>
        \/ /\ w.event.finished
           /\ stats' = Left(stats, IF w.event.error THEN "failed" ELSE "completed")
           /\ Collected(r, b)
     /\ UNCHANGED <<load, stage, clock, began, cursor, arrival>>

Overdue(r) == load.timeout > 0 /\ clock >= r.builder.sent + load.timeout

\* asyncio.timeout cancels the stream where it sleeps.
TimesOut(r) ==
  /\ Overdue(r)
  /\ stats' = Left(stats, "cancelled")
  /\ Collected(r, Failed(r.builder, clock))
  /\ UNCHANGED <<load, stage, clock, began, cursor, arrival>>

Exhausted == IF ClosedLoop THEN cursor >= PoolSize \/ Due(clock) ELSE ~More \/ Due(arrival)

\* gather: everything that was sent has been collected.
EndStage ==
  /\ stage # "done" /\ running = {} /\ Exhausted
  /\ stage' = IF stage = "warmup" THEN "measured" ELSE "done"
  /\ began' = clock /\ arrival' = clock
  /\ cursor' = IF stage = "warmup" THEN 0 ELSE cursor
  /\ flights' = IF stage = "warmup" THEN [current |-> 0, peak |-> 0] ELSE flights
  /\ UNCHANGED <<load, clock, running, permits, records, stats>>

Passes ==
  /\ clock < MaxClock /\ stage # "done" /\ ~CanPull /\ ~CanArrive
  /\ \A r \in running : ~Overdue(r)
  /\ clock' = clock + 1
  /\ UNCHANGED <<load, stage, began, cursor, arrival, running, flights, permits, records, stats>>

LoadNext ==
  \/ Pull
  \/ Arrive
  \/ \E r \in running : RaisesEarly(r) \/ Yields(r) \/ TimesOut(r)
  \/ EndStage
  \/ Passes

----------------------------------------------------------------------------
(* Properties.                                                               *)

\* Every request that was sent has exactly one record, or is still in flight, and no two
\* requests of a run have one id: nothing is lost by a failure, a timeout or the end of the
\* run, and nothing is counted twice (_drive_one, _nth_request).
RecordedOnce ==
  LET ids == [i \in DOMAIN records |-> records[i].id]
  IN stage # "warmup" =>
       /\ Len(records) + Cardinality(running) = cursor
       /\ IsInjective(ids) /\ ToSet(ids) \cap {r.id : r \in running} = {}

\* A record that says ok is of a completion that arrived whole: neither dropped, nor cut off
\* by the timeout, nor refused (RecordBuilder.observe and failed).
OkIsWhole ==
  \A i \in DOMAIN records :
    records[i].ok => /\ records[i].cut > MockTokens /\ records[i].output = MockTokens
                     /\ Len(records[i].gaps) = MockTokens - records[i].firstChunk

\* The gaps of a record never add up to more than the time in which its tokens came, however
\* many tokens an event has (_account_tokens).
GapsFit ==
  \A i \in DOMAIN records :
    LET r == records[i]
    IN r.first # None => /\ r.sent <= r.first /\ r.first <= r.last
                         /\ FoldSeq(LAMBDA x, y : x + y, 0, r.gaps) <= r.last - r.first

\* The load is what the run's configuration says: never more than so many in flight.
CeilingHolds ==
  stage # "warmup" =>
    flights.peak <= IF load.mode = "closed" THEN load.concurrency
                    ELSE IF load.ceiling > 0 THEN load.ceiling ELSE cursor

\* No request is sent at or after the deadline.  An open loop with a ceiling is not covered:
\* it looks at the time the request should have been sent, not at when there was room.
SentInTime ==
  load.duration > 0 /\ stage = "measured" /\ (load.mode = "closed" \/ load.ceiling = 0)
    => \A r \in running : r.builder.sent < began + load.duration

\* A percentile of the end-to-end latencies has as many samples on either side as its rank
\* says (percentile).
PercentilesRank ==
  LET values == SelectSeq(Each(E2e, OkRequests(records)), LAMBDA v : v # None)
      n == Len(values)
  IN stage = "done" /\ n > 0 =>
       \A q \in Quantiles :
         LET p == Distribution(values).at[q]
             below == Cardinality({i \in 1 .. n : 100 * values[i] <= p})
             above == Cardinality({i \in 1 .. n : 100 * values[i] >= p})
         IN /\ below >= (q * (n - 1)) \div 100 + 1
            /\ above >= n - (q * (n - 1) + 99) \div 100

\* A request that failed never makes a run look better: the latencies are those of the run
\* without it, and neither the goodput nor the throughput is higher (summarize, goodput).
FailuresNeverFlatter ==
  stage = "done" =>
    \A slo \in Slos :
      LET all == Summarize(records, slo)
          clean == Summarize(OkRequests(records), slo)
      IN /\ all.ttft = clean.ttft /\ all.itl = clean.itl /\ all.tpot = clean.tpot /\ all.e2e = clean.e2e
         /\ all.goodput.met = clean.goodput.met /\ all.goodput.met <= all.ok
         /\ all.output = clean.output /\ all.wall >= clean.wall

\* The backend's counters add up after every kind of ending (MockBackend.generate).
CountersBalance ==
  /\ stats.inFlight = Cardinality(running)
  /\ stats.requests = stats.inFlight + stats.completed + stats.failed + stats.cancelled

\* The load is the one that was asked for, every request is on record as it went, and the
\* summary is true to the records.
RunHonest ==
  /\ CeilingHolds /\ SentInTime /\ CountersBalance
  /\ RecordedOnce /\ OkIsWhole /\ GapsFit
  /\ PercentilesRank /\ FailuresNeverFlatter
=============================================================================
