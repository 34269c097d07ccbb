-------------------------- MODULE CanaryController --------------------------
(***************************************************************************)
(* canary/controller.py: the sliding windows of the two lanes, the gates   *)
(* and the rollout state machine.  A sample's time to first token and its  *)
(* end-to-end latency are one number here, `ms`: the gates treat them      *)
(* alike.  Percentiles are in hundredths.                                  *)
(***************************************************************************)
EXTENDS Integers, Sequences, SequencesExt

CONSTANTS
  Steps,         \* the canary's percentages, increasing, the last one 100
  StepHold, Window, MinRequests,
  MaxErrorPct, MaxRatioPct,
  MaxMs,         \* max_p95_ttft_ms, None for no limit
  StallTimeout,  \* None for none
  MaxSamples     \* max_samples_per_lane

Lanes == {"stable", "canary"}
None == 0

\* CanaryConfig: what its validators let pass.
ValidSteps ==
  /\ Steps \in Seq(1 .. 100) /\ Steps # << >> /\ Steps[Len(Steps)] = 100
  /\ \A i \in 2 .. Len(Steps) : Steps[i] > Steps[i - 1]
ValidGates ==
  /\ {StepHold, Window, MinRequests, MaxRatioPct, MaxSamples} \subseteq Nat \ {0}
  /\ MaxErrorPct \in 0 .. 100 /\ {MaxMs, StallTimeout} \subseteq Nat

ASSUME CanaryConfigValid == ValidSteps /\ ValidGates

Idle == [state |-> "idle", version |-> None, step |-> 1, since |-> 0]

ControllerType ==
  [state : {"idle", "canary", "promoted", "rolled_back"}, version : Nat,
   step : 1 .. Len(Steps), since : Nat]

\* canary_weight
Weight(c) == CASE c.state = "canary" -> Steps[c.step] [] c.state = "promoted" -> 100 [] OTHER -> 0

----------------------------------------------------------------------------
(* Windows                                                                 *)

\* prune: samples leave the deque at its old end, up to the first that has not expired.
Pruned(w, now) ==
  LET dropped == CHOOSE n \in 1 .. Len(w) : /\ \A k \in 1 .. n : w[k].t < now - Window
                                            /\ n < Len(w) => w[n + 1].t >= now - Window
  IN  IF w = << >> \/ w[1].t >= now - Window THEN w ELSE SubSeq(w, dropped + 1, Len(w))

\* LaneWindow.observe; the ring drops its oldest sample when it is full.
Observed(w, s) ==
  LET kept == Append(Pruned(w, s.t), s)
  IN  IF Len(kept) > MaxSamples THEN Tail(kept) ELSE kept

\* sorted(values)[k], from 1, of the latencies of the requests I.
Ranked(w, I, k) == Min({w[i].ms : i \in {i \in I : Cardinality({j \in I : w[j].ms <= w[i].ms}) >= k}})

\* percentile(values, 95), of the requests that succeeded: linear interpolation between the
\* two nearest ranks.
P95(w) ==
  LET fine == {i \in DOMAIN w : w[i].ok}
      rank == 95 * (Cardinality(fine) - 1)
      low == 1 + rank \div 100
      value(k) == Ranked(w, fine, k)
  IN  CASE fine = {} -> None
        [] Cardinality(fine) = 1 -> 100 * value(1)
        [] OTHER -> 100 * value(low) + (value(low + 1) - value(low)) * (rank % 100)

\* LaneWindow.summary
Summary(w, now) ==
  LET live == Pruned(w, now)
  IN  [requests |-> Len(live), errors |-> Cardinality({i \in DOMAIN live : ~live[i].ok}),
       p95 |-> P95(live)]

----------------------------------------------------------------------------
(* Gates                                                                   *)

\* _breach
Breach(stable, canary) ==
  \/ 100 * canary.errors > MaxErrorPct * canary.requests
  \/ MaxMs # None /\ canary.p95 > 100 * MaxMs
  \/ /\ stable.requests >= MinRequests /\ canary.p95 # None /\ stable.p95 # None
     /\ 100 * canary.p95 > MaxRatioPct * stable.p95

\* tick, during a rollout: the verdict.
Decision(c, stable, canary, now) ==
  LET held == now - c.since
      thin == canary.requests < MinRequests
      stalled == StallTimeout # None /\ held >= StallTimeout
  IN  CASE thin /\ stalled -> "rollback"
        [] thin /\ ~stalled -> "hold"
        [] ~thin /\ Breach(stable, canary) -> "rollback"
        [] ~thin /\ ~Breach(stable, canary) /\ held < StepHold -> "hold"
        [] ~thin /\ ~Breach(stable, canary) /\ held >= StepHold /\ c.step = Len(Steps) -> "promote"
        [] OTHER -> "advance"

\* A slip: the new step inherits the time the last one was held.
DecidedKeepsTime(c, kind, now) ==
  CASE kind = "rollback" -> [c EXCEPT !.state = "rolled_back"]
    [] kind = "promote" -> [c EXCEPT !.state = "promoted"]
    [] kind = "advance" -> [c EXCEPT !.step = @ + 1]
    [] OTHER -> c

\* tick: the controller after the verdict; abort() is a rollback.
Decided(c, kind, now) ==
  CASE kind = "rollback" -> [c EXCEPT !.state = "rolled_back"]
    [] kind = "promote" -> [c EXCEPT !.state = "promoted"]
    [] kind = "advance" -> [c EXCEPT !.step = @ + 1, !.since = now]
    [] OTHER -> c

\* start
Started(c, version, now) == [state |-> "canary", version |-> version, step |-> 1, since |-> now]
=============================================================================
