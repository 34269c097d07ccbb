------------------------------ MODULE Rollout ------------------------------
(***************************************************************************)
(* canary/k8s.py: the runner that turns the controller's decisions into    *)
(* kubectl commands, with its evidence from Prometheus or from the         *)
(* controller's own windows.  A command is one step; it may fail, and a    *)
(* command that timed out may have done its work.  An operator deploys a   *)
(* build to the canary, starts a rollout of it, and may reach for          *)
(* `canary abort` from another process at any time.                        *)
(***************************************************************************)
EXTENDS CanaryController

CONSTANTS
  Modes,              \* the pairs of driver and source to look at
  Deadline,           \* deadline_s
  MaxMetricFailures,
  MaxVersion,         \* bound on the builds
  MaxTime,            \* bound on the clock; no rollout is started whose deadline is later
  Traffic             \* how requests end: their lane, ok or not, and the latency

VARIABLES
  now, mode, ctl,
  samples,   \* per lane: the controller's window, or what Prometheus scraped
  runner,    \* where CanaryRunner.run is
  todo,      \* the kubectl commands of the verb being carried out
  cluster,   \* annotations, images and scale
  glass      \* the operator has aborted since the rollout began

vars == <<now, mode, ctl, samples, runner, todo, cluster, glass>>

ASSUME RolloutBounds ==
  /\ Modes \subseteq [driver : {"services", "argo"}, source : {"windows", "prometheus"}]
  /\ {Deadline, MaxMetricFailures, MaxVersion, MaxTime} \subseteq Nat \ {0}
  /\ Traffic \subseteq [lane : Lanes, ok : BOOLEAN, ms : Nat]

Sample == [t : 0 .. MaxTime, ok : BOOLEAN, ms : {r.ms : r \in Traffic}]

\* Every field has its type, and no window outgrows its ring.
TypeOK ==
  /\ now \in 0 .. MaxTime /\ mode \in Modes
  /\ ctl \in ControllerType
  /\ samples \in [Lanes -> UNION {[1 .. n -> Sample] : n \in 0 .. MaxSamples}]
  /\ runner \in [at : {"idle", "acting", "sleeping", "failed"}, started : Nat, failures : 0 .. MaxMetricFailures, image : Nat,
                 next : {"none", "promoted", "rolled_back", "timed_out"},
                 outcome : {"none", "promoted", "rolled_back", "timed_out"}]
  /\ cluster \in [weight : 0 .. 100, share : 0 .. 100, stable : Nat, canary : Nat, up : BOOLEAN]
  /\ glass \in BOOLEAN

\* No rollout; `next` is the outcome to report once a verb is carried out.
NoRun == [at |-> "idle", started |-> 0, failures |-> 0, image |-> 0,
          next |-> "none", outcome |-> "none"]

Init ==
  /\ now = 0 /\ mode \in Modes /\ ctl = Idle
  /\ samples = [l \in Lanes |-> << >>]
  /\ runner = NoRun
  /\ todo = << >>
  /\ cluster = [weight |-> 0, share |-> 100, stable |-> 0, canary |-> 0, up |-> FALSE]
  /\ glass = FALSE

----------------------------------------------------------------------------
(* The drivers: each verb is a sequence of kubectl commands                *)

Cmd(op, arg) == [op |-> op, arg |-> arg]

\* set_weight: one command of Argo's plugin, or two patches of annotations.
SetWeight(pct) ==
  IF mode.driver = "argo" THEN <<Cmd("argo_weight", pct)>>
  ELSE <<Cmd("canary_weight", pct), Cmd("stable_weight", 100 - pct)>>

\* A slip: the canary is scaled down while it still has traffic.
AbortScaleFirst ==
  IF mode.driver = "argo" THEN <<Cmd("argo_abort", None)>>
  ELSE <<Cmd("scale_down", None)>> \o SetWeight(0)

\* abort
Abort ==
  IF mode.driver = "argo" THEN <<Cmd("argo_abort", None)>>
  ELSE SetWeight(0) \o <<Cmd("scale_down", None)>>

\* promote: the canary's image onto the stable deployment, then the canary goes.
Promote ==
  IF mode.driver = "argo" THEN <<Cmd("argo_promote", None)>>
  ELSE <<Cmd("read_image", None), Cmd("set_image", None), Cmd("await_rollout", None)>> \o Abort

\* What a command does to the cluster.
Effect(cmd) ==
  CASE cmd.op = "argo_weight" -> [cluster EXCEPT !.weight = cmd.arg, !.share = 100 - cmd.arg]
    [] cmd.op = "canary_weight" -> [cluster EXCEPT !.weight = cmd.arg]
    [] cmd.op = "stable_weight" -> [cluster EXCEPT !.share = cmd.arg]
    [] cmd.op = "argo_abort" -> [cluster EXCEPT !.weight = 0, !.share = 100, !.up = FALSE]
    [] cmd.op = "argo_promote" ->
         [cluster EXCEPT !.weight = 0, !.share = 100, !.up = FALSE, !.stable = cluster.canary]
    [] cmd.op = "set_image" -> [cluster EXCEPT !.stable = runner.image]
    [] cmd.op = "scale_down" -> [cluster EXCEPT !.up = FALSE]
    [] OTHER -> cluster

----------------------------------------------------------------------------
(* The fleet and the operator                                              *)

\* The router reports a finished request; a lane that had traffic may still have some in
\* flight.  Windows keep the last MaxSamples; what Prometheus has scraped is bounded by
\* the guard.
Finish(r) ==
  LET lane == r.lane
      s == [t |-> now, ok |-> r.ok, ms |-> r.ms]
  IN  /\ lane = "canary" => cluster.canary # 0
      /\ mode.source = "prometheus" => Len(Pruned(samples[lane], now)) < MaxSamples
      /\ samples' = [samples EXCEPT ![lane] = Observed(@, s)]
      /\ UNCHANGED <<now, mode, ctl, runner, todo, cluster, glass>>

Over == runner.at \in {"idle", "failed"}

\* The next build is put on the canary deployment.
Deploy ==
  /\ Over /\ cluster.canary < MaxVersion
  /\ cluster' = [cluster EXCEPT !.canary = @ + 1, !.up = TRUE]
  /\ UNCHANGED <<now, mode, ctl, samples, runner, todo, glass>>

\* `turboserve canary abort`
BreakGlass ==
  /\ cluster.up /\ ~glass
  /\ cluster' = [cluster EXCEPT !.weight = 0, !.share = 100, !.up = FALSE]
  /\ glass' = TRUE
  /\ UNCHANGED <<now, mode, ctl, samples, runner, todo>>

\* Windows are pruned when they are read or written; a sample that has expired is never
\* seen again, and leaves here.
Tick ==
  /\ now < MaxTime /\ now' = now + 1
  /\ samples' = [l \in Lanes |-> Pruned(samples[l], now')]
  /\ UNCHANGED <<mode, ctl, runner, todo, cluster, glass>>

----------------------------------------------------------------------------
(* CanaryRunner.run                                                        *)

\* A slip: the windows of the rollout before are kept.
ClearedNot(S) == S

\* controller.start clears its windows; Prometheus keeps what it has.
Cleared(S) == IF mode.source = "windows" THEN [l \in Lanes |-> << >>] ELSE S

\* start() and the first weight; a run that failed ended its process, and this is another.
Run ==
  /\ Over /\ cluster.up /\ ctl.version < cluster.canary /\ now + Deadline <= MaxTime
  /\ ctl' = Started(ctl, cluster.canary, now)
  /\ samples' = Cleared(samples)
  /\ todo' = SetWeight(Weight(ctl'))
  /\ runner' = [NoRun EXCEPT !.at = "acting", !.started = now]
  /\ glass' = FALSE
  /\ UNCHANGED <<now, mode, cluster>>

\* A command succeeds.  After the last one the outcome is reported and the loop asks
\* whether the controller is still running.
Command ==
  /\ runner.at = "acting"
  /\ cluster' = Effect(Head(todo)) /\ todo' = Tail(todo)
  /\ runner' =
       IF Len(todo) > 1
         THEN [runner EXCEPT !.image = IF Head(todo).op = "read_image" THEN cluster.canary ELSE @]
       ELSE IF ctl.state = "canary" THEN [runner EXCEPT !.at = "sleeping"]
       ELSE [NoRun EXCEPT !.outcome = runner.next]
  /\ UNCHANGED <<now, mode, ctl, samples, glass>>

\* A command fails: KubectlError leaves run(), and the process ends.
CommandFails(done) ==
  /\ runner.at = "acting"
  /\ cluster' = IF done THEN Effect(Head(todo)) ELSE cluster
  /\ todo' = << >>
  /\ runner' = [NoRun EXCEPT !.at = "failed"]
  /\ ctl' = [Idle EXCEPT !.version = ctl.version]
  /\ samples' = Cleared(samples)
  /\ UNCHANGED <<now, mode, glass>>

\* The controller after `kind`, and the verb that goes with it.
Applies(kind, outcome) ==
  /\ ctl' = Decided(ctl, kind, now)
  /\ IF kind = "hold"
       THEN runner' = [runner EXCEPT !.failures = 0] /\ UNCHANGED todo
       ELSE /\ runner' = [runner EXCEPT !.at = "acting", !.failures = 0, !.next = outcome]
            /\ todo' = CASE kind = "advance" -> SetWeight(Weight(ctl'))
                         [] kind = "promote" -> Promote
                         [] OTHER -> Abort

\* The poll interval is less than a tick of the clock.
Awake == runner.at = "sleeping"

\* A slip: the deadline starts again with every step.
LateInStep == now - ctl.since >= Deadline

Late == now - runner.started >= Deadline

Expire ==
  /\ Awake /\ Late
  /\ Applies("rollback", "timed_out")
  /\ UNCHANGED <<now, mode, samples, cluster, glass>>

\* query: the transport, the status or the body of an answer may be wrong.
Unreadable == mode.source = "prometheus"

\* After the last tolerated failure in a row the rollout is aborted.
NoMetrics ==
  /\ Awake /\ ~Late /\ Unreadable
  /\ IF runner.failures + 1 >= MaxMetricFailures
       THEN Applies("rollback", "rolled_back")
       ELSE /\ runner' = [runner EXCEPT !.failures = @ + 1]
            /\ UNCHANGED <<ctl, todo>>
  /\ UNCHANGED <<now, mode, samples, cluster, glass>>

OutcomeOf(kind) ==
  CASE kind = "promote" -> "promoted" [] kind = "rollback" -> "rolled_back" [] OTHER -> "none"

\* PrometheusLaneSource.fetch: four queries over the look-back; errors never exceed requests.
Fetched(w) ==
  LET s == Summary(w, now) IN [s EXCEPT !.errors = IF @ > s.requests THEN s.requests ELSE @]

Evidence(lane) == IF mode.source = "prometheus" THEN Fetched(samples[lane]) ELSE Summary(samples[lane], now)

\* The summaries of both lanes go through the gates.
Evaluate ==
  /\ Awake /\ ~Late
  /\ \E kind \in {Decision(ctl, Evidence("stable"), Evidence("canary"), now)} :
       Applies(kind, OutcomeOf(kind))
  /\ UNCHANGED <<now, mode, samples, cluster, glass>>

RunnerStep == Command \/ Expire \/ NoMetrics \/ Evaluate

Next ==
  \/ RunnerStep \/ Run \/ Deploy \/ BreakGlass \/ Tick
  \/ \E done \in BOOLEAN : CommandFails(done)
  \/ \E r \in Traffic : Finish(r)

\* kubectl and Prometheus are called with a timeout, and the clock runs.
Spec == Init /\ [][Next]_vars /\ WF_vars(RunnerStep) /\ WF_vars(Tick)

----------------------------------------------------------------------------
(* Properties                                                              *)

\* Where the runner waits, or is done, the cluster is where the controller says: the
\* split is the step's, a promoted build is the stable one, and after a rollback stable
\* is what it was and the canary has neither traffic nor pods.
ClusterFollows ==
  ~glass =>
    /\ runner.at = "sleeping" =>
         cluster.up /\ cluster.weight = Weight(ctl) /\ cluster.share = 100 - cluster.weight
    /\ runner.at = "idle" /\ runner.outcome # "none" =>
         /\ cluster.weight = 0 /\ cluster.share = 100
         /\ (cluster.stable = ctl.version) <=> (runner.outcome = "promoted")

\* Traffic is never sent to a canary that has been scaled down.
NoTrafficToNobody == cluster.weight > 0 /\ ~cluster.up => glass

\* The requests of a lane that may speak for the build on trial: they ended within the
\* look-back and, in the controller's own windows, after the rollout began.
Heard(lane) ==
  {i \in DOMAIN samples[lane] : /\ samples[lane][i].t >= now - Window
                                /\ mode.source = "windows" => samples[lane][i].t >= runner.started}
Failed(lane) == {i \in Heard(lane) : ~samples[lane][i].ok}
Times(lane) == {samples[lane][i].ms : i \in Heard(lane) \ Failed(lane)}

\* The gates without percentiles: how often a lane fails; what is over the limit or slower
\* than some, or than every, request of a baseline that is large enough.
Unreliable == 100 * Cardinality(Failed("canary")) > MaxErrorPct * Cardinality(Heard("canary"))
Baseline == IF Cardinality(Heard("stable")) >= MinRequests THEN Times("stable") ELSE {}
OverLimit(ms) == MaxMs # None /\ ms > MaxMs
Slower(ms, than) == 100 * ms > MaxRatioPct * than
SlowerThanAll(ms) == Baseline # {} /\ \A b \in Baseline : b > 0 /\ Slower(ms, b)

\* What a rollback by the gates has to show: no traffic for too long, requests that failed,
\* or a slow one; or no metrics at all.
GroundsToSink ==
  \/ Cardinality(Heard("canary")) < MinRequests /\ StallTimeout # None /\ now - ctl.since >= StallTimeout
  \/ Unreliable
  \/ \E ms \in Times("canary") : OverLimit(ms) \/ \E b \in Baseline : Slower(ms, b)
  \/ mode.source = "prometheus" /\ runner.failures + 1 >= MaxMetricFailures

\* What a step up has to show: enough requests, few failures, and not all of them slow.
GroundsToRise ==
  /\ Cardinality(Heard("canary")) >= MinRequests /\ ~Unreliable
  /\ Times("canary") # {} => \E ms \in Times("canary") : ~OverLimit(ms) /\ ~SlowerThanAll(ms)

\* A build rises and falls by what the requests of its own rollout show: "samples from a
\* previous build must not be able to promote or sink the new one" (start(), tick()).
OwnMerits ==
  [][ctl.state = "canary" =>
       /\ ctl'.state = "rolled_back" /\ runner'.next = "rolled_back" => GroundsToSink
       /\ ctl'.step > ctl.step \/ ctl'.state = "promoted" => GroundsToRise]_vars

\* observe(): the stable window "already warm when start() is called is what makes the very
\* first ratio comparison meaningful".  A window that is warm stays so as a rollout starts.
Warm(window) == Summary(window, now).requests >= MinRequests
WarmBaseline ==
  [][ctl.state # "canary" /\ ctl'.state = "canary" /\ mode.source = "windows" =>
       (Warm(samples["stable"]) => Warm(samples'["stable"]))]_vars

\* A build becomes the stable one only after every step of the rollout has been held.
EarnedPromotion ==
  [][cluster'.stable # cluster.stable =>
       /\ ctl.state = "promoted" /\ cluster'.stable = ctl.version
       /\ now - runner.started >= StepHold * Len(Steps)]_vars

\* While a rollout runs the canary's share goes up one step at a time or to zero.
StepwiseWeight ==
  [][cluster'.weight > cluster.weight =>
       \E i \in DOMAIN Steps : /\ cluster'.weight = Steps[i]
                               /\ ~glass => cluster.weight = IF i = 1 THEN 0 ELSE Steps[i - 1]]_vars

\* A rollout comes to an end, whatever the traffic, the metrics and the cluster do.
RolloutEnds == ~Over ~> Over

\* The cluster is where the controller thinks it is.
ClusterInv == TypeOK /\ ClusterFollows /\ NoTrafficToNobody

\* A build earns its traffic, step by step, and its promotion.
RolloutEarned == EarnedPromotion /\ StepwiseWeight
=============================================================================
