------------------------------- MODULE Chaos -------------------------------
(***************************************************************************)
(* chaos/worker.py and chaos/harness.py over bench/loadgen.py: an open     *)
(* loop of requests through a router to replicas that the timeline drains, *)
(* kills, restarts and partitions, and the report of how the fleet fared.  *)
(* A replica is in this process, or a child process reached over HTTP.     *)
(* The router's own bookkeeping is Router's; here it may try any replica   *)
(* it has not tried, because what it knows of their health may be stale.   *)
(***************************************************************************)
EXTENDS FaultSchedule

CONSTANTS
  Requests,     \* the requests of the load
  Schedules,    \* lists of faults
  Steady,       \* whether the schedule has faults that are on for the whole run
  MaxAttempts,
  MaxTokens,    \* events of a completion
  MaxTime,      \* bound on the clock
  MaxTrouble    \* bound on control calls that get lost and restarts that fail

VARIABLES
  mode,         \* "inprocess" or "subprocess"
  timeline,     \* the events of the run
  now,
  applied,      \* the events that have been applied
  driver,       \* the event being applied
  fleet,        \* the replicas
  trouble,      \* replicas that missed a control call or failed to restart
  open,         \* open_by_target: the disruption of a replica, or 0
  disruptions,
  req,
  phase

vars == <<mode, timeline, now, applied, driver, fleet, trouble, open, disruptions, req, phase>>

\* ChaosSpec, as it checks itself.
ChaosSpecValid ==
  /\ Fleet # << >> /\ {Duration, MaxAttempts, MaxTokens} \subseteq Nat \ {0}
  /\ \A s \in Schedules : s \in Seq(Fault)

Nobody == "nobody"

ASSUME ChaosAssumption ==
  ChaosSpecValid /\ MaxTime \in Nat \ {0} /\ MaxTrouble \in Nat /\ Steady \in BOOLEAN
ASSUME ChaosNames == Nobody \notin Workers

NoEvent == Event(0, "none", Nobody, "none", <<0, 0>>)

\* WorkerFaults as a replica has them, and as its handle remembers them.
Faults == [steady : BOOLEAN, partitioned : BOOLEAN]
Calm == [steady |-> FALSE, partitioned |-> FALSE]

\* run: the fleet is started and has its steady faults before the clock starts.
Fresh == [alive |-> TRUE, draining |-> FALSE, generation |-> 0,
          faults |-> [Calm EXCEPT !.steady = Steady], wish |-> [Calm EXCEPT !.steady = Steady]]

Unsent == [at |-> "new", on |-> Nobody, generation |-> 0, tokens |-> 0, tried |-> {},
           born |-> 0, cause |-> "none", missed |-> FALSE]

\* Every field has its type, disruptions are open under their own target, and no request
\* tries a replica twice or more replicas than the router allows.
TypeOK ==
  /\ mode \in {"inprocess", "subprocess"} /\ now \in 0 .. MaxTime /\ phase \in {"load", "over"}
  /\ applied \subseteq timeline /\ driver \in timeline \union {NoEvent}
  /\ fleet \in [Workers -> [alive : BOOLEAN, draining : BOOLEAN, generation : Nat, faults : Faults, wish : Faults]]
  /\ trouble \subseteq Workers
  /\ \A w \in Workers : open[w] # 0 => disruptions[open[w]].target = w
  /\ \A r \in Requests :
       /\ req[r].at \in {"new", "routing", "waiting", "streaming", "done"}
       /\ req[r].on \notin req[r].tried /\ Cardinality(req[r].tried) <= MaxAttempts
       /\ req[r].tokens \in 0 .. MaxTokens
       /\ req[r].cause \in {"none", "unavailable", "interrupted", "timeout"}

Init ==
  /\ mode \in {"inprocess", "subprocess"}
  /\ \E s \in Schedules, offset \in 0 .. Len(Fleet) - 1 : timeline = Events(s, offset)
  /\ now = 0 /\ applied = {} /\ driver = NoEvent
  /\ fleet = [w \in Workers |-> Fresh]
  /\ trouble = {}
  /\ open = [w \in Workers |-> 0] /\ disruptions = << >>
  /\ req = [r \in Requests |-> Unsent]
  /\ phase = "load"

----------------------------------------------------------------------------
(* A replica                                                               *)

\* generate and health: what decides whether a replica takes a request.
Serving(w) == fleet[w].alive /\ ~fleet[w].draining /\ ~fleet[w].faults.partitioned

\* drain; for a child process, a call that is skipped when it is not running.
Drained(f) == IF mode = "subprocess" /\ ~f.alive THEN f ELSE [f EXCEPT !.draining = TRUE]

\* kill of a child process, which takes its state with it.
ProcessKilled(f) ==
  IF ~f.alive THEN f
  ELSE [f EXCEPT !.alive = FALSE, !.draining = FALSE, !.generation = @ + 1, !.faults = Calm]

\* kill
Killed(f) ==
  IF mode = "subprocess" THEN ProcessKilled(f)
  ELSE [f EXCEPT !.alive = FALSE, !.draining = TRUE, !.generation = @ + 1]

\* revive, or start(), which does nothing when the process runs.
Revived(f) ==
  IF mode = "inprocess" THEN [f EXCEPT !.alive = TRUE, !.draining = FALSE]
  ELSE IF f.alive THEN f
  ELSE [f EXCEPT !.alive = TRUE, !.draining = FALSE, !.faults = Calm]

\* restart: the remembered faults are put back, if there are any.
Restored(f) ==
  IF mode = "subprocess" /\ f.alive /\ f.wish # Calm THEN [f EXCEPT !.faults = f.wish] ELSE f

\* set_partitioned; `heard` when the call reaches the replica.
Partitioned(f, on, heard) ==
  [f EXCEPT !.wish.partitioned = on,
            !.faults.partitioned = IF heard /\ (mode = "inprocess" \/ f.alive) THEN on ELSE @]

----------------------------------------------------------------------------
(* _drive_faults                                                           *)

Pending == timeline \ applied

\* A slip: nothing is applied once the load has had its time.
DueInTime ==
  /\ driver = NoEvent /\ phase = "load" /\ Pending # {} /\ First(Pending).t <= now
  /\ First(Pending).t < Duration

\* The sleep until the next event is over.
Due == driver = NoEvent /\ phase = "load" /\ Pending # {} /\ First(Pending).t <= now

\* begin()
Begins(e) == e.action \in Down

Begin(e) ==
  IF open[e.target] = 0 /\ Begins(e)
    THEN /\ disruptions' = Append(disruptions, [target |-> e.target, kind |-> e.kind,
                                                state |-> "out", proven |-> TRUE])
         /\ open' = [open EXCEPT ![e.target] = Len(disruptions) + 1]
    ELSE UNCHANGED <<disruptions, open>>

\* open_by_target.pop, and the stamp of the restoration.
Close(w) ==
  /\ open' = [open EXCEPT ![w] = 0]
  /\ disruptions' = IF open[w] = 0 THEN disruptions
                    ELSE [disruptions EXCEPT ![open[w]].state = "back"]

\* A control call to a child process may be lost; that is logged and the run goes on.
Heard(w) == IF mode = "subprocess" /\ Cardinality(trouble) < MaxTrouble THEN BOOLEAN ELSE {TRUE}
Note(w, heard) == trouble' = IF heard THEN trouble ELSE trouble \union {w}

\* _apply: drain, kill and partition_start take effect at once.
Disrupt ==
  LET e == First(Pending)
      w == e.target
  IN  /\ Due /\ e.action \in Down
      /\ Begin(e)
      /\ \E heard \in (IF e.action = "kill" THEN {TRUE} ELSE Heard(w)) :
           /\ fleet' = [fleet EXCEPT ![w] =
                CASE e.action = "drain" -> IF heard THEN Drained(@) ELSE @
                  [] e.action = "kill" -> Killed(@)
                  [] OTHER -> Partitioned(@, TRUE, heard)]
           /\ Note(w, heard)
      /\ applied' = applied \union {e}
      /\ UNCHANGED <<mode, timeline, now, driver, req, phase>>

Reconnect ==
  LET e == First(Pending)
      w == e.target
  IN  /\ Due /\ e.action = "partition_end"
      /\ \E heard \in Heard(w) :
           fleet' = [fleet EXCEPT ![w] = Partitioned(@, FALSE, heard)] /\ Note(w, heard)
      /\ Close(w)
      /\ applied' = applied \union {e}
      /\ UNCHANGED <<mode, timeline, now, driver, req, phase>>

\* A restart takes its time in a child process: later events wait for it.
Restart ==
  /\ Due /\ First(Pending).action = "restart"
  /\ driver' = First(Pending)
  /\ UNCHANGED <<mode, timeline, now, applied, fleet, trouble, open, disruptions, req, phase>>

\* The replica serves, but a new process does not have its faults yet.
Ready ==
  /\ driver # NoEvent /\ driver \notin applied
  /\ fleet' = [fleet EXCEPT ![driver.target] = Revived(@)]
  /\ applied' = applied \union {driver}
  /\ UNCHANGED <<mode, timeline, now, driver, trouble, open, disruptions, req, phase>>

Restore ==
  LET w == driver.target
  IN  /\ driver # NoEvent /\ driver \in applied
      /\ \E heard \in Heard(w) :
           /\ fleet' = [fleet EXCEPT ![w] = IF heard THEN Restored(@) ELSE @]
           /\ Note(w, heard)
      /\ Close(w)
      /\ driver' = NoEvent
      /\ UNCHANGED <<mode, timeline, now, applied, req, phase>>

\* The new process exits before it is ready: the disruption stays open, with the error.
RestartFails ==
  /\ driver # NoEvent /\ driver \notin applied
  /\ mode = "subprocess" /\ ~fleet[driver.target].alive /\ Cardinality(trouble) < MaxTrouble
  /\ trouble' = trouble \union {driver.target}
  /\ applied' = applied \union {driver} /\ driver' = NoEvent
  /\ UNCHANGED <<mode, timeline, now, fleet, open, disruptions, req, phase>>

----------------------------------------------------------------------------
(* The load, through the router                                            *)

\* _merge_windows and _split_by_windows: a request counts as sent during faults if it was
\* sent after a disruption began and before that was seen to be over.
DuringFaults == \E d \in DOMAIN disruptions : disruptions[d].state # "recovered"

\* run_open_loop: arrivals until the deadline, whatever is in flight.  The report would miss
\* a request that is sent with a replica out of service and not counted.
Send(r) ==
  /\ phase = "load" /\ now < Duration /\ req[r].at = "new"
  /\ req' = [req EXCEPT ![r] = [@ EXCEPT !.at = "routing",
                 !.missed = (\E w \in Workers : ~Serving(w)) /\ ~DuringFaults]]
  /\ UNCHANGED <<mode, timeline, now, applied, driver, fleet, trouble, open, disruptions, phase>>

\* Whether a success on its replica is the recovery of a disruption.
Overdue(d) == disruptions[d].state = "back"

\* The client's record of a request that has ended: _RoutedLoad and _drive_one; and
\* _attribute_recoveries, which looks for the first success on a replica after it was
\* brought back.  The recovery is proven if the request was admitted after the disruption began.
Ended(r, cause) ==
  /\ req' = [req EXCEPT ![r] = [Unsent EXCEPT !.at = "done", !.cause = cause, !.missed = req[r].missed,
                                   !.on = IF cause = "interrupted" THEN req[r].on ELSE Nobody]]
  /\ disruptions' = [d \in DOMAIN disruptions |->
       IF cause = "none" /\ disruptions[d].target = req[r].on /\ Overdue(d)
         THEN [disruptions[d] EXCEPT !.state = "recovered", !.proven = req[r].born >= d]
         ELSE disruptions[d]]

\* A retryable failure: the router goes on to another replica.
Elsewhere(r, w) ==
  /\ req' = [req EXCEPT ![r] = [Unsent EXCEPT !.at = "routing", !.tried = req[r].tried \union {w},
                                   !.missed = req[r].missed]]
  /\ UNCHANGED disruptions

\* generate, up to the first await.
Attempt(r, w) ==
  /\ req[r].at = "routing" /\ w \notin req[r].tried /\ Cardinality(req[r].tried) < MaxAttempts
  /\ IF Serving(w)
       THEN /\ req' = [req EXCEPT ![r] = [@ EXCEPT !.at = "waiting", !.on = w, !.tokens = 0,
                         !.generation = fleet[w].generation, !.born = Len(disruptions)]]
            /\ UNCHANGED disruptions
       ELSE Elsewhere(r, w)
  /\ UNCHANGED <<mode, timeline, now, applied, driver, fleet, trouble, open, phase>>

\* No replica is left to try, or none is believed to be healthy.
Unrouted(r) ==
  /\ req[r].at = "routing" /\ (req[r].tried # {} \/ \E w \in Workers : ~Serving(w))
  /\ Ended(r, "unavailable")
  /\ UNCHANGED <<mode, timeline, now, applied, driver, fleet, trouble, open, phase>>

\* The error draw comes after the injected delay.
Injected(r) ==
  /\ req[r].at = "waiting" /\ fleet[req[r].on].faults.steady
  /\ Elsewhere(r, req[r].on)
  /\ UNCHANGED <<mode, timeline, now, applied, driver, fleet, trouble, open, phase>>

\* A slip: only a replica that is down cuts its streams.
CutIfDown(r) == ~fleet[req[r].on].alive

\* What a stream checks at each event: whether its replica was killed since it began.
Cut(r) == req[r].generation # fleet[req[r].on].generation \/ ~fleet[req[r].on].alive

\* The next event of a stream.  A stream that is cut fails for good, except that a broken
\* connection that has carried no token is retryable.
StreamEvent(r) ==
  /\ req[r].at \in {"waiting", "streaming"}
  /\ CASE Cut(r) /\ mode = "subprocess" /\ req[r].tokens = 0 -> Elsewhere(r, req[r].on)
       [] Cut(r) /\ ~(mode = "subprocess" /\ req[r].tokens = 0) -> Ended(r, "interrupted")
       [] ~Cut(r) /\ req[r].tokens + 1 < MaxTokens ->
            /\ req' = [req EXCEPT ![r] = [@ EXCEPT !.at = "streaming", !.tokens = req[r].tokens + 1]]
            /\ UNCHANGED disruptions
       [] OTHER -> Ended(r, "none")
  /\ UNCHANGED <<mode, timeline, now, applied, driver, fleet, trouble, open, phase>>

\* request_timeout_s
TimeOut(r) ==
  /\ req[r].at \in {"waiting", "streaming"}
  /\ Ended(r, "timeout")
  /\ UNCHANGED <<mode, timeline, now, applied, driver, fleet, trouble, open, phase>>

\* An event is applied when it is due; only a restart holds the driver up.
Tick ==
  /\ phase = "load" /\ now < MaxTime /\ ~Due
  /\ now' = now + 1
  /\ UNCHANGED <<mode, timeline, applied, driver, fleet, trouble, open, disruptions, req, phase>>

\* The next arrival is past the deadline and nothing is in flight: the fault task is
\* cancelled, wherever it is, and the report is made.
Finish ==
  /\ phase = "load" /\ \A r \in Requests : req[r].at \in {"new", "done"}
  /\ phase' = "over" /\ driver' = NoEvent
  /\ UNCHANGED <<mode, timeline, now, applied, fleet, trouble, open, disruptions, req>>

Drive == Disrupt \/ Reconnect \/ Restart \/ Ready \/ Restore \/ RestartFails
Serve(r) == (\E w \in Workers : Attempt(r, w)) \/ Unrouted(r) \/ Injected(r) \/ StreamEvent(r) \/ TimeOut(r)

Next == Drive \/ Tick \/ Finish \/ \E r \in Requests : Send(r) \/ Serve(r)

\* The driver and the clock run.
Spec == Init /\ [][Next]_vars /\ WF_vars(Drive) /\ WF_vars(Tick)

----------------------------------------------------------------------------
(* Properties                                                              *)

Settled == driver = NoEvent /\ phase = "load"

\* A replica that no two faults hit at once is out of service exactly while it has a
\* disruption open, whichever faults hit it and however long its restarts take.
DisruptionsCover ==
  Settled /\ ~(\A w \in Workers \ trouble : ~Serving(w) <=> open[w] # 0) => ~Clean(timeline)

\* The outages the run warns of are the outages there are.
OutageForeseen ==
  Settled /\ trouble = {} =>
    \/ (\A w \in Workers : ~Serving(w)) <=> DownAfter(applied) = Workers
    \/ ~Clean(timeline)

\* A replica that comes back exactly when another goes is back first, even if it is slow:
\* the whole fleet is down only if the faults themselves overlap.
NoNeedlessOutage ==
  trouble = {} /\ (\A w \in Workers : ~Serving(w)) => Doomed(timeline) \/ ~Clean(timeline)

\* When the timeline has been played out every replica is back.
BroughtBack == Settled /\ Pending = {} /\ trouble = {} => \A w \in Workers : Serving(w)

\* A replica that runs has the faults it was given, also after a restart: no part of a run
\* is easier than the rest.
NoEasyHalf == Settled => \A w \in Workers \ trouble : fleet[w].alive => fleet[w].faults = fleet[w].wish

\* A request that is reported as the recovery of a killed replica was admitted after the
\* replica had gone: a stream never outlives its replica, even if that is quickly back.
RecoveryProven ==
  \A d \in DOMAIN disruptions :
    disruptions[d].kind = "kill" => disruptions[d].proven \/ ~Clean(timeline)

\* A request that was sent while a replica was out counts as sent during faults.
ImpairedCounted ==
  trouble = {} => \A r \in Requests : ~req[r].missed \/ ~Clean(timeline)

\* A drain or a partition spares what is in flight: only a kill interrupts a stream.
DrainSpares ==
  \A r \in Requests : req[r].cause = "interrupted" =>
    \E e \in applied : e.action = "kill" /\ e.target = req[r].on
\* What the harness takes out of service comes back, unless the run ends first.
FleetReturns ==
  \A w \in Workers : ~Serving(w) ~> (Serving(w) \/ phase = "over" \/ trouble # {})

\* The fleet suffers the faults of the schedule, and no others.
ChaosInv ==
  TypeOK /\ OutageForeseen /\ NoNeedlessOutage /\ BroughtBack /\ NoEasyHalf /\ DrainSpares

\* What the report says of the disruptions is what happened.
ReportTrue == DisruptionsCover /\ ImpairedCounted /\ RecoveryProven
=============================================================================
