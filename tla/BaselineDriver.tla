--------------------------- MODULE BaselineDriver ---------------------------
(***************************************************************************)
(* How the benchmarks drive a baseline (bench/scenarios/common.py,          *)
(* BaselineBackend): requests gather in an inbox, one driver task hands     *)
(* them to the engine and has a worker thread generate a batch, and the     *)
(* results go to the futures that the callers await.  Which requests make a *)
(* batch, and what it answers, is BaselineEngine's; here a batch is as many *)
(* of the queued requests as fit, its order left open.                      *)
(***************************************************************************)
EXTENDS Naturals, FiniteSets

CONSTANTS
  Client,   \* the calls of generate(), each with a request id of its own
  Wrapped   \* the engines: [size, inPlace], the latter if _take_batch pops from the list

ASSUME DriverAssumption == \A w \in Wrapped : w.size \in Nat \ {0} /\ w.inPlace \in BOOLEAN

VARIABLES
  wrapped,     \* _engine
  held,        \* the engine's queue
  client,      \* where each call is
  future,      \* the future of each call
  pending,     \* _pending: the calls whose future can be found
  inbox,       \* _inbox
  wake,        \* _wake
  driver,      \* where the driver task is
  worker,      \* the thread of asyncio.to_thread(step)
  generating,  \* the batch it has taken
  stopped,     \* _closed: no, closing (while close() awaits the driver), yes
  skipped      \* history: requests that fell out of the queue, see Collide

driverVars ==
  <<wrapped, held, client, future, pending, inbox, wake, driver, worker, generating, stopped, skipped>>

DriverTypeOK ==
  /\ wrapped \in Wrapped
  /\ client \in [Client -> {"new", "waiting", "over"}]
  /\ future \in [Client -> {"none", "open", "answered", "refused", "failed", "cancelled"}]
  /\ held \in SUBSET Client /\ pending \in SUBSET Client /\ inbox \in SUBSET Client
  /\ generating \in SUBSET Client /\ skipped \in SUBSET Client
  /\ wake \in BOOLEAN
  /\ driver \in {"none", "asleep", "gathering", "stepping", "dead", "cancelled"}
  /\ worker \in {"idle", "called", "generating", "returned", "raised"}
  /\ stopped \in {"no", "closing", "yes"}

DriverInit ==
  /\ wrapped \in Wrapped
  /\ client = [c \in Client |-> "new"] /\ future = [c \in Client |-> "none"]
  /\ held = {} /\ pending = {} /\ inbox = {} /\ generating = {} /\ skipped = {}
  /\ wake = FALSE /\ driver = "none" /\ worker = "idle" /\ stopped = "no"

----------------------------------------------------------------------------
(* The callers.                                                              *)

\* A slip: a driver is started once and taken to live for ever.
AliveOnceStarted == driver # "none"

\* A driver task that is not done().
Alive == driver \in {"asleep", "gathering", "stepping"}

Unset(c) == c \in pending /\ future[c] = "open"

\* generate up to the await; _ensure_driver starts a task where none is alive.
Enqueue(c) ==
  /\ client[c] = "new"
  /\ \/ /\ stopped = "no"
        /\ driver' = IF Alive THEN driver ELSE "asleep"
        /\ client' = [client EXCEPT ![c] = "waiting"]
        /\ future' = [future EXCEPT ![c] = "open"]
        /\ pending' = pending \cup {c} /\ inbox' = inbox \cup {c} /\ wake' = TRUE
     \/ /\ stopped # "no"
        /\ client' = [client EXCEPT ![c] = "over"]
        /\ UNCHANGED <<driver, future, pending, inbox, wake>>
  /\ UNCHANGED <<wrapped, held, worker, generating, stopped, skipped>>

\* The future is done: the event, or the exception, and the finally clause.
Resume(c) ==
  /\ client[c] = "waiting" /\ future[c] # "open"
  /\ client' = [client EXCEPT ![c] = "over"]
  /\ pending' = pending \ {c}
  /\ UNCHANGED <<wrapped, held, future, inbox, wake, driver, worker, generating, stopped, skipped>>

\* _take_batch: as many as fit.
Batches ==
  {b \in SUBSET held : IF Cardinality(held) <= wrapped.size THEN b = held ELSE Cardinality(b) = wrapped.size}

\* engine.abort rebuilds the list of the queue in the event loop; the worker's _take_batch may
\* run in the middle.  The list it had begun to copy brings the batch back, and if the worker
\* popped from that very list (NaiveHFEngine) the copy misses the element that moved up.
Collide(c) ==
  /\ worker = "called" /\ stopped # "yes"
  /\ \E b \in Batches \ {{}}, moved \in SUBSET held :
       /\ moved # {} => wrapped.inPlace /\ moved \cap b = {} /\ Cardinality(moved) = 1
       /\ worker' = "generating" /\ generating' = b
       /\ held' = held \ (moved \cup {c})
       /\ skipped' = skipped \cup (moved \ {c})

\* The caller is cancelled, by a timeout or by closing the iterator.
Leave(c) ==
  /\ client[c] = "waiting"
  /\ client' = [client EXCEPT ![c] = "over"]
  /\ future' = [future EXCEPT ![c] = IF @ = "open" THEN "cancelled" ELSE @]
  /\ pending' = pending \ {c}
  /\ \/ held' = held \ {c} /\ UNCHANGED <<worker, generating, skipped>>
     \/ Collide(c)
  /\ UNCHANGED <<wrapped, inbox, wake, driver, stopped>>

----------------------------------------------------------------------------
(* The worker thread: step().                                                *)

Take ==
  /\ worker = "called"
  /\ \/ /\ stopped = "yes" /\ worker' = "raised"
        /\ UNCHANGED <<held, generating>>
     \/ /\ stopped # "yes"
        /\ \E b \in Batches :
             /\ generating' = b /\ held' = held \ b
             /\ worker' = IF b = {} THEN "returned" ELSE "generating"
  /\ UNCHANGED <<wrapped, client, future, pending, inbox, wake, driver, stopped, skipped>>

\* generate() of the library, or what precedes it, may raise.
Generate ==
  /\ worker = "generating" /\ worker' \in {"returned", "raised"}
  /\ UNCHANGED <<wrapped, held, client, future, pending, inbox, wake, driver, generating, stopped, skipped>>

----------------------------------------------------------------------------
(* The driver task, _drive.                                                  *)

\* _flush_inbox, with the futures as `known`: the engine takes the requests that still have
\* one open and may refuse some, and is stepped if it has any.
Flush(known) ==
  LET live == {c \in inbox \cap pending : known[c] = "open"}
  IN \E refused \in SUBSET live :
       /\ future' = [c \in Client |-> IF c \in refused THEN "refused" ELSE known[c]]
       /\ held' = held \cup (live \ refused)
       /\ inbox' = {} /\ generating' = {}
       /\ driver' = IF held' = {} THEN "asleep" ELSE "stepping"
       /\ worker' = IF held' = {} THEN "idle" ELSE "called"

\* The event is cleared before the batch window.
Wake ==
  /\ driver = "asleep" /\ wake
  /\ driver' = "gathering" /\ wake' = FALSE
  /\ UNCHANGED <<wrapped, held, client, future, pending, inbox, worker, generating, stopped, skipped>>

Collect ==
  /\ driver = "gathering" /\ Flush(future)
  /\ UNCHANGED <<wrapped, client, pending, wake, stopped, skipped>>

\* _resolve, then the arrivals of the meantime.
Resolve ==
  /\ driver = "stepping" /\ worker = "returned"
  /\ Flush([c \in Client |-> IF c \in generating /\ Unset(c) THEN "answered" ELSE future[c]])
  /\ UNCHANGED <<wrapped, client, pending, wake, stopped, skipped>>

\* A slip: the futures that wait are dropped with the dictionary.
ForgetPending == pending' = {} /\ UNCHANGED future

\* _fail_pending
FailPending ==
  /\ pending' = {}
  /\ future' = [c \in Client |-> IF Unset(c) THEN "failed" ELSE future[c]]

\* The step raised: the driver fails everybody and ends; the queue and the inbox stay.
Die ==
  /\ driver = "stepping" /\ worker = "raised"
  /\ driver' = "dead" /\ worker' = "idle" /\ generating' = {}
  /\ FailPending
  /\ UNCHANGED <<wrapped, held, client, inbox, wake, stopped, skipped>>

----------------------------------------------------------------------------
(* close                                                                     *)

\* The driver is cancelled where it awaits; its thread, if there is one, goes on.
CloseBegins ==
  /\ stopped = "no" /\ Alive
  /\ stopped' = "closing" /\ driver' = "cancelled"
  /\ UNCHANGED <<wrapped, held, client, future, pending, inbox, wake, worker, generating, skipped>>

CloseEnds ==
  /\ stopped = "closing" \/ (stopped = "no" /\ ~Alive)
  /\ stopped' = "yes" /\ driver' = "none"
  /\ FailPending
  /\ held' = {}
  /\ UNCHANGED <<wrapped, client, inbox, wake, worker, generating, skipped>>

DriverNext ==
  \/ \E c \in Client : Enqueue(c) \/ Resume(c) \/ Leave(c)
  \/ Take \/ Generate
  \/ Wake \/ Collect \/ Resolve \/ Die
  \/ CloseBegins \/ CloseEnds

DriverSpec == DriverInit /\ [][DriverNext]_driverVars

----------------------------------------------------------------------------
(* Properties.                                                               *)

Awaits(c) == client[c] = "waiting" /\ future[c] = "open"

\* A caller that waits has somebody who will serve it or fail it: a driver that is about to
\* empty the inbox, a step that its request is in or queued for, or close() on its way to fail
\* everybody.  So it is when drivers die and are replaced, when requests arrive before, in and
\* after the batch window, and when callers leave (generate, _drive, _fail_pending).  Only a
\* request that fell out of the queue in Collide may wait in vain.
NobodyStranded ==
  \A c \in Client : Awaits(c) /\ c \notin skipped =>
    \/ stopped = "closing"
    \/ c \in inbox /\ (driver \in {"gathering", "stepping"} \/ (driver = "asleep" /\ wake))
    \/ c \in held \cup generating /\ driver = "stepping"

\* That happens to the engine that pops from its list, and not to static batches; and close()
\* ends the wait of everybody (abort, close).
WaitsEnd ==
  /\ skipped # {} => wrapped.inPlace
  /\ stopped = "yes" => \A c \in Client : ~Awaits(c)

\* The engine is never stepped for two drivers: a new one starts when the thread of the last is
\* done, except that close() does not wait for the thread (_ensure_driver, _drive).
OneAtATime == worker # "idle" => driver = "stepping" \/ stopped # "no"

\* The callers of a baseline are served, told or released, by one driver at a time.
DriverServes == DriverTypeOK /\ NobodyStranded /\ WaitsEnd /\ OneAtATime
=============================================================================
