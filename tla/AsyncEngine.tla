---------------------------- MODULE AsyncEngine ----------------------------
(***************************************************************************)
(* engine/runtime/async_engine.py: the event loop that serves generate()   *)
(* calls, the loop task _run() that owns the engine, and the worker thread *)
(* in which engine.step() runs.  gateway/backends/local_engine.py drives   *)
(* it.                                                                     *)
(*                                                                         *)
(* Code on the event loop runs without interruption from one await to the  *)
(* next; while the loop task is between two awaits (`loop` in Busy) no     *)
(* other coroutine moves.  The step thread runs beside all of them.        *)
(*                                                                         *)
(* The wrapped engine is reduced to the requests it has in flight; that    *)
(* each of them is served is the subject of Engine.tla.                    *)
(***************************************************************************)
EXTENDS Integers, Sequences, FiniteSets, SequencesExt, Functions

CONSTANTS
  Call,        \* calls of generate()
  RequestId,   \* the ids callers choose
  Uses,        \* how callers use it: the calls made, the request id of each, and
               \* whether the backend calls start() on an engine that died
  Steps,       \* engine steps a request takes; the first yields no token
  Faults,      \* whether engine.step may raise
  Closes       \* whether close() may be called

ASSUME UseAssumption ==
  Uses \subseteq [calls : SUBSET Call, idOf : [Call -> RequestId], restarts : BOOLEAN]
ASSUME StepsAssumption == Steps \in Nat \ {0}
ASSUME AsyncSwitches == {Faults, Closes} \subseteq BOOLEAN

VARIABLES
  use,         \* the one of Uses that is made
  pending,     \* _pending
  aborting,    \* _aborting
  streams,     \* _streams: request id -> the call whose queue it feeds
  queue,       \* the asyncio.Queue of each call
  caller,      \* where each call is
  wake,        \* _wake
  loop,        \* where the loop task is
  closed,      \* _closed
  thread,      \* the worker thread: idle, running a step, or done with it
  outputs,     \* what the step returned
  engine,      \* LLMEngine: request id -> the call it was added for
  engineOpen,  \* ~ LLMEngine._closed
  progress     \* engine steps each call's request has had

clientVars == <<queue, caller>>
threadVars == <<thread, outputs>>
engineVars == <<engine, engineOpen, progress>>
vars == <<use, pending, aborting, streams, clientVars, wake, loop, closed, threadVars, engineVars>>

\* A delta or a final output of the engine, an ABORT terminator, an exception.
Kind == {"delta", "final", "abort", "error"}
Output == [kind : Kind, call : Call]
Out(kind, c) == [kind |-> kind, call |-> c]
Terminal == {"final", "abort", "error"}

\* The places of _run: created, at an await, between two awaits, and ended.
Busy == {"pending", "aborts", "closing"}
LoopState == {"stopped", "ready", "waiting", "stepping", "dead", "cancelling"} \cup Busy

\* The tables map ids to calls, the queues hold outputs, and no request is stepped
\* after its last step.
TypeOK ==
  /\ pending \in Seq(Call) /\ aborting \in Seq(RequestId)
  /\ DOMAIN streams \subseteq RequestId /\ Range(streams) \subseteq Call
  /\ queue \in [Call -> Seq(Output)]
  /\ caller \in [Call -> {"new", "open", "done", "failed", "gone"}]
  /\ wake \in BOOLEAN /\ closed \in BOOLEAN /\ engineOpen \in BOOLEAN
  /\ loop \in LoopState
  /\ thread \in {"idle", "running", "done", "raised"}
  /\ outputs \in SUBSET Output
  /\ DOMAIN engine \subseteq RequestId /\ Range(engine) \subseteq Call
  /\ progress \in [Call -> 0 .. Steps]

IdOf == use.idOf

Nothing == [x \in {} |-> x]

Init ==
  /\ use \in Uses
  /\ pending = << >> /\ aborting = << >> /\ streams = Nothing
  /\ queue = [c \in Call |-> << >>] /\ caller = [c \in Call |-> "new"]
  /\ wake = FALSE /\ loop = "stopped" /\ closed = FALSE
  /\ thread = "idle" /\ outputs = {}
  /\ engine = Nothing /\ engineOpen = TRUE /\ progress = [c \in Call |-> 0]

----------------------------------------------------------------------------
Put(f, x, y) == [z \in DOMAIN f \cup {x} |-> IF z = x THEN y ELSE f[z]]
Pop(f, x) == Restrict(f, DOMAIN f \ {x})

\* queue.put_nowait on the queues of several calls: `items` holds at most one
\* output for a stream.
Delivered(items) ==
  [c \in Call |->
     LET mine == {i \in items : IdOf[i.call] \in DOMAIN streams /\ streams[IdOf[i.call]] = c}
     IN  IF mine = {} THEN queue[c] ELSE Append(queue[c], CHOOSE i \in mine : TRUE)]

\* A slip: the streams are forgotten and nobody is told.
FailAllSilently == UNCHANGED queue /\ streams' = Nothing

\* _fail_all puts the error on every open stream and forgets them.
FailAll ==
  /\ queue' = [c \in Call |-> IF c \in Range(streams) THEN Append(queue[c], Out("error", c))
                              ELSE queue[c]]
  /\ streams' = Nothing

----------------------------------------------------------------------------
(* Callers: generate() up to its queue, its loop, and its finally block    *)

Running == loop \in {"ready", "waiting", "stepping", "pending", "aborts"}
Free == loop \notin Busy

\* abort_nowait
QueueAbort(c) ==
  /\ aborting' = Append(aborting, IdOf[c])
  /\ wake' = TRUE

\* A closed or a dead engine, and an id that is streaming, are refused.
Refused(c) == closed \/ loop = "dead" \/ IdOf[c] \in DOMAIN streams

\* A slip: the loop is not woken.
SubmitSilently(c) == pending' = Append(pending, c) /\ UNCHANGED wake

Submit(c) == pending' = Append(pending, c) /\ wake' = TRUE

Generate(c) ==
  /\ Free /\ c \in use.calls /\ caller[c] = "new" /\ ~Refused(c)
  /\ caller' = [caller EXCEPT ![c] = "open"]
  /\ loop' = IF Running THEN loop ELSE "ready"
  /\ streams' = Put(streams, IdOf[c], c)
  /\ Submit(c)
  /\ UNCHANGED <<aborting, queue, closed, threadVars, engineVars>>

GenerateRefused(c) ==
  /\ Free /\ c \in use.calls /\ caller[c] = "new" /\ Refused(c)
  /\ caller' = [caller EXCEPT ![c] = "failed"]
  /\ UNCHANGED <<pending, aborting, streams, queue, wake, loop, closed, threadVars, engineVars>>

\* The finally block of generate().  An exception aborts the request, and so does a
\* consumer that closes the generator at the yield of its last item, as the backend
\* does; one that asks for the next item finds it finished.
Finally(c, kind) ==
  \/ kind # "error" /\ UNCHANGED <<aborting, wake>>
  \/ kind \in Terminal /\ QueueAbort(c)

\* queue.get(): a delta is yielded, a terminator ends the stream, an exception is
\* raised and the finally block aborts the request.
Consume(c) ==
  /\ Free /\ caller[c] = "open" /\ queue[c] # << >>
  /\ queue' = [queue EXCEPT ![c] = Tail(@)]
  /\ LET kind == Head(queue[c]).kind
     IN  /\ caller' = [caller EXCEPT ![c] = CASE kind = "delta" -> "open"
                                              [] kind = "error" -> "failed"
                                              [] OTHER -> "done"]
         /\ Finally(c, kind)
  /\ UNCHANGED <<pending, streams, loop, closed, threadVars, engineVars>>

\* The consumer closes the generator early: a disconnect, a timeout, a break.
Leave(c) ==
  /\ Free /\ caller[c] = "open"
  /\ caller' = [caller EXCEPT ![c] = "gone"]
  /\ QueueAbort(c)
  /\ UNCHANGED <<pending, streams, queue, loop, closed, threadVars, engineVars>>

----------------------------------------------------------------------------
(* The loop task                                                           *)

\* The task starts, or _wait_for_work returns because of the event.
LoopTurn ==
  /\ \/ loop = "ready"
     \/ loop = "waiting" /\ wake
  /\ loop' = "pending"
  /\ UNCHANGED <<pending, aborting, streams, clientVars, wake, closed, threadVars, engineVars>>

\* _drain_pending, one item.  The engine refuses a duplicate, and what it cannot
\* hold; only that caller hears of it.
DrainPending ==
  /\ loop = "pending" /\ pending # << >>
  /\ LET c == Head(pending)
         r == IdOf[c]
     IN  \/ /\ r \notin DOMAIN engine
            /\ engine' = Put(engine, r, c)
            /\ UNCHANGED <<streams, queue>>
         \/ /\ queue' = [queue EXCEPT ![c] = Append(@, Out("error", c))]
            /\ streams' = Pop(streams, r)
            /\ UNCHANGED engine
  /\ pending' = Tail(pending)
  /\ UNCHANGED <<aborting, caller, wake, loop, closed, threadVars, engineOpen, progress>>

EndPending ==
  /\ loop = "pending" /\ pending = << >>
  /\ loop' = "aborts"
  /\ UNCHANGED <<pending, aborting, streams, clientVars, wake, closed, threadVars, engineVars>>

\* A slip: the stream is closed and the engine goes on.
EngineAbortForgotten(r) == UNCHANGED engine

\* LLMEngine.abort; False, and no change, for an id that is not in flight.
EngineAbort(r) == engine' = Pop(engine, r)

\* _drain_aborts, one item: the engine lets go of the request, and a stream that
\* is still there gets an ABORT terminator.
DrainAbort ==
  /\ loop = "aborts" /\ aborting # << >>
  /\ LET r == Head(aborting)
     IN  /\ EngineAbort(r)
         /\ streams' = Pop(streams, r)
         /\ queue' = [c \in Call |->
              IF r \in DOMAIN streams /\ streams[r] = c
                THEN Append(queue[c], Out("abort", c)) ELSE queue[c]]
  /\ aborting' = Tail(aborting)
  /\ UNCHANGED <<pending, caller, wake, loop, closed, threadVars, engineOpen, progress>>

\* Nothing in flight: _wait_for_work clears the event and sleeps.
GoIdle ==
  /\ loop = "aborts" /\ aborting = << >> /\ engine = Nothing
  /\ wake' = FALSE /\ loop' = "waiting"
  /\ UNCHANGED <<pending, aborting, streams, clientVars, closed, threadVars, engineVars>>

StartStep ==
  /\ loop = "aborts" /\ aborting = << >> /\ engine # Nothing
  /\ thread' = "running" /\ loop' = "stepping"
  /\ UNCHANGED <<pending, aborting, streams, clientVars, wake, closed, outputs, engineVars>>

\* A slip: a stream stays open after its final output.
EndedNever(items) == {}

\* The request ids that have just had their final output.
Ended(items) == {IdOf[i.call] : i \in {o \in items : o.kind = "final"}}

\* _dispatch by request id; a final output closes its stream.  Then the next
\* turn begins, without an await.
Dispatch ==
  /\ loop = "stepping" /\ thread = "done"
  /\ queue' = Delivered(outputs)
  /\ streams' = Restrict(streams, DOMAIN streams \ Ended(outputs))
  /\ thread' = "idle" /\ outputs' = {}
  /\ loop' = "pending"
  /\ UNCHANGED <<pending, aborting, caller, wake, closed, engineVars>>

\* The step raised: every open stream hears of it and the task ends.
LoopDies ==
  /\ loop = "stepping" /\ thread = "raised"
  /\ FailAll
  /\ loop' = "dead" /\ thread' = "idle"
  /\ UNCHANGED <<pending, aborting, caller, wake, closed, outputs, engineVars>>

----------------------------------------------------------------------------
(* The worker thread: engine.step                                          *)

InEngine == Range(engine)

\* What the engine still has after a step.
Unfinished(steps) == Restrict(engine, {r \in DOMAIN engine : steps[engine[r]] # Steps})

\* Some of the requests in flight advance; those past their first step yield a
\* token, those at their last leave the engine.
ThreadStep(advance) ==
  /\ thread = "running"
  /\ progress' = [c \in Call |-> progress[c] + (IF c \in advance THEN 1 ELSE 0)]
  /\ outputs' = {Out(IF progress'[c] = Steps THEN "final" ELSE "delta", c) :
                   c \in {d \in advance : progress'[d] > 1 \/ progress'[d] = Steps}}
  /\ engine' = Unfinished(progress')
  /\ thread' = "done"
  /\ UNCHANGED <<pending, aborting, streams, clientVars, wake, loop, closed, engineOpen>>

ThreadRaises ==
  /\ Faults /\ thread = "running"
  /\ thread' = "raised"
  /\ UNCHANGED <<pending, aborting, streams, clientVars, wake, loop, closed, outputs, engineVars>>

----------------------------------------------------------------------------
(* close(), and start() on an engine that died                             *)

\* close() up to its await: a task that runs is cancelled.  Cancelling a task
\* that awaits to_thread does not stop the thread.
CloseBegin ==
  /\ Closes /\ Free /\ ~closed
  /\ closed' = TRUE
  /\ loop' = IF Running THEN "cancelling" ELSE "closing"
  /\ UNCHANGED <<pending, aborting, streams, clientVars, wake, threadVars, engineVars>>

\* The rest of it: the streams are failed and LLMEngine.close() empties the engine.
CloseEnd ==
  /\ loop \in {"cancelling", "closing"}
  /\ FailAll
  /\ engine' = Nothing /\ engineOpen' = FALSE
  /\ loop' = "stopped"
  /\ UNCHANGED <<pending, aborting, caller, wake, closed, threadVars, progress>>

\* _ensure_engine calls start() on the engine it has, dead or not.
Restart ==
  /\ use.restarts /\ loop = "dead" /\ ~closed
  /\ loop' = "ready"
  /\ UNCHANGED <<pending, aborting, streams, clientVars, wake, closed, threadVars, engineVars>>

----------------------------------------------------------------------------
Loop ==
  /\ \/ LoopTurn \/ DrainPending \/ EndPending \/ DrainAbort \/ GoIdle \/ StartStep
     \/ Dispatch \/ LoopDies \/ CloseEnd
  /\ UNCHANGED use

Thread ==
  /\ \/ \E advance \in SUBSET InEngine :
          (advance # {} \/ InEngine = {}) /\ ThreadStep(advance)
     \/ ThreadRaises
  /\ UNCHANGED use

Next ==
  \/ /\ \/ \E c \in Call : Generate(c) \/ GenerateRefused(c) \/ Consume(c) \/ Leave(c)
        \/ CloseBegin \/ Restart
     /\ UNCHANGED use
  \/ Loop \/ Thread

Spec == Init /\ [][Next]_vars

\* The event loop's ready queue is first in, first out: the loop task gets its
\* turns, and a consumer whose queue holds an item runs between them (SF, because
\* it may not run while the task is between two awaits).  The thread ends.
Fairness ==
  /\ WF_vars(Loop) /\ WF_vars(Thread)
  /\ \A c \in Call : SF_vars(Consume(c) /\ UNCHANGED use)

FairSpec == Spec /\ Fairness

----------------------------------------------------------------------------
(* Properties                                                              *)

\* Nobody waits for ever on a queue that nothing feeds: an open call either owns
\* its stream or has the end of it in its queue.
NoOrphan ==
  \A c \in Call : caller[c] = "open" =>
    \/ IdOf[c] \in DOMAIN streams /\ streams[IdOf[c]] = c
    \/ \E i \in DOMAIN queue[c] : queue[c][i].kind \in Terminal

\* A dropped connection does not keep its blocks: a request in a living engine
\* has its stream, or its abort is on the way.  (In an engine that is started again
\* the requests of the failed streams stay until their callers have read the error.)
NoZombie ==
  ~use.restarts /\ Running /\ loop # "aborts" => \A r \in DOMAIN engine :
    \/ r \in DOMAIN streams /\ streams[r] = engine[r] /\ caller[engine[r]] = "open"
    \/ r \in ToSet(aborting)

\* Each call is sent its own tokens, in one stream that ends once.  (An engine that
\* is started again may refuse what was pending when it died, a second end.)
OwnStream ==
  \A c \in Call : \A i \in DOMAIN queue[c] :
    /\ queue[c][i].call = c
    /\ ~use.restarts /\ queue[c][i].kind \in Terminal => i = Len(queue[c])

\* With an id per call, an ABORT terminator is for a consumer that disappeared first.
AbortOnlyIfGone ==
  IsInjective(IdOf) =>
  \A c \in Call : \A i \in DOMAIN queue[c] :
    queue[c][i].kind = "abort" => caller[c] = "gone"

\* The final event is always delivered: no call stays open for ever, with or without
\* the idle timeout of the backend.
StreamsEnd == \A c \in Call : caller[c] = "open" ~> caller[c] # "open"

\* The streams are each call's own and end once, with the end that is theirs.
StreamsInv == TypeOK /\ OwnStream /\ AbortOnlyIfGone
=============================================================================
