------------------------- MODULE AsyncEngineProofs -------------------------
(***************************************************************************)
(* For any calls, ids and number of steps, and whatever raises or is       *)
(* closed: every stream is its caller's own and ends once, no caller is    *)
(* left waiting on a queue that nothing feeds, and no request is left in   *)
(* the engine without a stream or an abort on its way.                     *)
(*                                                                         *)
(* None of the three is inductive.  A request is in turn in _pending, in   *)
(* the engine, in the outputs of a step and in nobody's hands, while its   *)
(* stream may be closed at any moment; what holds the three properties up  *)
(* is that each of those places only ever names the call whose stream is   *)
(* registered under the request's id (Owned).                              *)
(***************************************************************************)
EXTENDS AsyncEngine, TLAPS

\* An engine that was started again keeps the requests of the streams it failed, so
\* callers must not reuse their ids then: LocalEngineBackend makes a new one per call.
IdsFit == ~use.restarts \/ IsInjective(IdOf)

\* Where a call or its request can be found.
InQueue(c) == \E i \in DOMAIN pending : pending[i] = c
Held(c) == \E r \in DOMAIN engine : engine[r] = c
HasEnd(c) == \E i \in DOMAIN queue[c] : queue[c][i].kind \in Terminal
Streaming(c) == IdOf[c] \in DOMAIN streams /\ streams[IdOf[c]] = c
AbortQueued(r) == \E i \in DOMAIN aborting : aborting[i] = r

\* The engine has been used and its streams have not been failed.
Alive == Running \/ loop = "cancelling"

\* Types, and the ids under which the tables hold a call.
Tables ==
  /\ TypeOK
  /\ use \in Uses
  /\ \A r \in DOMAIN streams : streams[r] \in Call /\ IdOf[streams[r]] = r
  /\ \A r \in DOMAIN engine : engine[r] \in Call /\ IdOf[engine[r]] = r

\* A call that has not begun is nowhere.
Fresh ==
  \A c \in Call : caller[c] = "new" =>
    /\ ~InQueue(c) /\ ~Streaming(c) /\ ~Held(c)
    /\ queue[c] = << >> /\ progress[c] = 0
    /\ \A o \in outputs : o.call # c

\* Which places may be occupied in which state of the loop task and its thread.
Phases ==
  /\ ~Alive => streams = Nothing
  /\ loop = "stopped" /\ ~closed => pending = << >> /\ engine = Nothing /\ thread = "idle"
  /\ loop = "aborts" => pending = << >>
  /\ loop \in {"ready", "waiting", "pending", "aborts", "dead"} => thread = "idle"
  /\ thread # "done" => outputs = {}
  /\ loop \in {"cancelling", "closing"} => closed

\* A request is in one place at a time, and leaves the engine with its last step.
Places ==
  /\ \A i, j \in DOMAIN pending : pending[i] = pending[j] => i = j
  /\ \A c \in Call : InQueue(c) =>
       /\ progress[c] < Steps /\ ~Held(c)
       /\ \A o \in outputs : o.call # c
  /\ \A c \in Call : Held(c) => progress[c] < Steps
  /\ \A o, p \in outputs : o.call = p.call => o = p
  /\ \A o \in outputs : o.kind \in {"delta", "final"}
  /\ \A o \in outputs : o.kind = "final" => ~Held(o.call)

\* Without a restart, wherever a request is its stream is registered under its id.
Owned ==
  ~use.restarts /\ Alive =>
    /\ \A c \in Call : InQueue(c) => Streaming(c)
    /\ \A c \in Call : Held(c) => Streaming(c)
    /\ \A o \in outputs : Streaming(o.call)

\* A stream is registered until it has its end; its caller reads it or has queued
\* an abort.
Ends ==
  /\ \A c \in Call : Streaming(c) => ~HasEnd(c)
  /\ \A c \in Call : Streaming(c) => caller[c] = "open" \/ AbortQueued(IdOf[c])
  /\ \A c \in Call : caller[c] = "open" => Streaming(c) \/ HasEnd(c)

\* With an id per call, an abort is for a caller that has left or has read the end.
Aborts ==
  IsInjective(IdOf) => \A c \in Call :
    AbortQueued(IdOf[c]) =>
      caller[c] # "new" /\ (Streaming(c) => caller[c] = "gone")

IInv ==
  /\ Tables /\ IdsFit
  /\ Fresh /\ Phases /\ Places /\ Owned /\ Ends /\ Aborts
  /\ OwnStream /\ AbortOnlyIfGone

----------------------------------------------------------------------------
\* A new engine satisfies the invariant.
LEMMA InitIInv == Init /\ IdsFit => IInv
<1> SUFFICES ASSUME Init, IdsFit PROVE IInv
  OBVIOUS
<1> USE UseAssumption, StepsAssumption DEF Init
<1>1. /\ DOMAIN streams = {} /\ DOMAIN engine = {}
      /\ DOMAIN pending = {} /\ DOMAIN aborting = {}
      /\ \A c \in Call : queue[c] = << >> /\ DOMAIN queue[c] = {}
  BY DEF Nothing
<1>2. << >> \in Seq(Call) /\ << >> \in Seq(RequestId) /\ << >> \in Seq(Output)
  OBVIOUS
<1>3. queue \in [Call -> Seq(Output)]
  BY <1>2
<1>4. /\ caller \in [Call -> {"new", "open", "done", "failed", "gone"}]
      /\ progress \in [Call -> 0 .. Steps]
  OBVIOUS
<1>5. Range(streams) = {} /\ Range(engine) = {}
  BY <1>1 DEF Range
<1>6. TypeOK
  BY <1>1, <1>2, <1>3, <1>4, <1>5 DEF TypeOK, LoopState
<1>7. Tables
  BY <1>1, <1>6 DEF Tables
<1>8. \A c \in Call : ~InQueue(c) /\ ~Held(c) /\ ~HasEnd(c) /\ ~Streaming(c) /\ ~AbortQueued(IdOf[c])
  BY <1>1 DEF InQueue, Held, HasEnd, Streaming, AbortQueued
<1>9. Fresh /\ Phases /\ Places /\ Owned /\ Ends /\ Aborts
  BY <1>1, <1>8 DEF Fresh, Phases, Places, Owned, Ends, Aborts, Alive, Running, Busy
<1>10. OwnStream /\ AbortOnlyIfGone
  BY <1>1 DEF OwnStream, AbortOnlyIfGone
<1> QED BY <1>7, <1>9, <1>10 DEF IInv

\* What a step leaves alone.
Calls == <<use, pending, aborting, streams, queue, caller, engine, progress>>

\* A step that moves nothing but the loop task, its event or the idle thread.
LEMMA MoveStep ==
  ASSUME IInv, UNCHANGED Calls, Phases', Alive' => Alive \/ use.restarts, outputs' = outputs,
         wake' \in BOOLEAN, closed' \in BOOLEAN, engineOpen' \in BOOLEAN, loop' \in LoopState,
         thread' \in {"idle", "running", "done", "raised"}
  PROVE  IInv'
<1>1. Tables' /\ IdsFit'
  BY DEF IInv, Tables, TypeOK, IdsFit, Calls, IdOf
<1>2. ASSUME NEW c \in Call
      PROVE  /\ InQueue(c)' = InQueue(c) /\ Held(c)' = Held(c) /\ HasEnd(c)' = HasEnd(c)
             /\ Streaming(c)' = Streaming(c) /\ AbortQueued(IdOf[c])' = AbortQueued(IdOf[c])
  BY DEF Calls, InQueue, Held, HasEnd, Streaming, AbortQueued, IdOf
<1>3. \A o \in outputs : o.call \in Call
  BY DEF IInv, Tables, TypeOK, Output
<1>4. Fresh' /\ Places' /\ Owned' /\ Ends' /\ Aborts'
  BY <1>2, <1>3 DEF IInv, Fresh, Places, Owned, Ends, Aborts, Calls, IdOf
<1>5. OwnStream' /\ AbortOnlyIfGone'
  BY DEF IInv, OwnStream, AbortOnlyIfGone, Calls, IdOf
<1> QED BY <1>1, <1>4, <1>5 DEF IInv

\* The steps of the loop task, the thread and close() that only move a task.
LEMMA MovesIInv ==
  ASSUME IInv, UNCHANGED use,
         LoopTurn \/ EndPending \/ GoIdle \/ StartStep \/ ThreadRaises \/ CloseBegin \/ Restart
  PROVE  IInv'
<1> USE DEF LoopState, Busy, clientVars, threadVars, engineVars
<1>1. UNCHANGED Calls /\ outputs' = outputs
  BY DEF Calls, LoopTurn, EndPending, GoIdle, StartStep, ThreadRaises, CloseBegin, Restart
<1>2. /\ wake' \in BOOLEAN /\ closed' \in BOOLEAN /\ engineOpen' \in BOOLEAN /\ loop' \in LoopState
      /\ thread' \in {"idle", "running", "done", "raised"}
  BY DEF IInv, Tables, TypeOK, LoopTurn, EndPending, GoIdle, StartStep, ThreadRaises, CloseBegin, Restart
<1>3. Phases' /\ (Alive' => Alive \/ use.restarts)
  <2> USE DEF IInv, Tables, TypeOK, Phases, Alive, Running, Free
  <2>1. CASE LoopTurn
    BY <2>1 DEF LoopTurn
  <2>2. CASE EndPending
    BY <2>2 DEF EndPending
  <2>3. CASE GoIdle
    BY <2>3 DEF GoIdle
  <2>4. CASE StartStep
    BY <2>4 DEF StartStep
  <2>5. CASE ThreadRaises
    BY <2>5 DEF ThreadRaises
  <2>6. CASE CloseBegin
    BY <2>6 DEF CloseBegin
  <2>7. CASE Restart
    BY <2>7 DEF Restart
  <2> QED BY <2>1, <2>2, <2>3, <2>4, <2>5, <2>6, <2>7
<1> QED BY <1>1, <1>2, <1>3, MoveStep

\* A refused call touches nobody else.
LEMMA RefusedIInv ==
  ASSUME IInv, UNCHANGED use, NEW c \in Call, GenerateRefused(c)
  PROVE  IInv'
<1> USE DEF GenerateRefused, threadVars, engineVars
<1>1. Tables' /\ IdsFit'
  BY DEF IInv, Tables, TypeOK, IdsFit, IdOf
<1>2. ASSUME NEW d \in Call
      PROVE  /\ InQueue(d)' = InQueue(d) /\ Held(d)' = Held(d) /\ HasEnd(d)' = HasEnd(d)
             /\ Streaming(d)' = Streaming(d) /\ AbortQueued(IdOf[d])' = AbortQueued(IdOf[d])
             /\ d # c => caller'[d] = caller[d]
  BY DEF IInv, Tables, TypeOK, InQueue, Held, HasEnd, Streaming, AbortQueued, IdOf
<1>3. caller[c] = "new" /\ caller'[c] = "failed"
  BY DEF IInv, Tables, TypeOK
<1>4. Alive' = Alive /\ Phases'
  BY DEF IInv, Phases, Alive, Running
<1>5. \A o \in outputs : o.call \in Call
  BY DEF IInv, Tables, TypeOK, Output
<1>6. Places' /\ Owned'
  BY <1>2, <1>4, <1>5 DEF IInv, Places, Owned, IdOf
<1>7. Fresh' /\ Ends' /\ Aborts'
  BY <1>2, <1>3, <1>5 DEF IInv, Fresh, Ends, Aborts, IdOf
<1>8. OwnStream' /\ AbortOnlyIfGone'
  BY <1>2, <1>3 DEF IInv, OwnStream, AbortOnlyIfGone, IdOf, Fresh
<1> QED BY <1>1, <1>4, <1>6, <1>7, <1>8 DEF IInv

\* A call registers its stream, which no other call has, and queues its request.
LEMMA GenerateIInv ==
  ASSUME IInv, UNCHANGED use, NEW c \in Call, Generate(c)
  PROVE  IInv'
<1> USE DEF threadVars, engineVars
<1>1. /\ caller[c] = "new" /\ IdOf[c] \notin DOMAIN streams /\ IdOf[c] \in RequestId
      /\ ~closed /\ loop # "dead" /\ IdOf' = IdOf
      /\ caller' = [caller EXCEPT ![c] = "open"]
      /\ streams' = Put(streams, IdOf[c], c)
      /\ pending' = Append(pending, c)
      /\ UNCHANGED <<aborting, queue, closed, thread, outputs, engine, engineOpen, progress>>
  BY UseAssumption DEF IInv, Tables, Generate, Submit, Refused, IdOf
<1>2. /\ DOMAIN streams' = DOMAIN streams \cup {IdOf[c]}
      /\ streams'[IdOf[c]] = c /\ \A r \in DOMAIN streams : streams'[r] = streams[r]
  BY <1>1 DEF Put
<1>3. /\ pending' \in Seq(Call) /\ DOMAIN pending' = DOMAIN pending \cup {Len(pending) + 1}
      /\ Len(pending) + 1 \notin DOMAIN pending
      /\ pending'[Len(pending) + 1] = c /\ \A i \in DOMAIN pending : pending'[i] = pending[i]
  BY <1>1 DEF IInv, Tables, TypeOK
<1>4. Tables' /\ IdsFit'
  <2>1. /\ wake' \in BOOLEAN /\ loop' \in LoopState
        /\ caller' \in [Call -> {"new", "open", "done", "failed", "gone"}]
    BY <1>1 DEF Generate, Submit, IInv, Tables, TypeOK, LoopState
  <2>2. Range(streams') \subseteq Call
    BY <1>2 DEF IInv, Tables, TypeOK, Range
  <2>3. TypeOK'
    BY <1>1, <1>2, <1>3, <2>1, <2>2 DEF IInv, Tables, TypeOK
  <2> QED BY <1>1, <1>2, <2>3 DEF IInv, Tables, IdsFit
<1>5. ASSUME NEW d \in Call
      PROVE  /\ InQueue(d)' <=> InQueue(d) \/ d = c
             /\ Streaming(d)' <=> Streaming(d) \/ d = c
             /\ Held(d)' = Held(d) /\ HasEnd(d)' = HasEnd(d)
             /\ AbortQueued(IdOf[d])' = AbortQueued(IdOf[d])
             /\ d # c => caller'[d] = caller[d]
             /\ d = c => caller'[d] = "open"
  BY <1>1, <1>2, <1>3 DEF IInv, Tables, TypeOK, InQueue, Held, HasEnd, Streaming, AbortQueued
<1>6. Alive' /\ Phases' /\ (Alive \/ (loop = "stopped" /\ ~closed))
  BY <1>1, <1>2 DEF Generate, IInv, Tables, TypeOK, LoopState, Phases, Alive, Running, Free, Busy
<1>7. \A o \in outputs : o.call \in Call
  BY DEF IInv, Tables, TypeOK, Output
<1>8. ~InQueue(c) /\ ~Held(c) /\ progress[c] = 0 /\ queue[c] = << >> /\ \A o \in outputs : o.call # c
  BY <1>1 DEF IInv, Fresh
<1>9. Places'
  <2>1. \A i \in DOMAIN pending : pending[i] # c
    BY <1>8 DEF InQueue
  <2>2. \A i, j \in DOMAIN pending' : pending'[i] = pending'[j] => i = j
    BY <1>3, <2>1 DEF IInv, Places
  <2> QED BY <1>1, <1>5, <1>7, <1>8, <2>2, StepsAssumption DEF IInv, Places
<1>10. Owned'
  <2>1. CASE Alive
    BY <1>1, <1>5, <1>7, <2>1 DEF IInv, Owned
  <2>2. CASE loop = "stopped" /\ ~closed
    <3>1. pending = << >> /\ engine = Nothing /\ outputs = {}
      BY <2>2 DEF IInv, Phases
    <3>2. \A d \in Call : ~InQueue(d) /\ ~Held(d)
      BY <3>1 DEF InQueue, Held, Nothing
    <3> QED BY <1>1, <1>5, <3>1, <3>2 DEF Owned
  <2> QED BY <1>6, <2>1, <2>2
<1>11. Fresh' /\ Ends' /\ Aborts'
  <2>1. ~HasEnd(c)
    BY <1>8 DEF HasEnd
  <2> QED BY <1>1, <1>5, <1>8, <2>1 DEF IInv, Fresh, Ends, Aborts
<1>12. OwnStream' /\ AbortOnlyIfGone'
  BY <1>1, <1>5, <1>8 DEF IInv, OwnStream, AbortOnlyIfGone
<1> QED BY <1>4, <1>6, <1>9, <1>10, <1>11, <1>12 DEF IInv

\* What SMT needs to know of the two ends of a queue.
LEMMA AppendFacts ==
  ASSUME NEW S, NEW s \in Seq(S), NEW x \in S
  PROVE  /\ Append(s, x) \in Seq(S) /\ Len(Append(s, x)) = Len(s) + 1
         /\ DOMAIN s = 1 .. Len(s) /\ DOMAIN Append(s, x) = DOMAIN s \cup {Len(s) + 1}
         /\ Append(s, x)[Len(s) + 1] = x /\ Len(s) + 1 \notin DOMAIN s
         /\ \A i \in DOMAIN s : Append(s, x)[i] = s[i]
OBVIOUS

LEMMA TailFacts ==
  ASSUME NEW S, NEW s \in Seq(S), s # << >>
  PROVE  /\ Tail(s) \in Seq(S) /\ Len(Tail(s)) = Len(s) - 1
         /\ DOMAIN s = 1 .. Len(s) /\ DOMAIN Tail(s) = 1 .. Len(s) - 1
         /\ 1 \in DOMAIN s /\ Head(s) = s[1] /\ Head(s) \in S
         /\ \A i \in DOMAIN Tail(s) : Tail(s)[i] = s[i + 1] /\ i + 1 \in DOMAIN s
OBVIOUS

\* put_nowait on some queues keeps the streams apart: what is appended is the call's
\* own, comes before its end unless the engine was started again, and is an ABORT
\* only for a caller that left.
LEMMA PutNowait ==
  ASSUME IInv, UNCHANGED <<use, caller>>, queue' = [c \in Call |-> queue'[c]],
         \A c \in Call : \/ queue'[c] = queue[c]
                         \/ \E x \in Output :
                              /\ queue'[c] = Append(queue[c], x)
                              /\ x.call = c
                              /\ ~use.restarts => ~HasEnd(c)
                              /\ IsInjective(IdOf) /\ x.kind = "abort" => caller[c] = "gone"
  PROVE  /\ queue' \in [Call -> Seq(Output)] /\ OwnStream' /\ AbortOnlyIfGone'
         /\ \A c \in Call : HasEnd(c) => HasEnd(c)'
<1>1. IdOf' = IdOf
  BY DEF IdOf
<1>2. ASSUME NEW c \in Call
      PROVE  /\ queue'[c] \in Seq(Output)
             /\ HasEnd(c) => HasEnd(c)'
             /\ \A i \in DOMAIN queue'[c] :
                  /\ queue'[c][i].call = c
                  /\ ~use.restarts /\ queue'[c][i].kind \in Terminal => i = Len(queue'[c])
                  /\ IsInjective(IdOf) /\ queue'[c][i].kind = "abort" => caller[c] = "gone"
  <2>1. queue[c] \in Seq(Output)
    BY DEF IInv, Tables, TypeOK
  <2>2. \A i \in DOMAIN queue[c] :
          /\ queue[c][i].call = c
          /\ ~use.restarts /\ queue[c][i].kind \in Terminal => i = Len(queue[c])
          /\ IsInjective(IdOf) /\ queue[c][i].kind = "abort" => caller[c] = "gone"
    BY DEF IInv, OwnStream, AbortOnlyIfGone
  <2>3. CASE queue'[c] = queue[c]
    BY <2>1, <2>2, <2>3 DEF HasEnd
  <2>4. CASE queue'[c] # queue[c]
    <3>1. PICK x \in Output : /\ queue'[c] = Append(queue[c], x)
                              /\ x.call = c
                              /\ ~use.restarts => ~HasEnd(c)
                              /\ IsInjective(IdOf) /\ x.kind = "abort" => caller[c] = "gone"
      BY <2>4
    <3>2. /\ queue'[c] \in Seq(Output) /\ Len(queue'[c]) = Len(queue[c]) + 1
          /\ DOMAIN queue'[c] = DOMAIN queue[c] \cup {Len(queue'[c])}
          /\ queue'[c][Len(queue'[c])] = x
          /\ \A i \in DOMAIN queue[c] : queue'[c][i] = queue[c][i]
      BY <2>1, <3>1
    <3>3. HasEnd(c) => HasEnd(c)'
      BY <3>2 DEF HasEnd
    <3>4. ~use.restarts => \A i \in DOMAIN queue[c] : queue[c][i].kind \notin Terminal
      BY <3>1 DEF HasEnd
    <3> QED BY <2>2, <3>1, <3>2, <3>3, <3>4
  <2> QED BY <2>3, <2>4
<1>3. queue' \in [Call -> Seq(Output)]
  BY <1>2
<1> QED BY <1>1, <1>2, <1>3 DEF OwnStream, AbortOnlyIfGone

\* queue.get(): only a caller whose stream has its end stops reading.
LEMMA ConsumeIInv ==
  ASSUME IInv, UNCHANGED use, NEW c \in Call, Consume(c)
  PROVE  IInv'
<1> DEFINE kind == Head(queue[c]).kind
<1>1. /\ caller[c] = "open" /\ queue[c] # << >> /\ IdOf' = IdOf /\ IdOf[c] \in RequestId
      /\ queue' = [queue EXCEPT ![c] = Tail(@)]
      /\ \/ aborting' = aborting /\ wake' = wake
         \/ kind \in Terminal /\ aborting' = Append(aborting, IdOf[c]) /\ wake' = TRUE
      /\ UNCHANGED <<pending, streams, loop, closed, thread, outputs, engine, engineOpen, progress>>
  BY UseAssumption DEF IInv, Tables, Consume, Finally, QueueAbort, IdOf, threadVars, engineVars
<1>0. caller' = [caller EXCEPT ![c] = CASE kind = "delta" -> "open"
                                        [] kind = "error" -> "failed"
                                        [] OTHER -> "done"]
  BY DEF Consume
<1>2. /\ queue[c] \in Seq(Output) /\ queue'[c] = Tail(queue[c])
      /\ queue'[c] \in Seq(Output) /\ Len(queue'[c]) = Len(queue[c]) - 1
      /\ DOMAIN queue'[c] = 1 .. Len(queue[c]) - 1 /\ DOMAIN queue[c] = 1 .. Len(queue[c])
      /\ 1 \in DOMAIN queue[c] /\ kind = queue[c][1].kind /\ kind \in Kind
      /\ \A i \in DOMAIN queue'[c] : queue'[c][i] = queue[c][i + 1] /\ i + 1 \in DOMAIN queue[c]
      /\ \A d \in Call : d # c => queue'[d] = queue[d] /\ caller'[d] = caller[d]
  <2>1. queue[c] \in Seq(Output) /\ queue'[c] = Tail(queue[c])
    BY <1>1 DEF IInv, Tables, TypeOK
  <2>2. /\ queue'[c] \in Seq(Output) /\ Len(queue'[c]) = Len(queue[c]) - 1
        /\ DOMAIN queue'[c] = 1 .. Len(queue[c]) - 1 /\ DOMAIN queue[c] = 1 .. Len(queue[c])
        /\ 1 \in DOMAIN queue[c] /\ Head(queue[c]) = queue[c][1] /\ Head(queue[c]) \in Output
        /\ \A i \in DOMAIN queue'[c] : queue'[c][i] = queue[c][i + 1] /\ i + 1 \in DOMAIN queue[c]
    <3>1. queue[c] # << >>
      BY <1>1
    <3>2. /\ Tail(queue[c]) \in Seq(Output) /\ Len(Tail(queue[c])) = Len(queue[c]) - 1
          /\ DOMAIN queue[c] = 1 .. Len(queue[c]) /\ DOMAIN Tail(queue[c]) = 1 .. Len(queue[c]) - 1
          /\ 1 \in DOMAIN queue[c] /\ Head(queue[c]) = queue[c][1] /\ Head(queue[c]) \in Output
          /\ \A i \in DOMAIN Tail(queue[c]) :
                Tail(queue[c])[i] = queue[c][i + 1] /\ i + 1 \in DOMAIN queue[c]
      BY ONLY <2>1, <3>1, TailFacts
    <3> QED BY ONLY <2>1, <3>2
  <2>3. kind \in Kind
    BY <2>2 DEF Output
  <2>4. \A d \in Call : d # c => queue'[d] = queue[d] /\ caller'[d] = caller[d]
    BY <1>0, <1>1 DEF IInv, Tables, TypeOK
  <2> QED BY <2>1, <2>2, <2>3, <2>4
<1>3. /\ kind = "delta" => caller'[c] = "open"
      /\ kind # "delta" => kind \in Terminal /\ HasEnd(c) /\ caller'[c] \in {"failed", "done"}
  <2>1. caller'[c] = CASE kind = "delta" -> "open" [] kind = "error" -> "failed" [] OTHER -> "done"
    BY <1>0 DEF IInv, Tables, TypeOK
  <2>2. kind # "delta" => kind \in Terminal /\ HasEnd(c)
    BY <1>2 DEF Kind, Terminal, HasEnd
  <2> HIDE DEF kind
  <2> QED BY <2>1, <2>2
<1> HIDE DEF kind
<1>4. Tables' /\ IdsFit'
  <2>1. aborting' \in Seq(RequestId) /\ wake' \in BOOLEAN
    <3>1. aborting \in Seq(RequestId) /\ wake \in BOOLEAN
      BY DEF IInv, Tables, TypeOK
    <3>2. aborting' \in Seq(RequestId)
      BY <1>1, <3>1, AppendFacts
    <3>3. wake' \in BOOLEAN
      BY <1>1, <3>1
    <3> QED BY <3>2, <3>3
  <2>2. queue' \in [Call -> Seq(Output)]
    BY <1>1, <1>2 DEF IInv, Tables, TypeOK
  <2>3. caller' \in [Call -> {"new", "open", "done", "failed", "gone"}]
    BY <1>0, <1>2, <1>3 DEF IInv, Tables, TypeOK
  <2>4. TypeOK'
    BY <1>1, <2>1, <2>2, <2>3 DEF IInv, Tables, TypeOK
  <2> QED BY <1>1, <2>4 DEF IInv, Tables, IdsFit
<1>5. ASSUME NEW d \in Call
      PROVE  /\ InQueue(d)' = InQueue(d) /\ Streaming(d)' = Streaming(d) /\ Held(d)' = Held(d)
             /\ HasEnd(d)' => HasEnd(d)
             /\ HasEnd(d) /\ (d # c \/ kind = "delta") => HasEnd(d)'
             /\ AbortQueued(IdOf[d]) => AbortQueued(IdOf[d])'
             /\ AbortQueued(IdOf[d])' => AbortQueued(IdOf[d]) \/ (kind \in Terminal /\ IdOf[d] = IdOf[c])
  <2>1. InQueue(d)' = InQueue(d) /\ Streaming(d)' = Streaming(d) /\ Held(d)' = Held(d)
    BY <1>1 DEF InQueue, Streaming, Held
  <2>2. HasEnd(d)' => HasEnd(d)
    <3>1. CASE d = c
      BY <1>2, <3>1 DEF HasEnd
    <3>2. CASE d # c
      BY <1>2, <3>2 DEF HasEnd
    <3> QED BY <3>1, <3>2
  <2>3. HasEnd(d) /\ (d # c \/ kind = "delta") => HasEnd(d)'
    <3>1. CASE d # c
      BY <1>2, <3>1 DEF HasEnd
    <3>2. CASE d = c
      <4> SUFFICES ASSUME kind = "delta", NEW i \in DOMAIN queue[c], queue[c][i].kind \in Terminal
                   PROVE  \E j \in DOMAIN queue'[c] : queue'[c][j].kind \in Terminal
        BY <3>2 DEF HasEnd
      <4>1. i # 1
        BY <1>2 DEF Terminal
      <4>2. i - 1 \in DOMAIN queue'[c] /\ queue'[c][i - 1] = queue[c][i]
        BY <1>2, <4>1
      <4> QED BY <4>2
    <3> QED BY <3>1, <3>2
  <2>4. /\ AbortQueued(IdOf[d]) => AbortQueued(IdOf[d])'
        /\ AbortQueued(IdOf[d])' => AbortQueued(IdOf[d]) \/ (kind \in Terminal /\ IdOf[d] = IdOf[c])
    <3>1. CASE aborting' = aborting
      BY <1>1, <3>1 DEF AbortQueued
    <3>2. CASE kind \in Terminal /\ aborting' = Append(aborting, IdOf[c])
      <4>1. aborting \in Seq(RequestId)
        BY DEF IInv, Tables, TypeOK
      <4> QED BY <1>1, <3>2, <4>1, AppendFacts DEF AbortQueued
    <3> QED BY <1>1, <3>1, <3>2
  <2> QED BY <2>1, <2>2, <2>3, <2>4
<1>6. Alive' = Alive /\ Phases'
  BY <1>1 DEF IInv, Phases, Alive, Running
<1>7. \A o \in outputs : o.call \in Call
  BY DEF IInv, Tables, TypeOK, Output
<1>8. Places' /\ Owned'
  BY <1>1, <1>5, <1>6, <1>7 DEF IInv, Places, Owned
<1>9. Fresh'
  BY <1>1, <1>2, <1>3, <1>5 DEF IInv, Fresh
<1>10. Ends'
  BY <1>1, <1>2, <1>3, <1>5 DEF IInv, Ends
<1>11. Aborts'
  <2> SUFFICES ASSUME IsInjective(IdOf), NEW d \in Call, AbortQueued(IdOf[d])'
               PROVE  caller'[d] # "new" /\ (Streaming(d)' => caller'[d] = "gone")
    BY <1>1, <1>5 DEF Aborts
  <2>1. CASE d = c
    BY <1>1, <1>2, <1>3, <1>5, <2>1 DEF IInv, Ends, Aborts, Terminal
  <2>2. CASE d # c
    <3>1. DOMAIN IdOf = Call
      BY UseAssumption DEF IInv, Tables, IdOf
    <3>2. IdOf[d] # IdOf[c]
      BY <2>2, <3>1 DEF IsInjective
    <3> QED BY <1>2, <1>5, <2>2, <3>2 DEF IInv, Aborts
  <2> QED BY <2>1, <2>2
<1>12. OwnStream' /\ AbortOnlyIfGone'
  <2>1. ASSUME NEW d \in Call, NEW i \in DOMAIN queue'[d]
        PROVE  /\ queue'[d][i].call = d
               /\ ~use.restarts /\ queue'[d][i].kind \in Terminal => i = Len(queue'[d])
               /\ IsInjective(IdOf) /\ queue'[d][i].kind = "abort" => caller'[d] = "gone"
    <3>1. CASE d # c
      BY <1>2, <3>1 DEF IInv, OwnStream, AbortOnlyIfGone
    <3>2. CASE d = c
      BY <1>1, <1>2, <3>2 DEF IInv, OwnStream, AbortOnlyIfGone
    <3> QED BY <3>1, <3>2
  <2> QED BY <1>1, <2>1 DEF OwnStream, AbortOnlyIfGone
<1> QED BY <1>4, <1>6, <1>8, <1>9, <1>10, <1>11, <1>12 DEF IInv

\* A caller that goes leaves an abort behind.
LEMMA LeaveIInv ==
  ASSUME IInv, UNCHANGED use, NEW c \in Call, Leave(c)
  PROVE  IInv'
<1>1. /\ caller[c] = "open" /\ IdOf' = IdOf /\ IdOf[c] \in RequestId
      /\ caller' = [caller EXCEPT ![c] = "gone"]
      /\ aborting' = Append(aborting, IdOf[c]) /\ wake' = TRUE
      /\ UNCHANGED <<pending, streams, queue, loop, closed, thread, outputs, engine, engineOpen, progress>>
  BY UseAssumption DEF IInv, Tables, Leave, QueueAbort, IdOf, threadVars, engineVars
<1>2. aborting \in Seq(RequestId) /\ aborting' \in Seq(RequestId)
  BY <1>1, AppendFacts DEF IInv, Tables, TypeOK
<1>3. caller'[c] = "gone" /\ \A d \in Call : d # c => caller'[d] = caller[d]
  BY <1>1 DEF IInv, Tables, TypeOK
<1>4. Tables' /\ IdsFit'
  <2>1. caller' \in [Call -> {"new", "open", "done", "failed", "gone"}]
    BY <1>1 DEF IInv, Tables, TypeOK
  <2>2. TypeOK'
    BY <1>1, <1>2, <2>1 DEF IInv, Tables, TypeOK
  <2> QED BY <1>1, <2>2 DEF IInv, Tables, IdsFit
<1>5. ASSUME NEW d \in Call
      PROVE  /\ InQueue(d)' = InQueue(d) /\ Streaming(d)' = Streaming(d) /\ Held(d)' = Held(d)
             /\ HasEnd(d)' = HasEnd(d)
             /\ AbortQueued(IdOf[d])' <=> AbortQueued(IdOf[d]) \/ IdOf[d] = IdOf[c]
  <2>1. /\ InQueue(d)' = InQueue(d) /\ Streaming(d)' = Streaming(d) /\ Held(d)' = Held(d)
        /\ HasEnd(d)' = HasEnd(d)
    BY <1>1 DEF InQueue, Streaming, Held, HasEnd
  <2>2. AbortQueued(IdOf[d])' <=> AbortQueued(IdOf[d]) \/ IdOf[d] = IdOf[c]
    BY <1>1, <1>2, AppendFacts DEF AbortQueued
  <2> QED BY <2>1, <2>2
<1>6. Alive' = Alive /\ Phases'
  BY <1>1 DEF IInv, Phases, Alive, Running
<1>7. \A o \in outputs : o.call \in Call
  BY DEF IInv, Tables, TypeOK, Output
<1>8. Places' /\ Owned'
  BY <1>1, <1>5, <1>6, <1>7 DEF IInv, Places, Owned
<1>9. Fresh' /\ Ends'
  BY <1>1, <1>3, <1>5 DEF IInv, Fresh, Ends
<1>10. Aborts'
  <2> SUFFICES ASSUME IsInjective(IdOf), NEW d \in Call, AbortQueued(IdOf[d])'
               PROVE  caller'[d] # "new" /\ (Streaming(d)' => caller'[d] = "gone")
    BY <1>1, <1>5 DEF Aborts
  <2>1. DOMAIN IdOf = Call
    BY UseAssumption DEF IInv, Tables, IdOf
  <2> QED BY <1>3, <1>5, <2>1 DEF IInv, Aborts, IsInjective
<1>11. OwnStream' /\ AbortOnlyIfGone'
  BY <1>1, <1>3 DEF IInv, OwnStream, AbortOnlyIfGone
<1> QED BY <1>4, <1>6, <1>8, <1>9, <1>10, <1>11 DEF IInv

\* What a table holds after one of its entries is removed, for Pop and Restrict.
LEMMA PopFacts ==
  ASSUME NEW f, NEW x
  PROVE  /\ DOMAIN Pop(f, x) = DOMAIN f \ {x}
         /\ \A y \in DOMAIN f \ {x} : Pop(f, x)[y] = f[y]
BY DEF Pop, Restrict

\* Wherever a request is, a stream under its id is its own.
LEMMA OwnId ==
  ASSUME IInv, NEW c \in Call, InQueue(c) \/ Held(c) \/ (\E o \in outputs : o.call = c),
         IdOf[c] \in DOMAIN streams
  PROVE  Streaming(c)
<1>1. CASE use.restarts
  <2>1. /\ IsInjective(IdOf) /\ DOMAIN IdOf = Call /\ streams[IdOf[c]] \in Call
        /\ IdOf[streams[IdOf[c]]] = IdOf[c]
    BY <1>1, UseAssumption DEF IInv, IdsFit, Tables, IdOf
  <2> QED BY <2>1 DEF IsInjective, Streaming
<1>2. CASE ~use.restarts
  <2>1. Alive
    BY DEF IInv, Phases, Nothing
  <2> QED BY <1>2, <2>1 DEF IInv, Owned
<1> QED BY <1>1, <1>2

\* Removing the streams of some ids: the other calls keep theirs.
LEMMA StreamsGo ==
  ASSUME IInv, UNCHANGED use, NEW R, streams' = Restrict(streams, DOMAIN streams \ R)
  PROVE  /\ DOMAIN streams' \subseteq RequestId /\ Range(streams') \subseteq Call
         /\ \A r \in DOMAIN streams' : streams'[r] \in Call /\ IdOf'[streams'[r]] = r
         /\ \A c \in Call : Streaming(c)' <=> Streaming(c) /\ IdOf[c] \notin R
<1>1. /\ DOMAIN streams' = DOMAIN streams \ R /\ IdOf' = IdOf
      /\ \A r \in DOMAIN streams \ R : streams'[r] = streams[r]
  BY DEF Restrict, IdOf
<1>2. /\ DOMAIN streams \subseteq RequestId
      /\ \A r \in DOMAIN streams : streams[r] \in Call /\ IdOf[streams[r]] = r
  BY DEF IInv, Tables, TypeOK
<1>3. Range(streams') \subseteq Call
  BY <1>1, <1>2 DEF Range
<1>4. \A c \in Call : Streaming(c)' <=> Streaming(c) /\ IdOf[c] \notin R
  BY <1>1 DEF Streaming
<1> QED BY <1>1, <1>2, <1>3, <1>4

\* The head of _pending is no longer queued, and it was there once.
LEMMA PendingHead ==
  ASSUME IInv, pending # << >>, pending' = Tail(pending)
  PROVE  /\ Head(pending) \in Call /\ InQueue(Head(pending)) /\ pending' \in Seq(Call)
         /\ \A d \in Call : InQueue(d)' <=> InQueue(d) /\ d # Head(pending)
         /\ \A i, j \in DOMAIN pending' : pending'[i] = pending'[j] => i = j
<1>1. /\ pending \in Seq(Call)
      /\ \A i, j \in DOMAIN pending : pending[i] = pending[j] => i = j
  BY DEF IInv, Tables, TypeOK, Places
<1>2. /\ pending' \in Seq(Call) /\ Len(pending) \in Nat
      /\ DOMAIN pending = 1 .. Len(pending) /\ DOMAIN pending' = 1 .. Len(pending) - 1
      /\ 1 \in DOMAIN pending /\ Head(pending) = pending[1] /\ Head(pending) \in Call
      /\ \A i \in DOMAIN pending' : pending'[i] = pending[i + 1] /\ i + 1 \in DOMAIN pending
  BY <1>1, TailFacts
<1>3. InQueue(Head(pending))
  BY <1>2 DEF InQueue
<1>4. ASSUME NEW i \in DOMAIN pending', NEW j \in DOMAIN pending', pending'[i] = pending'[j]
      PROVE  i = j
  <2>1. pending[i + 1] = pending[j + 1] /\ i + 1 \in DOMAIN pending /\ j + 1 \in DOMAIN pending
    BY <1>2, <1>4
  <2>2. i + 1 = j + 1
    BY <1>1, <2>1
  <2> QED BY <1>2, <2>2
<1>5. ASSUME NEW d \in Call
      PROVE  InQueue(d)' <=> InQueue(d) /\ d # Head(pending)
  <2>1. ASSUME NEW i \in DOMAIN pending', pending'[i] = d
        PROVE  InQueue(d) /\ d # Head(pending)
    <3>1. i + 1 \in DOMAIN pending /\ pending[i + 1] = d /\ i + 1 # 1
      BY <1>2, <2>1
    <3> QED BY <1>1, <1>2, <3>1 DEF InQueue
  <2>2. ASSUME NEW i \in DOMAIN pending, pending[i] = d, d # Head(pending)
        PROVE  InQueue(d)'
    <3>1. i - 1 \in DOMAIN pending' /\ pending'[i - 1] = pending[i]
      BY <1>2, <2>2
    <3> QED BY <2>2, <3>1 DEF InQueue
  <2> QED BY <2>1, <2>2 DEF InQueue
<1> QED BY <1>2, <1>3, <1>4, <1>5

\* The engine accepts a pending request.
LEMMA AcceptIInv ==
  ASSUME IInv, UNCHANGED use, NEW c \in Call, c = Head(pending), loop = "pending", pending # << >>,
         IdOf[c] \notin DOMAIN engine, engine' = Put(engine, IdOf[c], c), pending' = Tail(pending),
         UNCHANGED <<aborting, streams, clientVars, wake, loop, closed, threadVars, engineOpen, progress>>
  PROVE  IInv'
<1> USE DEF clientVars, threadVars
<1>1. IdOf' = IdOf /\ IdOf[c] \in RequestId /\ InQueue(c)
  BY UseAssumption, PendingHead DEF IInv, Tables, IdOf
<1>2. /\ DOMAIN engine' = DOMAIN engine \cup {IdOf[c]}
      /\ engine'[IdOf[c]] = c /\ \A r \in DOMAIN engine : engine'[r] = engine[r]
  BY DEF Put
<1>3. Tables' /\ IdsFit'
  <2>1. Range(engine') \subseteq Call
    <3>1. \A r \in DOMAIN engine : engine[r] \in Call
      BY DEF IInv, Tables
    <3> QED BY <1>2, <3>1 DEF Range
  <2>2. pending' \in Seq(Call)
    BY PendingHead
  <2>3. TypeOK'
    BY <1>1, <1>2, <2>1, <2>2 DEF IInv, Tables, TypeOK
  <2> QED BY <1>1, <1>2, <2>3 DEF IInv, Tables, IdsFit
<1>4. ASSUME NEW d \in Call
      PROVE  /\ InQueue(d)' <=> InQueue(d) /\ d # c
             /\ Held(d)' <=> Held(d) \/ d = c
             /\ Streaming(d)' = Streaming(d) /\ HasEnd(d)' = HasEnd(d)
             /\ AbortQueued(IdOf[d])' = AbortQueued(IdOf[d])
  <2>1. Held(d)' <=> Held(d) \/ d = c
    BY <1>2 DEF Held
  <2> QED BY <1>1, <2>1, PendingHead DEF Streaming, HasEnd, AbortQueued
<1>5. Alive' = Alive /\ Phases' /\ outputs = {} /\ outputs' = {} /\ Alive
  BY DEF IInv, Phases, Alive, Running
<1>6. progress[c] < Steps /\ caller[c] # "new"
  BY <1>1 DEF IInv, Places, Fresh
<1>7. Places'
  <2>1. \A i, j \in DOMAIN pending' : pending'[i] = pending'[j] => i = j
    BY PendingHead
  <2> QED BY <1>4, <1>5, <1>6, <2>1 DEF IInv, Places
<1>8. Owned'
  BY <1>1, <1>4, <1>5 DEF IInv, Owned
<1>9. Fresh' /\ Ends' /\ Aborts'
  BY <1>1, <1>4, <1>5, <1>6 DEF IInv, Fresh, Ends, Aborts
<1>10. OwnStream' /\ AbortOnlyIfGone'
  BY <1>1 DEF IInv, OwnStream, AbortOnlyIfGone
<1> QED BY <1>3, <1>5, <1>7, <1>8, <1>9, <1>10 DEF IInv

\* What putting an output on the queue of one call does to the ends.
LEMMA EndAppended ==
  ASSUME IInv, NEW c \in Call, NEW x \in Output, queue'[c] = Append(queue[c], x)
  PROVE  HasEnd(c)' <=> HasEnd(c) \/ x.kind \in Terminal
<1>1. queue[c] \in Seq(Output)
  BY DEF IInv, Tables, TypeOK
<1> QED BY <1>1, AppendFacts DEF HasEnd

\* The engine refuses a pending request: its caller is told, and its stream, if it is
\* still there, is the one that goes.
LEMMA RejectIInv ==
  ASSUME IInv, UNCHANGED use, NEW c \in Call, c = Head(pending), loop = "pending", pending # << >>,
         queue' = [queue EXCEPT ![c] = Append(@, Out("error", c))], pending' = Tail(pending),
         streams' = Pop(streams, IdOf[c]),
         UNCHANGED <<aborting, caller, wake, loop, closed, threadVars, engineVars>>
  PROVE  IInv'
<1> USE DEF threadVars, engineVars
<1>1. /\ IdOf' = IdOf /\ InQueue(c) /\ caller[c] # "new"
      /\ streams' = Restrict(streams, DOMAIN streams \ {IdOf[c]})
      /\ Out("error", c) \in Output /\ Out("error", c).kind = "error" /\ Out("error", c).call = c
      /\ queue'[c] = Append(queue[c], Out("error", c))
      /\ \A d \in Call : d # c => queue'[d] = queue[d]
  BY PendingHead DEF IInv, Tables, TypeOK, Fresh, IdOf, Pop, Out, Output, Kind
<1>2. Alive' = Alive /\ Phases' /\ outputs = {} /\ outputs' = {} /\ Alive
  BY DEF IInv, Phases, Alive, Running
<1>3. ~use.restarts => ~HasEnd(c)
  BY <1>1, <1>2 DEF IInv, Owned, Ends
<1>4. queue' \in [Call -> Seq(Output)] /\ OwnStream' /\ AbortOnlyIfGone'
  <2>1. queue' = [d \in Call |-> queue'[d]]
    BY DEF IInv, Tables, TypeOK
  <2> QED BY <1>1, <1>3, <2>1, PutNowait
<1>5. Tables' /\ IdsFit'
  <2>1. /\ DOMAIN streams' \subseteq RequestId /\ Range(streams') \subseteq Call
        /\ \A r \in DOMAIN streams' : streams'[r] \in Call /\ IdOf'[streams'[r]] = r
    BY <1>1, StreamsGo
  <2>2. pending' \in Seq(Call)
    BY PendingHead
  <2>3. TypeOK'
    BY <1>4, <2>1, <2>2 DEF IInv, Tables, TypeOK
  <2> QED BY <1>1, <2>1, <2>3 DEF IInv, Tables, IdsFit
<1>6. ASSUME NEW d \in Call
      PROVE  /\ InQueue(d)' <=> InQueue(d) /\ d # c
             /\ Streaming(d)' <=> Streaming(d) /\ d # c
             /\ HasEnd(d)' <=> HasEnd(d) \/ d = c
             /\ Held(d)' = Held(d) /\ AbortQueued(IdOf[d])' = AbortQueued(IdOf[d])
  <2>1. Streaming(d)' <=> Streaming(d) /\ IdOf[d] # IdOf[c]
    <3>1. Streaming(d)' <=> Streaming(d) /\ IdOf[d] \notin {IdOf[c]}
      BY <1>1, StreamsGo
    <3> QED BY <3>1
  <2>2. Streaming(d) /\ IdOf[d] = IdOf[c] => d = c
    BY <1>1, OwnId DEF Streaming
  <2>3. HasEnd(d)' <=> HasEnd(d) \/ d = c
    <3>1. CASE d = c
      BY <1>1, <3>1, EndAppended DEF Terminal
    <3>2. CASE d # c
      BY <1>1, <3>2 DEF HasEnd
    <3> QED BY <3>1, <3>2
  <2> QED BY <1>1, <2>1, <2>2, <2>3, PendingHead DEF Held, AbortQueued
<1>7. Places'
  <2>1. \A i, j \in DOMAIN pending' : pending'[i] = pending'[j] => i = j
    BY PendingHead
  <2> QED BY <1>2, <1>6, <2>1 DEF IInv, Places
<1>8. Owned'
  BY <1>1, <1>2, <1>6 DEF IInv, Owned, Places
<1>9. Fresh' /\ Ends' /\ Aborts'
  BY <1>1, <1>2, <1>6 DEF IInv, Fresh, Ends, Aborts
<1> QED BY <1>2, <1>4, <1>5, <1>7, <1>8, <1>9 DEF IInv

\* An abort leaves the engine and closes the stream together.
LEMMA DrainAbortIInv ==
  ASSUME IInv, UNCHANGED use, DrainAbort
  PROVE  IInv'
<1> DEFINE r == Head(aborting)
<1>1. /\ IdOf' = IdOf /\ loop = "aborts" /\ aborting # << >> /\ aborting' = Tail(aborting)
      /\ engine' = Pop(engine, r)
      /\ streams' = Restrict(streams, DOMAIN streams \ {r})
      /\ queue' = [c \in Call |-> IF r \in DOMAIN streams /\ streams[r] = c
                                    THEN Append(queue[c], Out("abort", c)) ELSE queue[c]]
      /\ UNCHANGED <<pending, caller, wake, loop, closed, thread, outputs, engineOpen, progress>>
  BY DEF DrainAbort, EngineAbort, Pop, IdOf, threadVars
<1>2. /\ aborting \in Seq(RequestId) /\ aborting' \in Seq(RequestId) /\ r \in RequestId
      /\ DOMAIN aborting = 1 .. Len(aborting) /\ DOMAIN aborting' = 1 .. Len(aborting) - 1
      /\ Len(aborting) \in Nat /\ 1 \in DOMAIN aborting /\ r = aborting[1]
      /\ \A i \in DOMAIN aborting' : aborting'[i] = aborting[i + 1] /\ i + 1 \in DOMAIN aborting
  <2>1. aborting \in Seq(RequestId)
    BY DEF IInv, Tables, TypeOK
  <2> QED BY <1>1, <2>1, TailFacts
<1>3. /\ DOMAIN engine' = DOMAIN engine \ {r}
      /\ \A q \in DOMAIN engine \ {r} : engine'[q] = engine[q]
  BY <1>1, PopFacts
<1> HIDE DEF r
<1>4. Alive' = Alive /\ Phases' /\ outputs = {} /\ outputs' = {} /\ Alive /\ pending = << >>
  BY <1>1 DEF IInv, Phases, Alive, Running
<1>5. ASSUME NEW c \in Call
      PROVE  /\ Streaming(c) /\ IdOf[c] = r => queue'[c] = Append(queue[c], Out("abort", c))
             /\ ~(Streaming(c) /\ IdOf[c] = r) => queue'[c] = queue[c]
             /\ Out("abort", c) \in Output /\ Out("abort", c).call = c /\ Out("abort", c).kind = "abort"
  BY <1>1 DEF IInv, Tables, Streaming, Out, Output, Kind
<1>6. queue' \in [Call -> Seq(Output)] /\ OwnStream' /\ AbortOnlyIfGone'
  <2>1. ASSUME NEW c \in Call, Streaming(c), IdOf[c] = r
        PROVE  ~HasEnd(c) /\ (IsInjective(IdOf) => caller[c] = "gone")
    <3>1. AbortQueued(IdOf[c])
      BY <1>2, <2>1 DEF AbortQueued
    <3> QED BY <2>1, <3>1 DEF IInv, Ends, Aborts
  <2>2. queue' = [c \in Call |-> queue'[c]]
    BY <1>1
  <2> QED BY <1>1, <1>5, <2>1, <2>2, PutNowait
<1>7. Tables' /\ IdsFit'
  <2>1. /\ DOMAIN streams' \subseteq RequestId /\ Range(streams') \subseteq Call
        /\ \A q \in DOMAIN streams' : streams'[q] \in Call /\ IdOf'[streams'[q]] = q
    BY <1>1, StreamsGo
  <2>2. Range(engine') \subseteq Call
    BY <1>3 DEF IInv, Tables, Range
  <2>3. TypeOK'
    BY <1>1, <1>2, <1>3, <1>6, <2>1, <2>2 DEF IInv, Tables, TypeOK
  <2> QED BY <1>1, <1>3, <2>1, <2>3 DEF IInv, Tables, IdsFit
<1>8. ASSUME NEW c \in Call
      PROVE  /\ InQueue(c)' = InQueue(c) /\ ~InQueue(c)
             /\ Streaming(c)' <=> Streaming(c) /\ IdOf[c] # r
             /\ Held(c)' <=> Held(c) /\ IdOf[c] # r
             /\ HasEnd(c)' <=> HasEnd(c) \/ (Streaming(c) /\ IdOf[c] = r)
             /\ AbortQueued(IdOf[c])' => AbortQueued(IdOf[c])
             /\ AbortQueued(IdOf[c]) /\ IdOf[c] # r => AbortQueued(IdOf[c])'
  <2>1. InQueue(c)' = InQueue(c) /\ ~InQueue(c)
    BY <1>1, <1>4 DEF InQueue
  <2>2. Streaming(c)' <=> Streaming(c) /\ IdOf[c] \notin {r}
    BY <1>1, StreamsGo
  <2>3. Held(c)' <=> Held(c) /\ IdOf[c] # r
    BY <1>3 DEF IInv, Tables, Held
  <2>4. HasEnd(c)' <=> HasEnd(c) \/ (Streaming(c) /\ IdOf[c] = r)
    <3>1. CASE Streaming(c) /\ IdOf[c] = r
      BY <1>5, <3>1, EndAppended DEF Terminal
    <3>2. CASE ~(Streaming(c) /\ IdOf[c] = r)
      BY <1>5, <3>2 DEF HasEnd
    <3> QED BY <3>1, <3>2
  <2>5. AbortQueued(IdOf[c])' => AbortQueued(IdOf[c])
    BY <1>1, <1>2 DEF AbortQueued
  <2>6. ASSUME NEW i \in DOMAIN aborting, aborting[i] = IdOf[c], IdOf[c] # r
        PROVE  AbortQueued(IdOf[c])'
    <3>1. i - 1 \in DOMAIN aborting' /\ aborting'[i - 1] = aborting[i]
      BY <1>2, <2>6
    <3> QED BY <1>1, <2>6, <3>1 DEF AbortQueued
  <2> QED BY <2>1, <2>2, <2>3, <2>4, <2>5, <2>6 DEF AbortQueued
<1>9. Places'
  BY <1>1, <1>4, <1>8 DEF IInv, Places
<1>10. Owned'
  BY <1>1, <1>4, <1>8 DEF IInv, Owned
<1>11. Fresh' /\ Ends' /\ Aborts'
  <2>1. \A c \in Call : Streaming(c) => caller[c] # "new"
    BY DEF IInv, Fresh
  <2>2. Fresh'
    BY <1>1, <1>4, <1>5, <1>8, <2>1 DEF IInv, Fresh
  <2>3. Ends' /\ Aborts'
    BY <1>1, <1>8, <2>1 DEF IInv, Ends, Aborts
  <2> QED BY <2>2, <2>3
<1> QED BY <1>4, <1>6, <1>7, <1>9, <1>10, <1>11 DEF IInv

\* _fail_all: every stream gets its end, and none is left.
LEMMA FailAllFacts ==
  ASSUME IInv, UNCHANGED <<use, caller>>, FailAll
  PROVE  /\ queue' \in [Call -> Seq(Output)] /\ OwnStream' /\ AbortOnlyIfGone'
         /\ DOMAIN streams' = {} /\ streams' = Nothing
         /\ \A c \in Call : ~Streaming(c)' /\ (HasEnd(c)' <=> HasEnd(c) \/ Streaming(c))
         /\ \A c \in Call : ~Streaming(c) => queue'[c] = queue[c]
<1>1. DOMAIN streams' = {} /\ streams' = Nothing
  BY DEF FailAll, Nothing
<1>2. ASSUME NEW c \in Call
      PROVE  /\ Streaming(c) => queue'[c] = Append(queue[c], Out("error", c))
             /\ ~Streaming(c) => queue'[c] = queue[c]
             /\ Out("error", c) \in Output /\ Out("error", c).call = c /\ Out("error", c).kind = "error"
  <2>1. c \in Range(streams) <=> Streaming(c)
    BY DEF IInv, Tables, Streaming, Range
  <2> QED BY <2>1 DEF FailAll, Out, Output, Kind
<1>3. queue' \in [Call -> Seq(Output)] /\ OwnStream' /\ AbortOnlyIfGone'
  <2>1. \A c \in Call : Streaming(c) => ~HasEnd(c)
    BY DEF IInv, Ends
  <2>2. queue' = [c \in Call |-> queue'[c]]
    BY DEF FailAll
  <2> QED BY <1>2, <2>1, <2>2, PutNowait
<1>4. ASSUME NEW c \in Call
      PROVE  ~Streaming(c)' /\ (HasEnd(c)' <=> HasEnd(c) \/ Streaming(c))
  <2>1. ~Streaming(c)'
    BY <1>1 DEF Streaming
  <2>2. CASE Streaming(c)
    BY <1>2, <2>1, <2>2, EndAppended DEF Terminal
  <2>3. CASE ~Streaming(c)
    BY <1>2, <2>1, <2>3 DEF HasEnd
  <2> QED BY <2>2, <2>3
<1> QED BY <1>1, <1>2, <1>3, <1>4

\* The step raised, or the engine is closed.
LEMMA FailIInv ==
  ASSUME IInv, UNCHANGED use, LoopDies \/ CloseEnd
  PROVE  IInv'
<1>1. /\ FailAll /\ IdOf' = IdOf
      /\ UNCHANGED <<pending, aborting, caller, wake, closed, outputs, progress>>
      /\ engine' = engine \/ engine' = Nothing
      /\ loop' \in {"dead", "stopped"} /\ thread' \in {"idle", thread}
      /\ engineOpen' \in {engineOpen, FALSE}
  BY DEF LoopDies, CloseEnd, IdOf, threadVars, engineVars
<1>2. /\ queue' \in [Call -> Seq(Output)] /\ OwnStream' /\ AbortOnlyIfGone'
      /\ DOMAIN streams' = {} /\ streams' = Nothing
      /\ \A c \in Call : ~Streaming(c)' /\ (HasEnd(c)' <=> HasEnd(c) \/ Streaming(c))
      /\ \A c \in Call : ~Streaming(c) => queue'[c] = queue[c]
  BY <1>1, FailAllFacts
<1>3. Tables' /\ IdsFit'
  <2>1. /\ DOMAIN engine' \subseteq DOMAIN engine
        /\ \A r \in DOMAIN engine' : engine'[r] = engine[r]
    BY <1>1 DEF Nothing
  <2>2. Range(engine') \subseteq Call /\ Range(streams') \subseteq Call
    BY <1>2, <2>1 DEF IInv, Tables, Range
  <2>3. engineOpen' \in BOOLEAN /\ loop' \in LoopState /\ thread' \in {"idle", "running", "done", "raised"}
    BY <1>1 DEF IInv, Tables, TypeOK, LoopState
  <2>4. TypeOK'
    BY <1>1, <1>2, <2>1, <2>2, <2>3 DEF IInv, Tables, TypeOK
  <2> QED BY <1>1, <1>2, <2>1, <2>4 DEF IInv, Tables, IdsFit
<1>4. ASSUME NEW c \in Call
      PROVE  /\ InQueue(c)' = InQueue(c) /\ (Held(c)' => Held(c))
             /\ AbortQueued(IdOf[c])' = AbortQueued(IdOf[c])
  BY <1>1 DEF InQueue, Held, AbortQueued, Nothing
<1>5. ~Alive' /\ Phases'
  <2>1. CASE LoopDies
    BY <1>2, <2>1 DEF LoopDies, IInv, Phases, Alive, Running
  <2>2. CASE CloseEnd
    BY <1>2, <2>2 DEF CloseEnd, IInv, Phases, Alive, Running, threadVars
  <2> QED BY <2>1, <2>2
<1>6. \A o \in outputs : o.call \in Call
  BY DEF IInv, Tables, TypeOK, Output
<1>7. Places' /\ Owned'
  BY <1>1, <1>4, <1>5, <1>6 DEF IInv, Places, Owned
<1>8. Fresh' /\ Ends' /\ Aborts'
  BY <1>1, <1>2, <1>4, <1>6 DEF IInv, Fresh, Ends, Aborts
<1> QED BY <1>2, <1>3, <1>5, <1>7, <1>8 DEF IInv

\* _dispatch: each output goes to the call it was made for, if its stream is still
\* open, and a final one closes it.
LEMMA DispatchIInv ==
  ASSUME IInv, UNCHANGED use, Dispatch
  PROVE  IInv'
<1> DEFINE HasLast(c) == \E o \in outputs : o.call = c /\ o.kind = "final"
<1>1. /\ IdOf' = IdOf /\ loop = "stepping" /\ loop' = "pending" /\ thread' = "idle" /\ outputs' = {}
      /\ queue' = Delivered(outputs)
      /\ streams' = Restrict(streams, DOMAIN streams \ Ended(outputs))
      /\ UNCHANGED <<pending, aborting, caller, wake, closed, engine, engineOpen, progress>>
  BY DEF Dispatch, IdOf, engineVars
<1>2. ASSUME NEW o \in outputs
      PROVE  /\ o \in Output /\ o.call \in Call
             /\ IdOf[o.call] \in DOMAIN streams => Streaming(o.call) /\ streams[IdOf[o.call]] = o.call
  <2>1. o \in Output /\ o.call \in Call
    BY DEF IInv, Tables, TypeOK, Output
  <2> QED BY <2>1, OwnId DEF Streaming
<1>3. ASSUME NEW c \in Call
      PROVE  /\ Streaming(c)' <=> Streaming(c) /\ ~HasLast(c)
             /\ \/ /\ queue'[c] = queue[c]
                   /\ ~(Streaming(c) /\ \E o \in outputs : o.call = c)
                \/ /\ Streaming(c)
                   /\ \E o \in outputs : queue'[c] = Append(queue[c], o) /\ o.call = c
  <2>1. IdOf[c] \in Ended(outputs) /\ Streaming(c) <=> HasLast(c) /\ Streaming(c)
    BY <1>2 DEF Ended, Streaming
  <2>2. Streaming(c)' <=> Streaming(c) /\ IdOf[c] \notin Ended(outputs)
    BY <1>1, StreamsGo
  <2> DEFINE mine == {i \in outputs : IdOf[i.call] \in DOMAIN streams /\ streams[IdOf[i.call]] = c}
  <2>3. \A i \in outputs : i \in mine <=> i.call = c /\ Streaming(c)
    BY <1>2 DEF Streaming
  <2>4. queue'[c] = IF mine = {} THEN queue[c] ELSE Append(queue[c], CHOOSE i \in mine : TRUE)
    BY <1>1 DEF Delivered
  <2>5. CASE mine = {}
    BY <2>1, <2>2, <2>3, <2>4, <2>5
  <2>6. CASE mine # {}
    <3>1. PICK o \in mine : o = CHOOSE i \in mine : TRUE
      BY <2>6
    <3>2. o \in outputs /\ queue'[c] = Append(queue[c], o)
      BY <2>4, <2>6, <3>1
    <3>3. o.call = c /\ Streaming(c)
      BY <2>3, <3>1, <3>2
    <3> QED BY <2>1, <2>2, <3>2, <3>3
  <2> QED BY <2>5, <2>6
<1>4. queue' \in [Call -> Seq(Output)] /\ OwnStream' /\ AbortOnlyIfGone'
  <2>1. \A c \in Call : Streaming(c) => ~HasEnd(c)
    BY DEF IInv, Ends
  <2>2. \A o \in outputs : o.kind # "abort"
    BY DEF IInv, Places
  <2>3. queue' = [c \in Call |-> queue'[c]]
    BY <1>1 DEF Delivered
  <2> HIDE DEF HasLast
  <2>4. \A c \in Call : \/ queue'[c] = queue[c]
                        \/ \E x \in Output :
                             /\ queue'[c] = Append(queue[c], x)
                             /\ x.call = c
                             /\ ~use.restarts => ~HasEnd(c)
                             /\ IsInjective(IdOf) /\ x.kind = "abort" => caller[c] = "gone"
    BY <1>2, <1>3, <2>1, <2>2
  <2> QED BY <1>1, <2>3, <2>4, PutNowait
<1>5. ASSUME NEW c \in Call
      PROVE  /\ InQueue(c)' = InQueue(c) /\ Held(c)' = Held(c)
             /\ AbortQueued(IdOf[c])' = AbortQueued(IdOf[c])
             /\ HasEnd(c) => HasEnd(c)'
             /\ HasEnd(c)' => HasEnd(c) \/ HasLast(c)
             /\ HasLast(c) /\ Streaming(c) => HasEnd(c)'
             /\ InQueue(c) \/ Held(c) => ~HasLast(c)
  <2>1. /\ InQueue(c)' = InQueue(c) /\ Held(c)' = Held(c)
        /\ AbortQueued(IdOf[c])' = AbortQueued(IdOf[c])
    BY <1>1 DEF InQueue, Held, AbortQueued
  <2>2. InQueue(c) \/ Held(c) => ~HasLast(c)
    BY DEF IInv, Places
  <2>3. CASE queue'[c] = queue[c] /\ ~(Streaming(c) /\ \E o \in outputs : o.call = c)
    BY <2>1, <2>2, <2>3 DEF HasEnd
  <2>4. ASSUME Streaming(c), NEW o \in outputs, queue'[c] = Append(queue[c], o), o.call = c
        PROVE  /\ HasEnd(c) => HasEnd(c)'
               /\ HasEnd(c)' => HasEnd(c) \/ HasLast(c)
               /\ HasLast(c) => HasEnd(c)'
    <3>1. HasEnd(c)' <=> HasEnd(c) \/ o.kind \in Terminal
      BY <1>2, <2>4, EndAppended
    <3>2. o.kind \in {"delta", "final"} /\ \A p \in outputs : p.call = c => p = o
      BY <2>4 DEF IInv, Places
    <3> QED BY <2>4, <3>1, <3>2 DEF Terminal
  <2> QED BY <1>3, <2>1, <2>2, <2>3, <2>4
<1> HIDE DEF HasLast
<1>6. Alive' /\ Alive /\ Phases'
  BY <1>1 DEF IInv, Phases, Alive, Running
<1>7. Tables' /\ IdsFit'
  <2>1. /\ DOMAIN streams' \subseteq RequestId /\ Range(streams') \subseteq Call
        /\ \A q \in DOMAIN streams' : streams'[q] \in Call /\ IdOf'[streams'[q]] = q
    BY <1>1, StreamsGo
  <2>2. TypeOK'
    BY <1>1, <1>4, <2>1 DEF IInv, Tables, TypeOK, LoopState, Busy
  <2> QED BY <1>1, <2>1, <2>2 DEF IInv, Tables, IdsFit
<1>8. Places'
  BY <1>1, <1>5 DEF IInv, Places
<1>9. Owned'
  BY <1>1, <1>3, <1>5, <1>6 DEF IInv, Owned
<1>10. Ends' /\ Aborts'
  BY <1>1, <1>3, <1>5 DEF IInv, Ends, Aborts
<1>11. Fresh'
  <2> SUFFICES ASSUME NEW c \in Call, caller[c] = "new"
               PROVE  ~InQueue(c)' /\ ~Streaming(c)' /\ ~Held(c)' /\ queue'[c] = << >> /\ progress[c] = 0
    BY <1>1 DEF Fresh
  <2> QED BY <1>3, <1>5 DEF IInv, Fresh
<1> QED BY <1>4, <1>6, <1>7, <1>8, <1>9, <1>10, <1>11 DEF IInv

\* engine.step: what it returns is of requests it held, one output each, and it lets
\* go of those that have had their last step.
LEMMA ThreadStepIInv ==
  ASSUME IInv, UNCHANGED use, NEW advance \in SUBSET InEngine, ThreadStep(advance)
  PROVE  IInv'
<1> USE StepsAssumption
<1>1. /\ IdOf' = IdOf /\ thread = "running" /\ thread' = "done"
      /\ progress' = [c \in Call |-> progress[c] + (IF c \in advance THEN 1 ELSE 0)]
      /\ outputs' = {Out(IF progress'[c] = Steps THEN "final" ELSE "delta", c) :
                       c \in {d \in advance : progress'[d] > 1 \/ progress'[d] = Steps}}
      /\ engine' = Unfinished(progress')
      /\ UNCHANGED <<pending, aborting, streams, queue, caller, wake, loop, closed, engineOpen>>
  BY DEF ThreadStep, IdOf, clientVars
<1>2. \A c \in advance : c \in Call /\ Held(c)
  BY DEF InEngine, Range, Held, IInv, Tables
<1>3. /\ DOMAIN engine' = {r \in DOMAIN engine : progress'[engine[r]] # Steps}
      /\ \A r \in DOMAIN engine' : engine'[r] = engine[r]
  BY <1>1 DEF Unfinished, Restrict
<1>4. ASSUME NEW c \in Call
      PROVE  /\ progress[c] \in 0 .. Steps /\ progress'[c] \in 0 .. Steps
             /\ c \notin advance => progress'[c] = progress[c]
  <2>1. progress[c] \in 0 .. Steps /\ (c \in advance => progress[c] < Steps)
    BY <1>2 DEF IInv, Tables, TypeOK, Places
  <2> QED BY <1>1, <2>1
<1>5. ASSUME NEW o \in outputs'
      PROVE  /\ o \in Output /\ o.call \in Call /\ o.call \in advance
             /\ o.kind = (IF progress'[o.call] = Steps THEN "final" ELSE "delta")
             /\ o = Out(o.kind, o.call)
  <2>1. PICK c \in advance : o = Out(IF progress'[c] = Steps THEN "final" ELSE "delta", c)
    BY <1>1
  <2> QED BY <1>2, <2>1 DEF Out, Output, Kind
<1>6. Tables' /\ IdsFit'
  <2>1. Range(engine') \subseteq Call
    BY <1>3 DEF IInv, Tables, Range
  <2>2. progress' \in [Call -> 0 .. Steps]
    BY <1>1, <1>4
  <2>3. outputs' \in SUBSET Output
    BY <1>5
  <2>4. TypeOK'
    BY <1>1, <1>3, <2>1, <2>2, <2>3 DEF IInv, Tables, TypeOK
  <2> QED BY <1>1, <1>3, <2>4 DEF IInv, Tables, IdsFit
<1>7. ASSUME NEW c \in Call
      PROVE  /\ InQueue(c)' = InQueue(c) /\ Streaming(c)' = Streaming(c) /\ HasEnd(c)' = HasEnd(c)
             /\ AbortQueued(IdOf[c])' = AbortQueued(IdOf[c])
             /\ Held(c)' <=> Held(c) /\ progress'[c] # Steps
  <2>1. /\ InQueue(c)' = InQueue(c) /\ Streaming(c)' = Streaming(c) /\ HasEnd(c)' = HasEnd(c)
        /\ AbortQueued(IdOf[c])' = AbortQueued(IdOf[c])
    BY <1>1 DEF InQueue, Streaming, HasEnd, AbortQueued
  <2>2. Held(c)' <=> Held(c) /\ progress'[c] # Steps
    BY <1>3 DEF Held
  <2> QED BY <2>1, <2>2
<1>8. Alive' = Alive /\ Phases'
  BY <1>1 DEF IInv, Phases, Alive, Running
<1>9. Places'
  <2>1. \A i, j \in DOMAIN pending' : pending'[i] = pending'[j] => i = j
    BY <1>1 DEF IInv, Places
  <2>2. ASSUME NEW c \in Call, InQueue(c)'
        PROVE  /\ progress'[c] < Steps /\ ~Held(c)'
               /\ \A o \in outputs' : o.call # c
    <3>1. ~Held(c) /\ progress[c] < Steps
      BY <1>7, <2>2 DEF IInv, Places
    <3>2. c \notin advance
      BY <1>2, <3>1
    <3> QED BY <1>4, <1>5, <1>7, <3>1, <3>2
  <2>3. \A c \in Call : Held(c)' => progress'[c] < Steps
    BY <1>4, <1>7
  <2>4. \A o, p \in outputs' : o.call = p.call => o = p
    BY <1>5
  <2>5. \A o \in outputs' : /\ o.kind \in {"delta", "final"}
                            /\ o.kind = "final" => ~Held(o.call)'
    BY <1>5, <1>7
  <2> QED BY <2>1, <2>2, <2>3, <2>4, <2>5 DEF Places
<1>10. Owned'
  BY <1>1, <1>2, <1>5, <1>7, <1>8 DEF IInv, Owned
<1>11. Fresh'
  <2> SUFFICES ASSUME NEW c \in Call, caller[c] = "new"
               PROVE  /\ ~InQueue(c)' /\ ~Streaming(c)' /\ ~Held(c)' /\ queue[c] = << >>
                      /\ progress'[c] = 0 /\ \A o \in outputs' : o.call # c
    BY <1>1 DEF Fresh
  <2>1. c \notin advance
    BY <1>2 DEF IInv, Fresh
  <2> QED BY <1>4, <1>5, <1>7, <2>1 DEF IInv, Fresh
<1>12. Ends' /\ Aborts'
  BY <1>1, <1>7 DEF IInv, Ends, Aborts
<1>13. OwnStream' /\ AbortOnlyIfGone'
  BY <1>1 DEF IInv, OwnStream, AbortOnlyIfGone
<1> QED BY <1>6, <1>8, <1>9, <1>10, <1>11, <1>12, <1>13 DEF IInv

----------------------------------------------------------------------------
\* Every step keeps the invariant.
LEMMA NextIInv == IInv /\ [Next]_vars => IInv'
<1> SUFFICES ASSUME IInv, [Next]_vars PROVE IInv'
  OBVIOUS
<1>1. CASE UNCHANGED vars
  <2>1. Phases'
    BY <1>1 DEF IInv, Phases, Alive, Running, vars, threadVars, engineVars
  <2>2. UNCHANGED Calls /\ Alive' = Alive /\ UNCHANGED <<outputs, wake, closed, engineOpen, loop, thread>>
    BY <1>1 DEF Calls, Alive, Running, vars, clientVars, threadVars, engineVars
  <2> QED BY <2>1, <2>2, MoveStep DEF IInv, Tables, TypeOK
<1>2. CASE Next
  <2>1. UNCHANGED use
    BY <1>2 DEF Next, Loop, Thread
  <2>2. CASE DrainPending
    <3>1. Head(pending) \in Call /\ pending # << >> /\ loop = "pending" /\ pending' = Tail(pending)
      BY <2>2, PendingHead DEF DrainPending
    <3>2. CASE /\ IdOf[Head(pending)] \notin DOMAIN engine
               /\ engine' = Put(engine, IdOf[Head(pending)], Head(pending))
               /\ UNCHANGED <<streams, queue>>
      BY <2>1, <2>2, <3>1, <3>2, AcceptIInv DEF DrainPending, clientVars
    <3>3. CASE /\ queue' = [queue EXCEPT ![Head(pending)] = Append(@, Out("error", Head(pending)))]
               /\ streams' = Pop(streams, IdOf[Head(pending)])
               /\ UNCHANGED engine
      BY <2>1, <2>2, <3>1, <3>3, RejectIInv DEF DrainPending, engineVars
    <3> QED BY <2>2, <3>2, <3>3 DEF DrainPending
  <2>3. CASE LoopTurn \/ EndPending \/ GoIdle \/ StartStep \/ ThreadRaises \/ CloseBegin \/ Restart
    BY <2>1, <2>3, MovesIInv
  <2>4. CASE \E c \in Call : Generate(c) \/ GenerateRefused(c) \/ Consume(c) \/ Leave(c)
    BY <2>1, <2>4, GenerateIInv, RefusedIInv, ConsumeIInv, LeaveIInv
  <2>5. CASE DrainAbort \/ Dispatch \/ LoopDies \/ CloseEnd
    BY <2>1, <2>5, DrainAbortIInv, DispatchIInv, FailIInv
  <2>6. CASE \E advance \in SUBSET InEngine : ThreadStep(advance)
    BY <2>1, <2>6, ThreadStepIInv
  <2> QED BY <1>2, <2>2, <2>3, <2>4, <2>5, <2>6 DEF Next, Loop, Thread
<1> QED BY <1>1, <1>2

\* Callers do not reuse an id on an engine that is started again.
IdsFitAlways == \A u \in Uses : ~u.restarts \/ IsInjective(u.idOf)

\* The invariant holds in every reachable state.
LEMMA AsyncInvariant == ASSUME IdsFitAlways PROVE Spec => []IInv
<1>1. Init => IInv
  BY InitIInv DEF Init, IdsFitAlways, IdsFit, IdOf
<1> QED BY <1>1, NextIInv, PTL DEF Spec

\* Whatever raises, disconnects or is closed, no caller of generate() is left waiting
\* on a queue that nothing feeds any more.
THEOREM NobodyOrphaned == ASSUME IdsFitAlways PROVE Spec => []NoOrphan
<1>1. IInv => NoOrphan
  BY DEF IInv, Ends, NoOrphan, Streaming, HasEnd
<1> QED BY <1>1, AsyncInvariant, PTL

\* A request in a living engine has a stream that is read, or its abort is on the way.
THEOREM NobodyZombie == ASSUME IdsFitAlways PROVE Spec => []NoZombie
<1>1. IInv => NoZombie
  <2> SUFFICES ASSUME IInv, ~use.restarts, Running, NEW r \in DOMAIN engine
               PROVE  \/ r \in DOMAIN streams /\ streams[r] = engine[r] /\ caller[engine[r]] = "open"
                      \/ r \in ToSet(aborting)
    BY DEF NoZombie
  <2>1. engine[r] \in Call /\ IdOf[engine[r]] = r /\ Held(engine[r])
    BY DEF IInv, Tables, Held
  <2>2. Streaming(engine[r])
    BY <2>1 DEF IInv, Owned, Alive
  <2>3. AbortQueued(r) => r \in ToSet(aborting)
    BY DEF AbortQueued, ToSet
  <2> QED BY <2>1, <2>2, <2>3 DEF IInv, Ends, Streaming
<1> QED BY <1>1, AsyncInvariant, PTL

\* Each call is sent its own tokens in one stream that ends once, and an ABORT only
\* after its consumer has gone.
THEOREM StreamsOwn == ASSUME IdsFitAlways PROVE Spec => []StreamsInv
<1>1. IInv => StreamsInv
  BY DEF IInv, Tables, StreamsInv
<1> QED BY <1>1, AsyncInvariant, PTL
=============================================================================
