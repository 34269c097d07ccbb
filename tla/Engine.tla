------------------------------- MODULE Engine -------------------------------
(***************************************************************************)
(* One step of the serving engine: the scheduler                           *)
(* (engine/core/scheduler.py, "fcfs" policy) assembles a batch over the    *)
(* block manager, the model runner (engine/runtime/worker.py) writes the   *)
(* batch's K/V and samples, and the engine (engine/runtime/engine.py)      *)
(* feeds the tokens back.                                                  *)
(*                                                                         *)
(* LLMEngine is driven by one thread.  Its step() is cut where its loops   *)
(* are: `phase` is the place in step(), `todo` what is left of the loop    *)
(* there.  Requests come and go between steps (phase "idle").              *)
(***************************************************************************)
EXTENDS BlockManager

CONSTANTS
  MaxBatchedTokens,  \* SchedulerConfig.max_num_batched_tokens
  MaxNumSeqs,        \* SchedulerConfig.max_num_seqs
  ChunkedPrefill,    \* SchedulerConfig.enable_chunked_prefill
  Shape,             \* the requests clients send: [tokens, lora, priority, max]
  Faults             \* whether the forward pass may raise: the cases to consider

\* SchedulerConfig, as it checks itself, its BlockConfig included; that a block is a
\* power of two is for the kernels, and the scheduler's arithmetic is shown without it.
SchedulerConfigValid ==
  /\ {MaxBatchedTokens, MaxNumSeqs, BlockSize} \subseteq Nat \ {0}
  /\ BlockSize <= MaxBatchedTokens

ASSUME BudgetAssumption == SchedulerConfigValid
ASSUME ShapeAssumption == Shape \subseteq [tokens : Seq(Token), lora : Lora,
                                           priority : Int, max : Nat \ {0}]
ASSUME SwitchAssumption == ChunkedPrefill \in BOOLEAN /\ Faults \subseteq BOOLEAN

VARIABLES
  waiting,    \* Scheduler._waiting
  preempted,  \* Scheduler._preempted
  running,    \* Scheduler._running
  phase,      \* where in step() the engine is
  todo,       \* sequences the current loop has yet to visit
  budget,     \* _Budget of the step: tokens and sequences left
  batch,      \* SchedulerOutput.scheduled, then the sampling part of it
  bumped,     \* preempted_now: the sequences this step has preempted
  faulty      \* whether the forward pass may raise in this behaviour

queues == <<waiting, preempted, running>>
stepVars == <<phase, todo, budget, batch, bumped>>
vars == <<managerVars, queues, stepVars, faulty>>

Phase == {"idle", "publish", "running", "admit", "emit", "execute", "process", "closed"}

Item == [id : SeqId, start : Nat, end : Nat, prefill : BOOLEAN, chunk : BOOLEAN,
         table : Seq(Block)]

StepTypeOK ==
  /\ ManagerTypeOK
  /\ waiting \in Seq(SeqId) /\ preempted \in Seq(SeqId) /\ running \in Seq(SeqId)
  /\ todo \in Seq(SeqId)
  /\ budget \in [tokens : Nat, seqs : Nat]
  /\ batch \in Seq(Item)
  /\ bumped \in SUBSET SeqId
  /\ faulty \in Faults

\* The queues name sequences, the budget never goes below zero, and the batch holds
\* well-formed items.
TypeOK == StepTypeOK /\ phase \in Phase

FullBudget == [tokens |-> MaxBatchedTokens, seqs |-> MaxNumSeqs]

Init ==
  /\ ManagerInit
  /\ waiting = << >> /\ preempted = << >> /\ running = << >>
  /\ phase = "idle" /\ todo = << >> /\ budget = FullBudget
  /\ batch = << >> /\ bumped = {}
  /\ faulty \in Faults

----------------------------------------------------------------------------
(* Requests                                                                *)

InFlight(id) == seqs[id].status \in {"waiting", "running", "preempted"}

\* list.remove, where the sequence is
Drop(s, id) == RemoveFirst(s, id)

\* What add_sequence rejects: a prompt larger than the pool and, when it may not
\* be split, one larger than the budget of a step.
Accepts(shape) ==
  /\ shape.tokens # << >>
  /\ BlocksFor(Len(shape.tokens)) <= Cardinality(Block)
  /\ ChunkedPrefill \/ Len(shape.tokens) <= MaxBatchedTokens

\* A slip: the queue is a stack.
PushFront(id) == waiting' = <<id>> \o waiting

\* _WaitQueue.push under "fcfs"
Push(id) == waiting' = Append(waiting, id)

AddRequest(shape) ==
  /\ phase = "idle" /\ Accepts(shape)
  /\ \E id \in SeqId :
       /\ seqs[id].status = "absent"
       /\ \A other \in 1 .. id - 1 : seqs[other].status # "absent"
       /\ seqs' = [seqs EXCEPT ![id] =
                     [Blank("waiting") EXCEPT
                        !.tokens = shape.tokens, !.prompt = Len(shape.tokens),
                        !.max = shape.max, !.lora = shape.lora,
                        !.priority = shape.priority]]
       /\ Push(id)
  /\ UNCHANGED <<refs, free, retained, index, kv, preempted, running, stepVars>>

\* Scheduler.finish: free the blocks, leave every queue.
Retire(id) ==
  /\ FreeBlocks(id, Blank("finished"))
  /\ waiting' = Drop(waiting, id)
  /\ preempted' = Drop(preempted, id)
  /\ running' = Drop(running, id)

Abort(id) ==
  /\ phase = "idle" /\ InFlight(id)
  /\ Retire(id)
  /\ UNCHANGED stepVars

\* LLMEngine.close, with Scheduler.reset: everything in flight is dropped, the
\* pool and the cache are emptied, and add_request and step raise from then on.
Close ==
  /\ phase = "idle"
  /\ Pool!Reset
  /\ seqs' = [id \in SeqId |-> IF InFlight(id) THEN Blank("finished") ELSE seqs[id]]
  /\ kv' = [b \in Block |-> Unwritten]
  /\ waiting' = << >> /\ preempted' = << >> /\ running' = << >>
  /\ phase' = "closed"
  /\ UNCHANGED <<todo, budget, batch, bumped>>

----------------------------------------------------------------------------
(* schedule(): publish what the last step completed                        *)

BeginStep ==
  /\ phase = "idle" /\ \E id \in SeqId : InFlight(id)
  /\ phase' = "publish" /\ todo' = running
  /\ budget' = FullBudget /\ batch' = << >> /\ bumped' = {}
  /\ UNCHANGED <<managerVars, queues>>

PublishNext ==
  /\ phase = "publish" /\ todo # << >>
  /\ PublishComputed(Head(todo))
  /\ todo' = Tail(todo)
  /\ UNCHANGED <<queues, phase, budget, batch, bumped>>

EndPublish ==
  /\ phase = "publish" /\ todo = << >>
  /\ phase' = "running" /\ todo' = running
  /\ UNCHANGED <<managerVars, queues, budget, batch, bumped>>

----------------------------------------------------------------------------
(* _schedule_running: the next chunk or decode token of running sequences  *)

Exhausted == budget.tokens <= 0 \/ budget.seqs <= 0

Scheduled == {batch[i].id : i \in DOMAIN batch}

NewTokens(id) == NumNew(Uncomputed(id), budget.tokens)

\* A slip: prompts are split although chunked prefill is off.
MustNotSplitIgnored(left) == FALSE

\* The share of a sequence may not be a part of what it has left.
MustNotSplit(left) == ~ChunkedPrefill /\ NumNew(left, budget.tokens) < left

Charge(n) == budget' = [budget EXCEPT !.tokens = @ - n, !.seqs = @ - 1]

\* _emit: slots for n tokens of the sequence, and its entry in the batch.
Emit(id, n) ==
  LET start == seqs[id].computed
      isPrefill == start < seqs[id].prompt
  IN  /\ AppendSlots(id, n)
      /\ batch' = Append(batch,
           [id |-> id, start |-> start, end |-> start + n, prefill |-> isPrefill,
            chunk |-> isPrefill /\ start + n < seqs[id].prompt,
            table |-> seqs'[id].table])
      /\ Charge(n)

\* A slip: a sequence already in the batch may be preempted.
CandidatesScheduledToo(requester) ==
  {id \in ToSet(running) : id # requester /\ seqs[id].status = "running"}

\* _pick_victim: lowest priority, then the highest seq_id, among the running
\* sequences that are neither the requester nor in the batch.
Candidates(requester) ==
  {id \in ToSet(running) : /\ id # requester /\ id \notin Scheduled
                           /\ seqs[id].status = "running"}

Victim(requester) ==
  CHOOSE v \in Candidates(requester) :
    \A other \in Candidates(requester) :
      \/ seqs[v].priority < seqs[other].priority
      \/ seqs[v].priority = seqs[other].priority /\ v >= other

\* A slip: the preempted sequence is not queued again.
PreemptForgotten(id) ==
  /\ FreeBlocks(id, ForRecompute(seqs[id]))
  /\ running' = Drop(running, id)
  /\ bumped' = bumped \cup {id}
  /\ UNCHANGED <<waiting, preempted>>

\* _preempt: the blocks go back to the pool, the sequence to the queue of
\* preempted ones with its tokens.
Preempt(id) ==
  /\ FreeBlocks(id, ForRecompute(seqs[id]))
  /\ running' = Drop(running, id)
  /\ preempted' = Append(preempted, id)
  /\ bumped' = bumped \cup {id}
  /\ UNCHANGED waiting

Visiting(id) ==
  /\ phase = "running" /\ todo # << >> /\ ~Exhausted
  /\ id = Head(todo)

\* A sequence that was preempted as somebody's victim in this loop, that has
\* nothing to compute, or that may not be split.
Passed(id) ==
  \/ seqs[id].status # "running"
  \/ NewTokens(id) <= 0
  \/ MustNotSplit(Uncomputed(id))

SkipRunning(id) ==
  /\ Visiting(id) /\ Passed(id)
  /\ todo' = Tail(todo)
  /\ UNCHANGED <<managerVars, queues, phase, budget, batch, bumped>>

\* One round of _make_room with somebody to preempt ...
PreemptVictim(id) ==
  /\ Visiting(id) /\ ~Passed(id) /\ ~CanAppend(id, NewTokens(id))
  /\ Candidates(id) # {}
  /\ Preempt(Victim(id))
  /\ UNCHANGED <<phase, todo, budget, batch>>

\* ... and with nobody left but the sequence itself.
PreemptSelf(id) ==
  /\ Visiting(id) /\ ~Passed(id) /\ ~CanAppend(id, NewTokens(id))
  /\ Candidates(id) = {}
  /\ Preempt(id)
  /\ todo' = Tail(todo)
  /\ UNCHANGED <<phase, budget, batch>>

EmitRunning(id) ==
  /\ Visiting(id) /\ ~Passed(id) /\ CanAppend(id, NewTokens(id))
  /\ Emit(id, NewTokens(id))
  /\ todo' = Tail(todo)
  /\ UNCHANGED <<queues, phase, bumped>>

EndRunning ==
  /\ phase = "running" /\ (todo = << >> \/ Exhausted)
  /\ phase' = "admit" /\ todo' = << >>
  /\ UNCHANGED <<managerVars, queues, budget, batch, bumped>>

----------------------------------------------------------------------------
(* _schedule_admissions: preempted sequences first, then new ones          *)

Candidate == Head(preempted \o waiting)

\* Whether the loop goes on.  A sequence that allocate() left nothing to compute,
\* or more than may be computed at once, is released again, and nothing has changed.
Admissible ==
  /\ ~Exhausted
  /\ preempted \o waiting # << >>
  /\ Candidate \notin bumped
  /\ CanAllocate(Candidate)
  /\ LET left == NumTokens(Candidate) - Len(Hits(Candidate)) * BlockSize
     IN  left > 0 /\ ~MustNotSplit(left)

Admit ==
  /\ phase = "admit" /\ Admissible
  /\ AllocateHits(Candidate, "running")
  /\ running' = Append(running, Candidate)
  /\ IF preempted # << >>
       THEN preempted' = Tail(preempted) /\ UNCHANGED waiting
       ELSE waiting' = Tail(waiting) /\ UNCHANGED preempted
  /\ phase' = "emit" /\ todo' = <<Candidate>>
  /\ UNCHANGED <<budget, batch, bumped>>

\* The rest of the same iteration: append_slots must not run out of blocks.
EmitAdmitted ==
  /\ phase = "emit"
  /\ Emit(Head(todo), NewTokens(Head(todo)))
  /\ phase' = "admit" /\ todo' = << >>
  /\ UNCHANGED <<queues, bumped>>

\* schedule() returns; step() ends at once when the batch is empty.
EndSchedule ==
  /\ phase = "admit" /\ ~Admissible
  /\ phase' = IF batch = << >> THEN "idle" ELSE "execute"
  /\ UNCHANGED <<managerVars, queues, todo, budget, batch, bumped>>

----------------------------------------------------------------------------
(* The forward pass and what is done with the sampled tokens               *)

Positions(item) == item.start + 1 .. item.end

\* slot_mapping of the whole batch: which token of which sequence goes where.
Writes ==
  UNION {{[id |-> item.id, n |-> n, slot |-> SlotOf(item.table, n)] : n \in Positions(item)}
           : item \in ToSet(batch)}

Forward ==
  LET At(slot) == {w \in Writes : w.slot = slot}
  IN  kv' = [b \in Block |-> [o \in Offset |->
               IF At(<<b, o>>) = {} THEN kv[b][o]
               ELSE LET w == CHOOSE w \in At(<<b, o>>) : TRUE
                    IN  ContextAt(w.id, w.n)]]

\* The items of T, in the order of the batch: SelectSeq as a recursive function.
Among(items, T) ==
  LET kept[n \in 0 .. Len(items)] ==
        IF n = 0 THEN << >>
        ELSE IF items[n] \in T THEN Append(kept[n - 1], items[n]) ELSE kept[n - 1]
  IN  kept[Len(items)]

\* SchedulerOutput.sampled: prefills before decodes, chunks left out.
Sampled ==
  Among(batch, {item \in ToSet(batch) : item.prefill /\ ~item.chunk})
    \o Among(batch, {item \in ToSet(batch) : ~item.prefill})

Execute ==
  /\ phase = "execute"
  /\ Forward
  /\ batch' = Sampled
  /\ phase' = IF Sampled = << >> THEN "idle" ELSE "process"
  /\ UNCHANGED <<refs, free, retained, index, seqs, queues, todo, budget, bumped>>

\* The model raises, before or after it has written the K/V; step() lets the
\* exception through and the scheduler keeps what it recorded.
ExecuteFails ==
  /\ faulty /\ phase = "execute"
  /\ Forward \/ UNCHANGED kv
  /\ phase' = "idle" /\ batch' = << >>
  /\ UNCHANGED <<refs, free, retained, index, seqs, queues, todo, budget, bumped>>

\* Scheduler.append_token: a stop token, EOS or stop string (a choice here) or
\* max_tokens retires the sequence; otherwise it becomes s, with the token.
FeedBack(id, s, stops) ==
  IF stops \/ Len(s.tokens) - s.prompt >= s.max
    THEN Retire(id)
    ELSE /\ seqs' = [seqs EXCEPT ![id] = s]
         /\ UNCHANGED <<refs, free, retained, index, kv, queues>>

\* One pair of _process
Process(token, stops) ==
  /\ phase = "process"
  /\ LET id == Head(batch).id
     IN  FeedBack(id, [seqs[id] EXCEPT !.tokens = Append(@, token)], stops)
  /\ batch' = Tail(batch)
  /\ phase' = IF Tail(batch) = << >> THEN "idle" ELSE "process"
  /\ UNCHANGED <<todo, budget, bumped>>

----------------------------------------------------------------------------
Step ==
  /\ \/ BeginStep \/ PublishNext \/ EndPublish
     \/ \E id \in SeqId : SkipRunning(id) \/ PreemptVictim(id) \/ PreemptSelf(id) \/ EmitRunning(id)
     \/ EndRunning \/ Admit \/ EmitAdmitted \/ EndSchedule
     \/ Execute \/ ExecuteFails
     \/ \E token \in Token, stops \in BOOLEAN : Process(token, stops)
  /\ UNCHANGED faulty

Next ==
  \/ \E shape \in Shape : AddRequest(shape) /\ UNCHANGED faulty
  \/ \E id \in SeqId : Abort(id) /\ UNCHANGED faulty
  \/ Close /\ UNCHANGED faulty
  \/ Step

Spec == Init /\ [][Next]_vars

\* Whoever drives the engine (generate, the step thread of AsyncEngine) keeps
\* calling step() while a request is unfinished.
FairSpec == Spec /\ WF_vars(Step)

----------------------------------------------------------------------------
(* Properties                                                              *)

\* Scheduler.check_invariants: the three queues hold each sequence in flight
\* exactly once, under its status, and what is queued holds no blocks.
QueuesConsistent ==
  /\ IsInjective(waiting \o preempted \o running)
  /\ \A id \in SeqId :
       /\ seqs[id].status = "waiting" <=> id \in ToSet(waiting)
       /\ seqs[id].status = "preempted" <=> id \in ToSet(preempted)
       /\ seqs[id].status = "running" <=> id \in ToSet(running)
       /\ id \notin ToSet(running) => seqs[id].table = << >>
       /\ seqs[id].computed <= NumTokens(id)

\* BlockManager.check_invariants, and no block is leaked or counted twice: its
\* reference count is the number of sequences whose table has it.
BlocksAccounted ==
  /\ Pool!ThreeStates /\ Pool!CacheAgrees
  /\ \A b \in Block : refs[b] = Cardinality({id \in SeqId : b \in ToSet(seqs[id].table)})

\* "cached" never means "about to be": a block the prefix cache answers for
\* holds, in every slot, the K/V of the prefix and adapter its hash stands for.
CacheSound ==
  \A b \in DOMAIN index :
    LET lora == index[b][1]
        tokens == index[b][2]
    IN  \A o \in Offset :
          kv[b][o] = <<lora, SubSeq(tokens, 1, Len(tokens) - BlockSize + 1 + o)>>

\* The batch has been scheduled and not executed.
Pending == phase \notin {"idle", "publish", "verify", "process", "closed"}

\* How far the K/V of a running sequence is really in its blocks.
WrittenUpTo(id) ==
  IF Pending /\ id \in Scheduled
    THEN (CHOOSE item \in ToSet(batch) : item.id = id).start
    ELSE seqs[id].computed

\* What attention reads: every position of a sequence before the ones the batch
\* is about to write holds the K/V of this very sequence and adapter, through
\* sharing, preemption, eviction and reuse of its blocks.
ContextIntact ==
  \A id \in ToSet(running) : \A n \in 1 .. WrittenUpTo(id) :
    LET slot == SlotOf(seqs[id].table, n)
    IN  kv[slot[1]][slot[2]] = ContextAt(id, n)

\* The forward pass never writes into a block somebody else reads: the blocks it
\* writes belong to one sequence, that is still running and still holds them,
\* and the prefix cache does not offer them.
WritesPrivate ==
  Pending => \A i \in DOMAIN batch :
    /\ seqs[batch[i].id].status = "running"
    /\ seqs[batch[i].id].table = batch[i].table
    /\ \A n \in Positions(batch[i]) :
         LET b == SlotOf(batch[i].table, n)[1]
         IN  refs[b] = 1 /\ b \notin DOMAIN index

\* SchedulerOutput.num_batched_tokens
Load(items) ==
  LET sum[n \in 0 .. Len(items)] ==
        IF n = 0 THEN 0 ELSE sum[n - 1] + (items[n].end - items[n].start)
  IN  sum[Len(items)]

\* Both budgets are hard, and no sequence appears twice in a step.
BudgetsHard ==
  Pending =>
    /\ Load(batch) <= MaxBatchedTokens
    /\ Len(batch) <= MaxNumSeqs
    /\ Cardinality(Scheduled) = Len(batch)

\* can_allocate's arithmetic on shared and retained hits is exact enough that
\* the append_slots that follows it never runs out of blocks: nothing catches
\* OutOfBlocksError there.
AdmissionFunded ==
  phase = "emit" => CanAppend(Head(todo), NewTokens(Head(todo)))

\* A token is sampled only from the last position of a sequence: from an
\* earlier one the model predicts a token the sequence already has.
SamplesAtEnd ==
  phase = "process" => Head(batch).end = NumTokens(Head(batch).id)

\* fcfs: nobody is admitted past a request that arrived earlier.
NoOvertaking ==
  \A early, late \in SeqId :
    early < late /\ seqs[early].status = "waiting"
      => seqs[late].status \notin {"running", "preempted"}

\* A step that schedules nothing has at least preempted somebody; otherwise the
\* next step finds the same state, and the requests in flight never finish.
NoStall ==
  phase = "admit" /\ ~Admissible /\ batch = << >> => bumped # {}

\* Every request that was accepted is finished at last, preempted or not, unless
\* the forward pass raises.
AllServed ==
  \A id \in SeqId : ~faulty /\ seqs[id].status = "waiting" ~> seqs[id].status = "finished"

\* Between any two visits of the scheduler's loops, and whatever a failed forward pass left
\* behind: queues, tables, reference counts, budgets and the batch agree with each other, and
\* what is admitted has its blocks.
EngineInv ==
  TypeOK /\ QueuesConsistent /\ BlocksAccounted /\ BudgetsHard /\ WritesPrivate /\ AdmissionFunded

\* The K/V cache says what it is taken to say: to attention, and to the prefix cache.
KVFaithful == ContextIntact /\ CacheSound
=============================================================================
