----------------------------- MODULE PagedBatch -----------------------------
(***************************************************************************)
(* One packed step on the paged KV cache: the scheduler's batch laid out    *)
(* as flat vectors (SchedulerOutput, AttnMetadata), the scatter of the new  *)
(* keys and values (KVCache.write), and the attention that reads them back  *)
(* through the block tables, by the reference path (attention.py) or the    *)
(* decode kernel (triton_attention.py).  The key of a token is the token's  *)
(* identity, so that what a query attends to can be compared with dense     *)
(* causal attention.  Rows, slots, positions and blocks count from 0.       *)
(***************************************************************************)
EXTENDS Naturals, Sequences, SequencesExt, FiniteSets, FiniteSetsExt, Functions

CONSTANTS
  BlockSize,
  Shapes,     \* the pairs of sequences to look at: [table, prompt, known, length, shared] each
  Triton,     \* whether the decode kernel may be used
  InitialCapacity,  \* positions asked of the rotary table at first
  MinTable    \* its smallest size, 16 in the code

PAD == 99     \* PAD_BLOCK
Unwritten == [seq |-> 0, pos |-> 0]

ASSUME PagedBounds == BlockSize \in Nat \ {0} /\ Triton \subseteq BOOLEAN /\ {InitialCapacity, MinTable} \subseteq Nat

VARIABLES
  shape,      \* the sequences, by batch id
  cuda,       \* whether this engine runs on a device with the kernel
  known,      \* num_tokens of each sequence, prompt and output
  computed,   \* num_computed_tokens
  cache,      \* the content of every slot
  capacity,   \* RotaryEmbedding.capacity
  step        \* what the last step gave the model and got back

pagedVars == <<shape, cuda, known, computed, cache, capacity, step>>

Seqs == DOMAIN shape
Blocks == UNION {ToSet(shape[s].table) : s \in Seqs}
NoStep == [items |-> <<>>, meta |-> <<>>, attended |-> <<>>, samples |-> <<>>, positions |-> <<>>, logits |-> <<>>]

\* The token at a position; the first `shared` tokens of a sequence are those of sequence 1.
Content(s, p) == [seq |-> IF p < shape[s].shared THEN 1 ELSE s, pos |-> p]

PagedInit ==
  /\ shape \in Shapes /\ cuda \in Triton
  /\ known = [s \in Seqs |-> shape[s].known] /\ computed = [s \in Seqs |-> 0]
  /\ cache = [x \in {b * BlockSize + o : b \in Blocks, o \in 0 .. BlockSize - 1} |-> Unwritten]
  /\ capacity = Max({InitialCapacity, MinTable}) /\ step = NoStep

----------------------------------------------------------------------------
(* The batch.                                                                *)

CeilDiv(a, b) == (a + b - 1) \div b

\* BlockManager.slot_mapping
SlotIndex(s, p) == shape[s].table[(p \div BlockSize) + 1] * BlockSize + (p % BlockSize)

\* ScheduledSeq for n new tokens; its block table has the blocks of its context.
Item(s, n) ==
  LET context == computed[s] + n
  IN [seq |-> s, n |-> n, context |-> context,
      slots |-> [i \in 1 .. n |-> SlotIndex(s, computed[s] + i - 1)],
      table |-> SubSeq(shape[s].table, 1, CeilDiv(context, BlockSize)),
      isPrefill |-> computed[s] < shape[s].prompt,
      isChunk |-> computed[s] < shape[s].prompt /\ context < shape[s].prompt]

\* build_query_start_loc: the rows of an item are those from Start(items, i) on.
Start(items, i) == SumFunctionOnSet([j \in DOMAIN items |-> items[j].n], 1 .. i - 1)

\* sample_indices, aligned with sampled().
SampleIndices(items) ==
  LET sampled == SetToSortSeq({i \in DOMAIN items : ~items[i].isChunk}, <)
  IN [k \in DOMAIN sampled |->
        [seq |-> items[sampled[k]].seq, row |-> Start(items, sampled[k] + 1) - 1]]

\* positions(): the position of each row.
PositionsOf(items) ==
  FlattenSeq([i \in DOMAIN items |->
                [j \in 1 .. items[i].n |-> items[i].context - items[i].n + j - 1]])

\* pad_block_tables: rows as wide as the widest one.
PaddedTables(items) ==
  LET width == Max({Len(items[i].table) : i \in DOMAIN items})
  IN [i \in DOMAIN items |->
        [k \in 1 .. width |-> IF k <= Len(items[i].table) THEN items[i].table[k] ELSE PAD]]

\* build_attn_metadata
Metadata(items) ==
  [slots |-> FlattenSeq([i \in DOMAIN items |-> items[i].slots]),
   tables |-> PaddedTables(items),
   contexts |-> [i \in DOMAIN items |-> items[i].context],
   starts |-> [i \in 1 .. Len(items) + 1 |-> Start(items, i)],
   maxQuery |-> Max({items[i].n : i \in DOMAIN items}),
   maxContext |-> Max({items[i].context : i \in DOMAIN items}),
   prefills |-> Cardinality({i \in DOMAIN items : items[i].isPrefill})]

\* AttnMetadata.query_lens, read back from the start offsets.
QueryLens(meta) == [i \in DOMAIN meta.contexts |-> meta.starts[i + 1] - meta.starts[i]]

\* AttnMetadata.validate, which the runtime calls in tests and when debug logging is on.
Valid(meta) ==
  LET seqs == DOMAIN meta.contexts
      lens == QueryLens(meta)
  IN /\ DOMAIN meta.tables = seqs /\ Len(meta.starts) = Len(meta.contexts) + 1
     /\ Head(meta.starts) = 0 /\ Last(meta.starts) = Len(meta.slots)
     /\ \A i \in seqs : /\ lens[i] >= 0 /\ meta.contexts[i] >= lens[i]
                       /\ \A k \in 1 .. CeilDiv(meta.contexts[i], BlockSize) :
                            k \in DOMAIN meta.tables[i] /\ meta.tables[i][k] # PAD
     /\ meta.maxQuery = Max(ToSet(lens)) /\ meta.maxContext = Max(ToSet(meta.contexts))

----------------------------------------------------------------------------
(* The forward pass.                                                         *)

\* KVCache.write: the new keys are scattered into the flat slots, in batch order.
Written(meta, items) ==
  LET tokens == FlattenSeq([i \in DOMAIN items |->
                  [j \in 1 .. items[i].n |-> Content(items[i].seq, items[i].context - items[i].n + j - 1)]])
  IN FoldLeftDomain(LAMBDA c, r : [c EXCEPT ![meta.slots[r]] = tokens[r]], cache, meta.slots)

\* gather_sequence_kv: the blocks of the trimmed table, one after the other, cut to the context.
Gather(mem, table, context) ==
  SubSeq(FlattenSeq([k \in 1 .. CeilDiv(context, BlockSize) |->
                       [o \in 1 .. BlockSize |-> mem[table[k] * BlockSize + o - 1]]]), 1, context)

\* A slip: the mask is aligned with the first key, not with the last.
MaskFromStart(query, context, j) == j + 1

\* causal_block_mask: how many keys query j (from 0) of the sequence sees.
Mask(query, context, j) == context - query + j + 1

\* paged_attention_reference: each row's keys.
ReferenceAttention(meta, mem) ==
  FlattenSeq([i \in DOMAIN meta.contexts |->
    LET query == QueryLens(meta)[i]
        keys == Gather(mem, meta.tables[i], meta.contexts[i])
    IN [j \in 1 .. query |-> SubSeq(keys, 1, Mask(query, meta.contexts[i], j - 1))]])

\* The decode kernel: one program per sequence, row i of q with row i of the block tables,
\* block after block, the positions from the context length on masked out.
KernelAttention(meta, mem) ==
  [i \in DOMAIN meta.contexts |->
     FlattenSeq([k \in 1 .. CeilDiv(meta.contexts[i], BlockSize) |->
       LET valid == Min({BlockSize, meta.contexts[i] - (k - 1) * BlockSize})
       IN [o \in 1 .. valid |-> mem[meta.tables[i][k] * BlockSize + o - 1]]])]

\* AttnMetadata.is_decode_only
DecodeOnly(meta) == meta.prefills = 0 /\ meta.maxQuery = 1

\* can_use_triton_decode
UsesKernel(meta) == cuda /\ DecodeOnly(meta) /\ Len(meta.slots) = Len(meta.contexts)

\* RotaryEmbedding.ensure_capacity, before the layers run.
Grown(n) == IF n <= capacity THEN capacity ELSE Max({n, 2 * capacity, MinTable})

CapacityFor(meta) == Grown(Max({meta.maxContext, Len(meta.slots)}))

Scheduled(items) == {items[i].seq : i \in DOMAIN items}
Place(items, s) == CHOOSE i \in DOMAIN items : items[i].seq = s
Sampling(items) == {items[i].seq : i \in {j \in DOMAIN items : ~items[j].isChunk}}

\* PagedAttention.forward: what each row attends to, by the backend select_backend chose.
Attended(meta, mem) ==
  IF UsesKernel(meta) THEN KernelAttention(meta, mem) ELSE ReferenceAttention(meta, mem)

\* compute_logits: the rows that sample.
ComputeLogits(hidden, samples) == [k \in DOMAIN samples |-> hidden[samples[k].row + 1]]

\* ModelRunner.execute, and the token fed back to every sequence that sampled.
Run(items) ==
  LET meta == Metadata(items)
      mem == Written(meta, items)
  IN /\ cache' = mem
     /\ capacity' = CapacityFor(meta)
     /\ step' = [items |-> items, meta |-> meta, positions |-> PositionsOf(items), attended |-> Attended(meta, mem),
                 samples |-> SampleIndices(items),
                 logits |-> ComputeLogits(Attended(meta, mem), SampleIndices(items))]
     /\ computed' = [s \in Seqs |-> IF s \in Scheduled(items) THEN items[Place(items, s)].context
                                    ELSE computed[s]]
     /\ known' = [s \in Seqs |-> known[s] + IF s \in Sampling(items) THEN 1 ELSE 0]
     /\ UNCHANGED <<shape, cuda>>

\* num_new_tokens_to_compute under any budget: a chunk, the rest, or a decode's one token.
\* A sequence that shares blocks starts behind them.
Sizes(s) ==
  IF known[s] = shape[s].length \/ computed[s] < shape[s].shared THEN {} ELSE 1 .. known[s] - computed[s]

\* A step of the engine: some sequences, prefills first.
PagedStep ==
  \E S \in SUBSET Seqs \ {{}} : \E n \in [S -> 1 .. Max({known[s] : s \in Seqs})] :
    /\ \A s \in S : n[s] \in Sizes(s)
    /\ LET item == [s \in S |-> Item(s, n[s])]
           order == SetToSortSeq(S, LAMBDA x, y : \/ item[x].isPrefill /\ ~item[y].isPrefill
                                                  \/ item[x].isPrefill = item[y].isPrefill /\ x < y)
       IN Run([i \in DOMAIN order |-> item[order[i]]])

\* A prefix-cache hit: a sequence that is admitted, for the first time or again with some
\* output, starts behind the blocks it shares with sequence 1.
AdoptPrefix ==
  \E s \in Seqs \ {1} :
    /\ computed[s] = 0 /\ shape[s].shared > 0 /\ computed[1] >= shape[s].shared
    /\ computed' = [computed EXCEPT ![s] = shape[s].shared]
    /\ step' = NoStep
    /\ UNCHANGED <<shape, cuda, known, cache, capacity>>

\* A preemption: the keys are computed again, those of the output included.
Recompute ==
  \E s \in Seqs \ {1} :
    /\ computed[s] > 0 /\ shape[s].shared = 0 /\ known[s] < shape[s].length
    /\ computed' = [computed EXCEPT ![s] = 0]
    /\ step' = NoStep
    /\ UNCHANGED <<shape, cuda, known, cache, capacity>>

PagedNext == PagedStep \/ AdoptPrefix \/ Recompute

----------------------------------------------------------------------------
(* Properties.                                                               *)

RowsOf(i) == Start(step.items, i) + 1 .. Start(step.items, i) + step.items[i].n

\* Every query attends to the tokens of its own sequence up to itself, in order, exactly as
\* dense causal attention would: through chunks, shared blocks, mixed batches and either
\* kernel (paged_attention_reference, _paged_decode_kernel).
PagedIsDense ==
  \A i \in DOMAIN step.items : \A r \in RowsOf(i) :
    step.attended[r] = [p \in 1 .. step.positions[r] + 1 |-> Content(step.items[i].seq, p - 1)]

\* Every batch the scheduler lays out passes the checks that are off in production, and no
\* two of its rows are written to one slot, those of sequences with shared blocks included
\* (AttnMetadata.validate, slot_mapping).
BatchValid == step.items # <<>> => Valid(step.meta) /\ IsInjective(step.meta.slots)

\* A sampled token comes from the row of the last token its sequence computed, and goes to
\* that sequence, in a batch of chunks and decodes (sample_indices against sampled()).
SamplesLastRow ==
  \A k \in DOMAIN step.samples :
    Last(step.logits[k]) = Content(step.samples[k].seq, computed[step.samples[k].seq] - 1)

\* Every position of a step is in the rotary table (RotaryEmbedding.ensure_capacity).
PositionsInTable == \A r \in DOMAIN step.positions : step.positions[r] < capacity

\* A packed step computes what dense attention on each sequence would.
PagedSound == BatchValid /\ PagedIsDense /\ SamplesLastRow /\ PositionsInTable
=============================================================================
