---------------------------- MODULE BlockManager ----------------------------
(***************************************************************************)
(* engine/core/block_manager.py over the pool contract of BlockPool, with  *)
(* the sequences of engine/core/sequence.py it serves and the contents of  *)
(* the paged KV tensors (KVCache in engine/core/kv_cache.py).              *)
(*                                                                         *)
(* The K/V of a token depends on the whole prefix that ends at it and on   *)
(* the adapter, so the contents of a slot are modelled by that pair, its   *)
(* "context".  The chained blake2b hash of a full block identifies the     *)
(* context of its last token; it is modelled as that context (collision    *)
(* free).  The scheduler drives the operators of this module.              *)
(***************************************************************************)
EXTENDS Integers, Sequences, FiniteSets, SequencesExt

CONSTANTS
  Block,          \* block ids of the pool
  BlockSize,      \* SchedulerConfig.block_size
  PrefixCaching,  \* SchedulerConfig.enable_prefix_caching
  Token,          \* token ids
  Lora,           \* adapter ids a request may name (NO_LORA among them)
  MaxRequests     \* bound on the requests of one behaviour

ASSUME PoolAssumption == IsFiniteSet(Block) /\ Block # {}
ASSUME BlockSizeAssumption == BlockSize \in Nat \ {0}
ASSUME CachingAssumption == PrefixCaching \in BOOLEAN
ASSUME RequestsAssumption == MaxRequests \in Nat
ASSUME LoraAssumption == Lora # {}

VARIABLES
  refs, free, retained, index,   \* the pool, see BlockPool
  kv,             \* what the model has written in each slot of each block
  seqs            \* the Sequence objects, by seq_id

Context == Lora \X Seq(Token)

Pool == INSTANCE BlockPool WITH Hash <- Context

----------------------------------------------------------------------------
(* engine/core/sequence.py                                                 *)

SeqId == 1 .. MaxRequests

Status == {"absent", "waiting", "running", "preempted", "finished"}

\* A seq_id that no request has been given yet.  A finished sequence is
\* represented the same way: nobody reads its fields any more.
Blank(status) ==
  [status |-> status, tokens |-> << >>, prompt |-> 0, max |-> 0, lora |-> CHOOSE l \in Lora : TRUE,
   priority |-> 0, computed |-> 0, table |-> << >>, published |-> 0]

NumTokens(id) == Len(seqs[id].tokens)
Uncomputed(id) == NumTokens(id) - seqs[id].computed

\* Blocks that hold n tokens, a partial tail included.
BlocksFor(n) == (n + BlockSize - 1) \div BlockSize
NumBlocksNeeded(id) == BlocksFor(NumTokens(id))

\* num_new_tokens_to_compute of a sequence with n tokens left
NumNew(left, budget) == IF left <= budget THEN left ELSE budget

\* The context of the n-th token of a sequence.
ContextAt(id, n) == <<seqs[id].lora, SubSeq(seqs[id].tokens, 1, n)>>

\* block_hash of the i-th full block, blocks counted from 1.
BlockHash(id, i) == ContextAt(id, i * BlockSize)

----------------------------------------------------------------------------
(* KVCache: a slot is a block and an offset in it.                          *)

NoKV == << >>
Offset == 0 .. BlockSize - 1
Unwritten == [o \in Offset |-> NoKV]

\* slot_mapping of the n-th token (from 1) under a block table.
SlotOf(table, n) ==
  <<table[(n - 1) \div BlockSize + 1], (n - 1) % BlockSize>>

----------------------------------------------------------------------------
(* engine/core/block_manager.py                                            *)

\* A slip: all of a sequence may be answered for by the cache.
MaxHitBlocksAll(id) == NumTokens(id) \div BlockSize

\* At least one token is left to compute (_max_hit_blocks).
MaxHitBlocks(id) == (NumTokens(id) - 1) \div BlockSize

\* The cached block, if any, that holds the i-th block of a sequence.
AnswersFor(id, i) == {blk \in DOMAIN index : index[blk] = BlockHash(id, i)}

\* PrefixCache.match: the longest unbroken run of cached blocks.
MatchLength(id) ==
  Max({n \in 0 .. MaxHitBlocks(id) : \A i \in 1 .. n : AnswersFor(id, i) # {}})

Hits(id) ==
  [i \in 1 .. MatchLength(id) |-> CHOOSE blk \in AnswersFor(id, i) : TRUE]

\* A slip: adopting a retained block is taken to be free of charge.
CanAllocateNaive(id) ==
  NumBlocksNeeded(id) - Len(Hits(id)) <= Cardinality(Pool!Allocatable)

\* Room for the whole sequence: adopting a retained hit uses up a block that
\* was allocatable, a hit on a block in use costs nothing.
CanAllocate(id) ==
  NumBlocksNeeded(id) - Len(Hits(id))
    <= Cardinality(Pool!Allocatable) - Cardinality(ToSet(Hits(id)) \cap retained)

\* Blocks the table must grow by before n more tokens fit.
Growth(id, n) == BlocksFor(seqs[id].computed + n) - Len(seqs[id].table)

CanAppend(id, n) == Growth(id, n) <= Cardinality(Pool!Allocatable)

\* The `table` extensions that append_slots may produce: one distinct block per
\* missing table entry, taken from the pool by BlockAllocator.allocate.
Extensions(id, n) ==
  {ext \in [1 .. Growth(id, n) -> Pool!Allocatable] : IsInjective(ext)}

\* A slip: the sampled token counts although its K/V is not written yet.
NumFullSampled(id) == Min({NumTokens(id) \div BlockSize, Len(seqs[id].table)})

\* publish_computed_blocks offers the full, computed blocks not offered before.
NumFull(id) == Min({seqs[id].computed \div BlockSize, Len(seqs[id].table)})

NewEntries(id) ==
  LET new == seqs[id].published + 1 .. NumFull(id)
  IN  [b \in {seqs[id].table[i] : i \in new} |->
         BlockHash(id, CHOOSE i \in new : seqs[id].table[i] = b)]

\* publish_computed_blocks
PublishComputed(id) ==
  /\ Pool!Publish(NewEntries(id))
  /\ seqs' = [seqs EXCEPT ![id].published =
                IF PrefixCaching THEN Max({@, NumFull(id)}) ELSE @]
  /\ UNCHANGED kv

\* allocate: take the hits and credit them as computed.
AllocateHits(id, status) ==
  LET hits == Hits(id)
  IN  /\ Pool!Share(ToSet(hits))
      /\ seqs' = [seqs EXCEPT ![id].status = status,
                              ![id].table = hits,
                              ![id].published = Len(hits),
                              ![id].computed = Len(hits) * BlockSize]
      /\ UNCHANGED kv

\* append_slots for n tokens, then Sequence.advance_computed.  The contents a
\* newly allocated block had before mean nothing.
AppendSlots(id, n) ==
  \E ext \in Extensions(id, n) :
    /\ Pool!Allocate(ToSet(ext))
    /\ seqs' = [seqs EXCEPT ![id].table = @ \o ext, ![id].computed = @ + n]
    /\ kv' = [b \in Block |-> IF b \in ToSet(ext) THEN Unwritten ELSE kv[b]]

\* free: publish, drop the references; `after` is what is left of the sequence.
FreeBlocks(id, after) ==
  /\ Pool!Release(ToSet(seqs[id].table), NewEntries(id))
  /\ seqs' = [seqs EXCEPT ![id] = after]
  /\ kv' = [b \in Block |-> IF b \in free' THEN Unwritten ELSE kv[b]]

\* Sequence.reset_for_recompute, the second half of preempt: the KV is gone,
\* the tokens already generated stay.
ForRecompute(s) ==
  [s EXCEPT !.status = "preempted", !.table = << >>, !.published = 0, !.computed = 0]

----------------------------------------------------------------------------
managerVars == <<refs, free, retained, index, kv, seqs>>

ManagerInit ==
  /\ Pool!PoolInit
  /\ kv = [b \in Block |-> Unwritten]
  /\ seqs = [id \in SeqId |-> Blank("absent")]

Sequence == [status : Status, tokens : Seq(Token), prompt : Nat, max : Nat, lora : Lora,
             priority : Int, computed : Nat, table : Seq(Block), published : Nat]

ManagerTypeOK ==
  /\ Pool!PoolTypeOK
  /\ kv \in [Block -> [Offset -> Context \cup {NoKV}]]
  /\ seqs \in [SeqId -> Sequence]
=============================================================================
