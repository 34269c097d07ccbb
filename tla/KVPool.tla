------------------------------- MODULE KVPool -------------------------------
(***************************************************************************)
(* engine/core/kv_cache.py (BlockAllocator) and its recycler,              *)
(* engine/core/prefix_cache.py (PrefixCache), with the order the code      *)
(* keeps: the free list is a FIFO deque, the evictable blocks an           *)
(* OrderedDict from the least to the most recently released.  One action   *)
(* per allocator call of engine/core/block_manager.py; the caller obeys    *)
(* the methods' preconditions (a violated one raises and changes nothing). *)
(***************************************************************************)
EXTENDS Integers, Sequences, SequencesExt, Functions

CONSTANTS
  NumBlocks,      \* SchedulerConfig.num_blocks
  Hash,           \* content hashes of full blocks
  PrefixCaching,  \* whether the allocator has a recycler
  MaxRefs         \* bound on the sequences that share one block

ASSUME NumBlocksAssumption == NumBlocks \in Nat
ASSUME RecyclerAssumption == PrefixCaching \in BOOLEAN

VARIABLES
  refs,           \* BlockAllocator._refs
  freeList,       \* BlockAllocator._free
  retained,       \* BlockAllocator._retained
  byHash,         \* PrefixCache._by_hash: hash -> block
  byBlock,        \* PrefixCache._by_block: block -> hash
  evictable       \* PrefixCache._evictable, least recently released first

allocatorVars == <<refs, freeList, retained, byHash, byBlock, evictable>>

Block == 0 .. NumBlocks - 1
EmptyDict == [x \in {} |-> x]

\* Ids on the lists are block ids, and the cache indexes are partial maps between
\* hashes and blocks.
AllocatorTypeOK ==
  /\ refs \in [Block -> Nat]
  /\ freeList \in Seq(Block)
  /\ retained \in SUBSET Block
  /\ DOMAIN byHash \in SUBSET Hash
  /\ byHash \in [DOMAIN byHash -> Block]
  /\ DOMAIN byBlock \in SUBSET Block
  /\ byBlock \in [DOMAIN byBlock -> Hash]
  /\ evictable \in Seq(Block)

AllocatorInit ==
  /\ refs = [b \in Block |-> 0]
  /\ freeList = [i \in 1 .. NumBlocks |-> i - 1]
  /\ retained = {}
  /\ byHash = EmptyDict
  /\ byBlock = EmptyDict
  /\ evictable = << >>

----------------------------------------------------------------------------
\* OrderedDict.pop(block_id, None): the sequence without b, order kept.
Without(s, b) ==
  IF b \in ToSet(s) THEN RemoveAt(s, CHOOSE i \in DOMAIN s : s[i] = b) ELSE s

\* allocate() with a block on the free list.
AllocateFree ==
  /\ freeList # << >>
  /\ refs' = [refs EXCEPT ![Head(freeList)] = 1]
  /\ freeList' = Tail(freeList)
  /\ UNCHANGED <<retained, byHash, byBlock, evictable>>

\* A slip: the block released last is evicted.
AllocateEvictYoungest ==
  /\ freeList = << >> /\ retained # {} /\ evictable # << >>
  /\ LET b == Last(evictable)
     IN  /\ refs' = [refs EXCEPT ![b] = 1]
         /\ retained' = retained \ {b}
         /\ evictable' = Front(evictable)
         /\ byHash' = Restrict(byHash, DOMAIN byHash \ {byBlock[b]})
         /\ byBlock' = Restrict(byBlock, DOMAIN byBlock \ {b})
         /\ UNCHANGED freeList

\* allocate() on an empty free list: _reclaim(1) has the cache evict its least
\* recently released block from both indexes, release_retained puts it on the
\* free list, and the same call pops it.  With nothing retained it raises.
AllocateEvict ==
  /\ freeList = << >>
  /\ retained # {} /\ evictable # << >>
  /\ LET b == Head(evictable)
     IN  /\ b \in retained
         /\ refs' = [refs EXCEPT ![b] = 1]
         /\ retained' = retained \ {b}
         /\ evictable' = Tail(evictable)
         /\ byHash' = Restrict(byHash, DOMAIN byHash \ {byBlock[b]})
         /\ byBlock' = Restrict(byBlock, DOMAIN byBlock \ {b})
         /\ UNCHANGED freeList

\* Two slips: acquire() is forgotten; adopt() is followed by incref().
AdoptWithoutAcquire(b) ==
  /\ b \in DOMAIN byBlock /\ b \in retained
  /\ refs' = [refs EXCEPT ![b] = 1]
  /\ retained' = retained \ {b}
  /\ UNCHANGED <<freeList, byHash, byBlock, evictable>>

AdoptAndIncref(b) ==
  /\ b \in DOMAIN byBlock /\ b \in retained
  /\ refs' = [refs EXCEPT ![b] = 2]
  /\ retained' = retained \ {b}
  /\ evictable' = Without(evictable, b)
  /\ UNCHANGED <<freeList, byHash, byBlock>>

\* A prefix match found b unreferenced: adopt(), then PrefixCache.acquire().
Adopt(b) ==
  /\ b \in DOMAIN byBlock /\ b \in retained
  /\ refs' = [refs EXCEPT ![b] = 1]
  /\ retained' = retained \ {b}
  /\ evictable' = Without(evictable, b)
  /\ UNCHANGED <<freeList, byHash, byBlock>>

\* A prefix match found b in use: incref(), then PrefixCache.acquire().
Incref(b) ==
  /\ b \in DOMAIN byBlock /\ refs[b] > 0 /\ refs[b] < MaxRefs
  /\ refs' = [refs EXCEPT ![b] = @ + 1]
  /\ evictable' = Without(evictable, b)
  /\ UNCHANGED <<freeList, retained, byHash, byBlock>>

\* decref(): at zero _release() asks on_zero_refs(), which keeps cached blocks
\* at the young end of the LRU order; other blocks go back on the free list.
Decref(b) ==
  /\ refs[b] > 0
  /\ refs' = [refs EXCEPT ![b] = @ - 1]
  /\ \/ /\ refs[b] > 1
        /\ UNCHANGED <<freeList, retained, evictable>>
     \/ /\ refs[b] = 1 /\ b \in DOMAIN byBlock
        /\ retained' = retained \cup {b}
        /\ evictable' = Append(Without(evictable, b), b)
        /\ UNCHANGED freeList
     \/ /\ refs[b] = 1 /\ b \notin DOMAIN byBlock
        /\ freeList' = Append(freeList, b)
        /\ UNCHANGED <<retained, evictable>>
  /\ UNCHANGED <<byHash, byBlock>>

\* insert(): publish a block its owner has filled.  A block or a hash that is
\* already indexed leaves the cache as it was.
Insert(b, h) ==
  /\ PrefixCaching /\ refs[b] > 0
  /\ b \notin DOMAIN byBlock /\ h \notin DOMAIN byHash
  /\ byHash' = [x \in DOMAIN byHash \cup {h} |-> IF x = h THEN b ELSE byHash[x]]
  /\ byBlock' = [x \in DOMAIN byBlock \cup {b} |-> IF x = b THEN h ELSE byBlock[x]]
  /\ UNCHANGED <<refs, freeList, retained, evictable>>

\* BlockManager.reset(): BlockAllocator.reset() and PrefixCache.reset().
ResetPool ==
  /\ refs' = [b \in Block |-> 0]
  /\ freeList' = [i \in 1 .. NumBlocks |-> i - 1]
  /\ retained' = {}
  /\ byHash' = EmptyDict
  /\ byBlock' = EmptyDict
  /\ evictable' = << >>

AllocatorNext ==
  \/ AllocateFree
  \/ AllocateEvict
  \/ \E b \in Block : Adopt(b) \/ Incref(b) \/ Decref(b)
  \/ \E b \in Block, h \in Hash : Insert(b, h)
  \/ ResetPool

AllocatorSpec == AllocatorInit /\ [][AllocatorNext]_allocatorVars

----------------------------------------------------------------------------
(***************************************************************************)
(* check_invariants of the three classes.                                  *)
(***************************************************************************)

\* Nothing is on the free list twice or in the LRU order twice, and every
\* block is free, in use or retained, and only one of them.
FreeListSound ==
  /\ IsInjective(freeList)
  /\ IsInjective(evictable)
  /\ \A b \in Block :
       /\ b \in ToSet(freeList) => refs[b] = 0 /\ b \notin retained
       /\ b \in retained => refs[b] = 0
       /\ refs[b] = 0 => b \in ToSet(freeList) \/ b \in retained

\* The hash index and the block index are inverses of each other.
IndexesAgree ==
  /\ \A b \in DOMAIN byBlock : /\ byBlock[b] \in DOMAIN byHash
                               /\ byHash[byBlock[b]] = b
  /\ \A h \in DOMAIN byHash : /\ byHash[h] \in DOMAIN byBlock
                              /\ byBlock[byHash[h]] = h

\* What the cache would evict is exactly what the allocator retains, it is all
\* indexed, and no block on the free list is.
EvictableIsRetained ==
  /\ ToSet(evictable) = retained
  /\ retained \subseteq DOMAIN byBlock
  /\ ToSet(freeList) \cap DOMAIN byBlock = {}

\* The allocator and the cache agree on the place of every block.
KVPoolInv == FreeListSound /\ IndexesAgree /\ EvictableIsRetained

\* Cached contents are given up only to an allocation that found the free list
\* empty, and then the block released longest ago goes (or the pool is reset).
EvictsOnlyUnderPressure ==
  [][\A b \in DOMAIN byBlock :
       b \notin DOMAIN byBlock' =>
         \/ ResetPool
         \/ /\ freeList = << >> /\ evictable # << >>
            /\ b = Head(evictable) /\ refs'[b] = 1]_allocatorVars

Contract == INSTANCE BlockPool WITH free <- ToSet(freeList), index <- byBlock

\* The FIFO/LRU pool implements the order-free contract of BlockPool.
ImplementsContract == Contract!PoolSpec
=============================================================================
