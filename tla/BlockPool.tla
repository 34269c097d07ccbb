----------------------------- MODULE BlockPool -----------------------------
(***************************************************************************)
(* What the KV block pool of the engine promises to the block manager,     *)
(* without saying in which order blocks are handed out or evicted.  The    *)
(* pool is engine/core/kv_cache.py (BlockAllocator) together with          *)
(* engine/core/prefix_cache.py (PrefixCache), the allocator's recycler.    *)
(*                                                                         *)
(* A block is free, in use (refs > 0) or retained: unreferenced, but kept  *)
(* because the prefix cache indexes its contents.  Every action takes a    *)
(* SET of blocks, because block_manager.py always calls the allocator in a *)
(* loop over a block table; KVPool.tla refines the one-block case with the *)
(* FIFO free list and the LRU order of the code.                           *)
(***************************************************************************)
EXTENDS Integers, Functions

CONSTANTS
  Block,          \* block ids of the pool, range(num_blocks)
  Hash,           \* content hashes of full blocks (chained, see block_hash)
  PrefixCaching   \* SchedulerConfig.enable_prefix_caching

VARIABLES
  refs,           \* BlockAllocator._refs
  free,           \* BlockAllocator._free, as a set
  retained,       \* BlockAllocator._retained (= PrefixCache._evictable)
  index           \* PrefixCache._by_block: cached block -> its hash

poolVars == <<refs, free, retained, index>>

PoolTypeOK ==
  /\ refs \in [Block -> Nat]
  /\ free \in SUBSET Block
  /\ retained \in SUBSET Block
  /\ DOMAIN index \in SUBSET Block
  /\ index \in [DOMAIN index -> Hash]

\* The empty index.
NoEntries == [b \in {} |-> b]

PoolInit ==
  /\ refs = [b \in Block |-> 0]
  /\ free = Block
  /\ retained = {}
  /\ index = NoEntries

----------------------------------------------------------------------------
\* BlockAllocator.num_allocatable
Allocatable == free \cup retained

\* The hashes the cache knows, the keys of PrefixCache._by_hash.
CachedHashes == {index[b] : b \in DOMAIN index}

\* PrefixCache.insert over several blocks: `entries` maps a block to the hash
\* of its contents (blocks of one table, so their hashes differ).  A block or a
\* hash that is already indexed is skipped.
Inserted(entries) ==
  LET new == {b \in DOMAIN entries : /\ b \notin DOMAIN index
                                     /\ entries[b] \notin CachedHashes}
  IN  [b \in DOMAIN index \cup new |->
         IF b \in new THEN entries[b] ELSE index[b]]

\* len(S) calls of BlockAllocator.allocate: free blocks first; only when none
\* is left does the recycler evict a retained block, dropping its hash.
Allocate(S) ==
  /\ \/ S \subseteq free
     \/ free \subseteq S /\ S \subseteq Allocatable
  /\ refs' = [b \in Block |-> IF b \in S THEN 1 ELSE refs[b]]
  /\ free' = free \ S
  /\ retained' = retained \ S
  /\ index' = Restrict(index, DOMAIN index \ S)

\* adopt or incref each block of a prefix match, then PrefixCache.acquire.
Share(S) ==
  /\ S \subseteq DOMAIN index
  /\ refs' = [b \in Block |-> IF b \in S THEN refs[b] + 1 ELSE refs[b]]
  /\ retained' = retained \ S
  /\ UNCHANGED <<free, index>>

\* PrefixCache.insert of blocks somebody is using.
Publish(entries) ==
  /\ IsInjective(entries)
  /\ \A b \in DOMAIN entries : refs[b] > 0
  /\ index' = IF PrefixCaching THEN Inserted(entries) ELSE index
  /\ UNCHANGED <<refs, free, retained>>

\* BlockManager.free: publish `entries`, then decref every block of the table
\* S.  A block that loses its last reference is retained when it is cached.
Release(S, entries) ==
  /\ \A b \in S : refs[b] > 0
  /\ IsInjective(entries)
  /\ DOMAIN entries \subseteq S
  /\ index' = IF PrefixCaching THEN Inserted(entries) ELSE index
  /\ refs' = [b \in Block |-> IF b \in S THEN refs[b] - 1 ELSE refs[b]]
  /\ LET zero == {b \in S : refs[b] = 1}
     IN  /\ retained' = retained \cup (zero \cap DOMAIN index')
         /\ free' = free \cup (zero \ DOMAIN index')

\* BlockManager.reset: allocator and cache are emptied together.
Reset ==
  /\ refs' = [b \in Block |-> 0]
  /\ free' = Block
  /\ retained' = {}
  /\ index' = NoEntries

PoolNext ==
  \/ \E S \in SUBSET Block : Allocate(S) \/ Share(S)
  \/ \E S \in SUBSET Block : \E entries \in [S -> Hash] : Publish(entries)
  \/ \E S, T \in SUBSET Block : \E entries \in [T -> Hash] : Release(S, entries)
  \/ Reset

PoolSpec == PoolInit /\ [][PoolNext]_poolVars

----------------------------------------------------------------------------
(***************************************************************************)
(* BlockAllocator.check_invariants and BlockManager.check_invariants: a    *)
(* block is in exactly one of the three states; a cached block is never on *)
(* the free list, a retained block is always cached, and two blocks never  *)
(* answer for the same hash (the two indexes of the cache agree).          *)
(***************************************************************************)
ThreeStates ==
  \A b \in Block :
    /\ b \in free => refs[b] = 0 /\ b \notin retained
    /\ b \in retained => refs[b] = 0
    /\ refs[b] = 0 => b \in free \/ b \in retained

CacheAgrees ==
  /\ retained \subseteq DOMAIN index
  /\ free \cap DOMAIN index = {}
  /\ \A b, c \in DOMAIN index : index[b] = index[c] => b = c

=============================================================================
