---------------------------- MODULE KVPoolProofs ----------------------------
(***************************************************************************)
(* Theorems about KVPool, for every pool size and every set of hashes.     *)
(***************************************************************************)
EXTENDS KVPool, SequenceTheorems, TLAPS

\* Tail of a sequence without repetitions: loses its head, stays repetition-free.
LEMMA TailInjective ==
  ASSUME NEW S, NEW s \in Seq(S), s # << >>, IsInjective(s)
  PROVE  /\ Tail(s) \in Seq(S)
         /\ IsInjective(Tail(s))
         /\ Head(s) \in S
         /\ Head(s) \in ToSet(s)
         /\ ToSet(Tail(s)) = ToSet(s) \ {Head(s)}
  <1>1. /\ Len(s) \in Nat /\ Len(s) > 0
        /\ Tail(s) \in Seq(S)
        /\ Len(Tail(s)) = Len(s) - 1
        /\ \A i \in 1 .. Len(s) - 1 : Tail(s)[i] = s[i + 1]
        /\ Head(s) = s[1] /\ Head(s) \in S
        /\ DOMAIN s = 1 .. Len(s)
        /\ DOMAIN Tail(s) = 1 .. Len(s) - 1
    OBVIOUS
  <1>2. IsInjective(Tail(s))
    BY <1>1 DEF IsInjective
  <1>3. Head(s) \in ToSet(s)
    BY <1>1 DEF ToSet
  <1>4. ASSUME NEW x \in ToSet(s), x # Head(s) PROVE x \in ToSet(Tail(s))
    <2>1. PICK i \in 1 .. Len(s) : x = s[i]
      BY <1>1 DEF ToSet
    <2>2. i - 1 \in 1 .. Len(s) - 1 /\ Tail(s)[i - 1] = s[i]
      BY <1>1, <1>4, <2>1
    <2> QED
      BY <1>1, <2>1, <2>2 DEF ToSet
  <1>5. ASSUME NEW x \in ToSet(Tail(s)) PROVE x \in ToSet(s) /\ x # Head(s)
    <2>1. PICK i \in 1 .. Len(s) - 1 : x = Tail(s)[i]
      BY <1>1 DEF ToSet
    <2>2. i + 1 \in 1 .. Len(s) /\ x = s[i + 1] /\ i + 1 # 1
      BY <1>1, <2>1
    <2> QED
      BY <1>1, <2>2 DEF ToSet, IsInjective
  <1> QED
    BY <1>1, <1>2, <1>3, <1>4, <1>5

\* Append adds one element and keeps a sequence repetition-free if it is new.
LEMMA AppendInjectiveNew ==
  ASSUME NEW S, NEW s \in Seq(S), NEW x \in S, IsInjective(s), x \notin ToSet(s)
  PROVE  /\ Append(s, x) \in Seq(S)
         /\ IsInjective(Append(s, x))
         /\ ToSet(Append(s, x)) = ToSet(s) \cup {x}
  <1>1. /\ Len(s) \in Nat
        /\ Append(s, x) \in Seq(S)
        /\ DOMAIN s = 1 .. Len(s)
        /\ DOMAIN Append(s, x) = 1 .. Len(s) + 1
        /\ \A i \in 1 .. Len(s) : Append(s, x)[i] = s[i]
        /\ Append(s, x)[Len(s) + 1] = x
    OBVIOUS
  <1>2. \A i \in 1 .. Len(s) : s[i] # x
    BY <1>1 DEF ToSet
  <1>3. IsInjective(Append(s, x))
    BY <1>1, <1>2 DEF IsInjective
  <1>4. ToSet(Append(s, x)) = ToSet(s) \cup {x}
    BY <1>1 DEF ToSet
  <1> QED
    BY <1>1, <1>3, <1>4

\* Removing one entry of an OrderedDict keeps the others, in order, once each.
LEMMA WithoutInjective ==
  ASSUME NEW S, NEW s \in Seq(S), NEW x, IsInjective(s)
  PROVE  /\ Without(s, x) \in Seq(S)
         /\ IsInjective(Without(s, x))
         /\ ToSet(Without(s, x)) = ToSet(s) \ {x}
  <1>1. CASE x \notin ToSet(s)
    BY <1>1 DEF Without
  <1>2. CASE x \in ToSet(s)
    <2> DEFINE k == CHOOSE i \in DOMAIN s : s[i] = x
               t == Without(s, x)
    <2>1. /\ Len(s) \in Nat /\ DOMAIN s = 1 .. Len(s)
          /\ k \in 1 .. Len(s) /\ s[k] = x
      BY <1>2 DEF ToSet
    <2>2. t = SubSeq(s, 1, k - 1) \o SubSeq(s, k + 1, Len(s))
      BY <1>2 DEF Without, RemoveAt
    <2> HIDE DEF k, t
    <2>3. /\ SubSeq(s, 1, k - 1) \in Seq(S)
          /\ Len(SubSeq(s, 1, k - 1)) = k - 1
          /\ \A i \in 1 .. k - 1 : SubSeq(s, 1, k - 1)[i] = s[i]
      BY <2>1, SubSeqProperties
    <2>4. /\ SubSeq(s, k + 1, Len(s)) \in Seq(S)
          /\ Len(SubSeq(s, k + 1, Len(s))) = Len(s) - k
          /\ \A i \in 1 .. Len(s) - k : SubSeq(s, k + 1, Len(s))[i] = s[k + i]
      <3> DEFINE m == k + 1
                 n == Len(s)
      <3>1. m \in Int /\ n \in Int /\ \A i \in m .. n : s[i] \in S
        BY <2>1
      <3>2. (IF m <= n THEN n - m + 1 ELSE 0) = Len(s) - k /\ n - m + 1 = Len(s) - k
        <4>1. \A a \in Nat : \A j \in 1 .. a :
                /\ a - (j + 1) + 1 = a - j
                /\ (IF j + 1 <= a THEN a - (j + 1) + 1 ELSE 0) = a - j
          OBVIOUS
        <4> QED
          BY <2>1, <4>1
      <3>3. \A i \in 1 .. Len(s) - k : m + i - 1 = k + i
        BY <2>1
      <3> HIDE DEF m, n
      <3>4. /\ SubSeq(s, m, n) \in Seq(S)
            /\ Len(SubSeq(s, m, n)) = Len(s) - k
            /\ \A i \in 1 .. Len(s) - k : SubSeq(s, m, n)[i] = s[m + i - 1]
        BY <3>1, <3>2, SubSeqProperties
      <3>5. \A i \in 1 .. Len(s) - k : SubSeq(s, m, n)[i] = s[k + i]
        BY <3>3, <3>4
      <3> QED
        BY <3>4, <3>5 DEF m, n
    <2>5. /\ t \in Seq(S) /\ Len(t) = Len(s) - 1
          /\ DOMAIN t = 1 .. Len(s) - 1
          /\ \A i \in 1 .. Len(s) - 1 : t[i] = IF i < k THEN s[i] ELSE s[i + 1]
      <3> DEFINE u == SubSeq(s, 1, k - 1)
                 v == SubSeq(s, k + 1, Len(s))
      <3>1. /\ u \in Seq(S) /\ v \in Seq(S) /\ t = u \o v
            /\ Len(u) = k - 1 /\ Len(v) = Len(s) - k
            /\ \A i \in 1 .. k - 1 : u[i] = s[i]
            /\ \A i \in 1 .. Len(s) - k : v[i] = s[k + i]
        BY <2>2, <2>3, <2>4
      <3> HIDE DEF u, v
      <3>2. /\ t \in Seq(S) /\ Len(t) = Len(u) + Len(v)
            /\ \A i \in 1 .. Len(u) + Len(v) :
                 t[i] = IF i <= Len(u) THEN u[i] ELSE v[i - Len(u)]
        BY <3>1, ConcatProperties
      <3>3. Len(t) = Len(s) - 1 /\ DOMAIN t = 1 .. Len(s) - 1
        <4>1. Len(t) = Len(s) - 1
          BY <2>1, <3>1, <3>2
        <4>2. DOMAIN t = 1 .. Len(t)
          BY <3>2, LenProperties
        <4> QED
          BY <4>1, <4>2
      <3>4. ASSUME NEW i \in 1 .. Len(s) - 1
            PROVE  t[i] = IF i < k THEN s[i] ELSE s[i + 1]
        <4>1. CASE i < k
          BY <2>1, <3>1, <3>2, <4>1
        <4>2. CASE i >= k
          <5>1. t[i] = v[i - (k - 1)]
            <6>1. k - 1 \in Nat /\ ~(i <= k - 1) /\ i \in 1 .. Len(u) + Len(v)
              BY <2>1, <3>1, <4>2
            <6> QED
              BY <3>1, <3>2, <6>1
          <5>2. i - (k - 1) \in 1 .. Len(s) - k /\ k + (i - (k - 1)) = i + 1
            BY <2>1, <4>2
          <5> QED
            BY <2>1, <3>1, <4>2, <5>1, <5>2
        <4> QED
          BY <2>1, <4>1, <4>2
      <3> QED
        BY <3>2, <3>3, <3>4
    <2>6. IsInjective(t)
      <3> SUFFICES ASSUME NEW i \in 1 .. Len(s) - 1, NEW j \in 1 .. Len(s) - 1, t[i] = t[j]
                   PROVE  i = j
        BY <2>5 DEF IsInjective
      <3> DEFINE from(a) == IF a < k THEN a ELSE a + 1
      <3>1. t[i] = s[from(i)] /\ t[j] = s[from(j)]
        BY <2>5
      <3>2. from(i) \in 1 .. Len(s) /\ from(j) \in 1 .. Len(s)
        BY <2>1
      <3>3. from(i) = from(j)
        <4> HIDE DEF from
        <4> QED BY <2>1, <3>1, <3>2 DEF IsInjective
      <3> QED
        BY <2>1, <3>3
    <2>7. ASSUME NEW y \in ToSet(s), y # x PROVE y \in ToSet(t)
      <3>1. PICK i \in 1 .. Len(s) : y = s[i]
        BY <2>1 DEF ToSet
      <3>2. CASE i < k
        BY <2>1, <2>5, <3>1, <3>2 DEF ToSet
      <3>3. CASE i > k
        <4>1. i - 1 \in 1 .. Len(s) - 1 /\ t[i - 1] = s[i]
          BY <2>1, <2>5, <3>3
        <4> QED
          BY <2>5, <3>1, <4>1 DEF ToSet
      <3> QED
        BY <2>1, <2>7, <3>1, <3>2, <3>3
    <2>8. ASSUME NEW y \in ToSet(t) PROVE y \in ToSet(s) /\ y # x
      <3>1. PICK i \in 1 .. Len(s) - 1 : y = t[i]
        BY <2>5 DEF ToSet
      <3>2. PICK j \in 1 .. Len(s) : y = s[j] /\ j # k
        BY <2>1, <2>5, <3>1
      <3> QED
        BY <2>1, <3>2 DEF ToSet, IsInjective
    <2> QED
      BY <2>5, <2>6, <2>7, <2>8 DEF t
  <1> QED
    BY <1>1, <1>2

----------------------------------------------------------------------------
\* Type correctness and the three classes' invariants are one inductive
\* invariant: without IndexesAgree an eviction could drop the wrong hash, and
\* without EvictableIsRetained it could take a block that is not retained.
IInv == AllocatorTypeOK /\ KVPoolInv

\* The initial free list names every block of the pool once.
LEMMA FullFreeList ==
  ASSUME NEW s, s = [i \in 1 .. NumBlocks |-> i - 1]
  PROVE  s \in Seq(Block) /\ IsInjective(s) /\ ToSet(s) = Block
  <1> USE NumBlocksAssumption DEF Block
  <1>1. s \in Seq(Block) /\ DOMAIN s = 1 .. NumBlocks
    BY IsASeq
  <1>2. IsInjective(s)
    BY <1>1 DEF IsInjective
  <1>3. ASSUME NEW b \in Block PROVE b \in ToSet(s)
    <2>1. b + 1 \in 1 .. NumBlocks /\ s[b + 1] = b
      OBVIOUS
    <2> QED
      BY <1>1, <2>1 DEF ToSet
  <1>4. ToSet(s) \subseteq Block
    BY <1>1 DEF ToSet
  <1> QED
    BY <1>1, <1>2, <1>3, <1>4

\* The pool starts with every block free and an empty cache.
LEMMA InitIInv == AllocatorInit => IInv
  <1> SUFFICES ASSUME AllocatorInit PROVE IInv
    OBVIOUS
  <1>1. freeList \in Seq(Block) /\ IsInjective(freeList) /\ ToSet(freeList) = Block
    BY FullFreeList DEF AllocatorInit
  <1>2. evictable \in Seq(Block) /\ IsInjective(evictable) /\ ToSet(evictable) = {}
    BY DEF AllocatorInit, IsInjective, ToSet
  <1>3. AllocatorTypeOK
    BY <1>1, <1>2 DEF AllocatorInit, EmptyDict, AllocatorTypeOK
  <1>4. KVPoolInv
    BY <1>1, <1>2
    DEF AllocatorInit, EmptyDict, KVPoolInv, FreeListSound, IndexesAgree, EvictableIsRetained
  <1> QED
    BY <1>3, <1>4 DEF IInv

\* reset() leads to the initial state of the pool, whatever it was.
LEMMA ResetPoolIInv == ResetPool => IInv'
  <1> SUFFICES ASSUME ResetPool PROVE IInv'
    OBVIOUS
  <1>1. freeList' \in Seq(Block) /\ IsInjective(freeList') /\ ToSet(freeList') = Block
    BY FullFreeList DEF ResetPool
  <1>2. evictable' \in Seq(Block) /\ IsInjective(evictable') /\ ToSet(evictable') = {}
    BY DEF ResetPool, IsInjective, ToSet
  <1>3. AllocatorTypeOK'
    BY <1>1, <1>2 DEF ResetPool, EmptyDict, AllocatorTypeOK
  <1>4. KVPoolInv'
    BY <1>1, <1>2
    DEF ResetPool, EmptyDict, KVPoolInv, FreeListSound, IndexesAgree, EvictableIsRetained
  <1> QED
    BY <1>3, <1>4 DEF IInv

\* allocate() from the free list: the block it takes was in no index.
LEMMA AllocateFreeIInv == IInv /\ AllocateFree => IInv'
  <1> SUFFICES ASSUME IInv, AllocateFree PROVE IInv'
    OBVIOUS
  <1> DEFINE b == Head(freeList)
  <1>1. /\ freeList' \in Seq(Block) /\ IsInjective(freeList')
        /\ b \in Block /\ b \in ToSet(freeList)
        /\ ToSet(freeList') = ToSet(freeList) \ {b}
    BY TailInjective DEF IInv, AllocatorTypeOK, KVPoolInv, FreeListSound, AllocateFree
  <1> HIDE DEF b
  <1>2. /\ refs' = [refs EXCEPT ![b] = 1]
        /\ UNCHANGED <<retained, byHash, byBlock, evictable>>
    BY DEF AllocateFree, b
  <1>3. AllocatorTypeOK'
    BY <1>1, <1>2 DEF IInv, AllocatorTypeOK
  <1>4. FreeListSound'
    BY <1>1, <1>2 DEF IInv, AllocatorTypeOK, KVPoolInv, FreeListSound
  <1>5. IndexesAgree' /\ EvictableIsRetained'
    BY <1>1, <1>2 DEF IInv, KVPoolInv, IndexesAgree, EvictableIsRetained
  <1> QED
    BY <1>3, <1>4, <1>5 DEF IInv, KVPoolInv

\* allocate() by eviction: the block leaves the LRU order, the retained set and both indexes.
LEMMA AllocateEvictIInv == IInv /\ AllocateEvict => IInv'
  <1> SUFFICES ASSUME IInv, AllocateEvict PROVE IInv'
    OBVIOUS
  <1> DEFINE b == Head(evictable)
             h == byBlock[b]
  <1>1. /\ evictable' \in Seq(Block) /\ IsInjective(evictable')
        /\ b \in Block /\ b \in retained
        /\ ToSet(evictable') = ToSet(evictable) \ {b}
    BY TailInjective DEF IInv, AllocatorTypeOK, KVPoolInv, FreeListSound, AllocateEvict
  <1>2. /\ b \in DOMAIN byBlock /\ h \in DOMAIN byHash /\ byHash[h] = b
        /\ \A c \in DOMAIN byBlock : byBlock[c] = h => c = b
    BY <1>1 DEF IInv, KVPoolInv, IndexesAgree, EvictableIsRetained
  <1>3. /\ refs' = [refs EXCEPT ![b] = 1]
        /\ retained' = retained \ {b}
        /\ byHash' = [x \in DOMAIN byHash \ {h} |-> byHash[x]]
        /\ byBlock' = [x \in DOMAIN byBlock \ {b} |-> byBlock[x]]
        /\ freeList' = freeList
    BY DEF AllocateEvict, Restrict
  <1> HIDE DEF b, h
  <1>4. AllocatorTypeOK'
    BY <1>1, <1>3 DEF IInv, AllocatorTypeOK
  <1>5. FreeListSound'
    BY <1>1, <1>3 DEF IInv, AllocatorTypeOK, KVPoolInv, FreeListSound
  <1>6. IndexesAgree'
    BY <1>2, <1>3 DEF IInv, AllocatorTypeOK, KVPoolInv, IndexesAgree
  <1>7. EvictableIsRetained'
    BY <1>1, <1>3 DEF IInv, KVPoolInv, EvictableIsRetained
  <1> QED
    BY <1>4, <1>5, <1>6, <1>7 DEF IInv, KVPoolInv

\* adopt() takes a retained block out of the LRU order and leaves its hash.
LEMMA AdoptIInv == \A b \in Block : IInv /\ Adopt(b) => IInv'
  <1> SUFFICES ASSUME NEW b \in Block, IInv, Adopt(b) PROVE IInv'
    OBVIOUS
  <1>1. /\ evictable' \in Seq(Block) /\ IsInjective(evictable')
        /\ ToSet(evictable') = ToSet(evictable) \ {b}
    BY WithoutInjective DEF IInv, AllocatorTypeOK, KVPoolInv, FreeListSound, Adopt
  <1>2. AllocatorTypeOK'
    BY <1>1 DEF IInv, AllocatorTypeOK, Adopt
  <1>3. FreeListSound'
    BY <1>1 DEF IInv, AllocatorTypeOK, KVPoolInv, FreeListSound, Adopt
  <1>4. IndexesAgree' /\ EvictableIsRetained'
    BY <1>1 DEF IInv, KVPoolInv, IndexesAgree, EvictableIsRetained, Adopt
  <1> QED
    BY <1>2, <1>3, <1>4 DEF IInv, KVPoolInv

\* incref() touches a block in use only.
LEMMA IncrefIInv == \A b \in Block : IInv /\ Incref(b) => IInv'
  <1> SUFFICES ASSUME NEW b \in Block, IInv, Incref(b) PROVE IInv'
    OBVIOUS
  <1>1. /\ evictable' \in Seq(Block) /\ IsInjective(evictable')
        /\ ToSet(evictable') = ToSet(evictable) \ {b}
    BY WithoutInjective DEF IInv, AllocatorTypeOK, KVPoolInv, FreeListSound, Incref
  <1>2. b \notin retained
    BY DEF IInv, KVPoolInv, FreeListSound, Incref
  <1>3. AllocatorTypeOK'
    BY <1>1 DEF IInv, AllocatorTypeOK, Incref
  <1>4. FreeListSound'
    BY <1>1 DEF IInv, AllocatorTypeOK, KVPoolInv, FreeListSound, Incref
  <1>5. IndexesAgree' /\ EvictableIsRetained'
    BY <1>1, <1>2 DEF IInv, KVPoolInv, IndexesAgree, EvictableIsRetained, Incref
  <1> QED
    BY <1>3, <1>4, <1>5 DEF IInv, KVPoolInv

\* decref() of the last reference retains a cached block and frees any other.
LEMMA DecrefIInv == \A b \in Block : IInv /\ Decref(b) => IInv'
  <1> SUFFICES ASSUME NEW b \in Block, IInv, Decref(b) PROVE IInv'
    OBVIOUS
  <1>1. b \notin ToSet(freeList) /\ b \notin retained /\ refs[b] \in Nat
    BY DEF IInv, AllocatorTypeOK, KVPoolInv, FreeListSound, Decref
  <1>2. IndexesAgree'
    BY DEF IInv, KVPoolInv, IndexesAgree, Decref
  <1>3. CASE refs[b] > 1
    <2>1. UNCHANGED <<freeList, retained, evictable, byHash, byBlock>>
      BY <1>3 DEF Decref
    <2>2. AllocatorTypeOK' /\ FreeListSound' /\ EvictableIsRetained'
      BY <1>1, <1>3, <2>1
      DEF IInv, AllocatorTypeOK, KVPoolInv, FreeListSound, EvictableIsRetained, Decref
    <2> QED
      BY <1>2, <2>2 DEF IInv, KVPoolInv
  <1>4. CASE refs[b] = 1 /\ b \in DOMAIN byBlock
    <2>1. /\ retained' = retained \cup {b}
          /\ evictable' = Append(Without(evictable, b), b)
          /\ UNCHANGED <<freeList, byHash, byBlock>>
      BY <1>4 DEF Decref
    <2>2. /\ evictable' \in Seq(Block) /\ IsInjective(evictable')
          /\ ToSet(evictable') = ToSet(evictable) \cup {b}
      BY <2>1, WithoutInjective, AppendInjectiveNew
      DEF IInv, AllocatorTypeOK, KVPoolInv, FreeListSound
    <2>3. AllocatorTypeOK'
      BY <1>1, <1>4, <2>1, <2>2 DEF IInv, AllocatorTypeOK, Decref
    <2>4. FreeListSound'
      BY <1>1, <1>4, <2>1, <2>2 DEF IInv, AllocatorTypeOK, KVPoolInv, FreeListSound, Decref
    <2>5. EvictableIsRetained'
      BY <1>4, <2>1, <2>2 DEF IInv, KVPoolInv, EvictableIsRetained
    <2> QED
      BY <1>2, <2>3, <2>4, <2>5 DEF IInv, KVPoolInv
  <1>5. CASE refs[b] = 1 /\ b \notin DOMAIN byBlock
    <2>1. /\ freeList' = Append(freeList, b)
          /\ UNCHANGED <<retained, evictable, byHash, byBlock>>
      BY <1>5 DEF Decref
    <2>2. /\ freeList' \in Seq(Block) /\ IsInjective(freeList')
          /\ ToSet(freeList') = ToSet(freeList) \cup {b}
      BY <1>1, <2>1, AppendInjectiveNew DEF IInv, AllocatorTypeOK, KVPoolInv, FreeListSound
    <2>3. AllocatorTypeOK'
      BY <1>1, <1>5, <2>1, <2>2 DEF IInv, AllocatorTypeOK, Decref
    <2>4. FreeListSound'
      BY <1>1, <1>5, <2>1, <2>2 DEF IInv, AllocatorTypeOK, KVPoolInv, FreeListSound, Decref
    <2>5. EvictableIsRetained'
      BY <1>5, <2>1, <2>2 DEF IInv, KVPoolInv, EvictableIsRetained
    <2> QED
      BY <1>2, <2>3, <2>4, <2>5 DEF IInv, KVPoolInv
  <1> QED
    BY <1>1, <1>3, <1>4, <1>5 DEF Decref

\* insert() of a new hash for a block in use keeps the indexes inverse.
LEMMA InsertIInv == \A b \in Block, h \in Hash : IInv /\ Insert(b, h) => IInv'
  <1> SUFFICES ASSUME NEW b \in Block, NEW h \in Hash, IInv, Insert(b, h) PROVE IInv'
    OBVIOUS
  <1>1. b \notin ToSet(freeList) /\ b \notin retained
    BY DEF IInv, AllocatorTypeOK, KVPoolInv, FreeListSound, Insert
  <1>2. AllocatorTypeOK'
    BY DEF IInv, AllocatorTypeOK, Insert
  <1>3. FreeListSound' /\ EvictableIsRetained'
    BY <1>1 DEF IInv, KVPoolInv, FreeListSound, EvictableIsRetained, Insert
  <1>4. IndexesAgree'
    BY DEF IInv, AllocatorTypeOK, KVPoolInv, IndexesAgree, Insert
  <1> QED
    BY <1>2, <1>3, <1>4 DEF IInv, KVPoolInv

\* Every allocator call preserves the invariant.
LEMMA NextIInv == IInv /\ [AllocatorNext]_allocatorVars => IInv'
  <1> SUFFICES ASSUME IInv, [AllocatorNext]_allocatorVars PROVE IInv'
    OBVIOUS
  <1>1. CASE UNCHANGED allocatorVars
    BY <1>1 DEF allocatorVars, IInv, AllocatorTypeOK, KVPoolInv, FreeListSound, IndexesAgree,
                EvictableIsRetained
  <1>2. CASE AllocatorNext
    BY <1>2, AllocateFreeIInv, AllocateEvictIInv, AdoptIInv, IncrefIInv, DecrefIInv,
       InsertIInv, ResetPoolIInv DEF AllocatorNext
  <1> QED
    BY <1>1, <1>2

\* The state of the allocator and of the prefix cache always has its type and
\* satisfies the three check_invariants methods, whatever the block manager
\* calls and in whatever order.
THEOREM PoolSafety == AllocatorSpec => [](AllocatorTypeOK /\ KVPoolInv)
  <1>1. AllocatorInit => IInv
    BY InitIInv
  <1>2. IInv /\ [AllocatorNext]_allocatorVars => IInv'
    BY NextIInv
  <1>3. IInv => AllocatorTypeOK /\ KVPoolInv
    BY DEF IInv
  <1> QED
    BY <1>1, <1>2, <1>3, PTL DEF AllocatorSpec

----------------------------------------------------------------------------
\* An allocator call of the code is a call of the contract, on a set of one.
LEMMA StepImplementsContract == IInv /\ [AllocatorNext]_allocatorVars => [Contract!PoolNext]_(Contract!poolVars)
  <1> SUFFICES ASSUME IInv, [AllocatorNext]_allocatorVars
               PROVE  Contract!PoolNext \/ UNCHANGED Contract!poolVars
    OBVIOUS
  <1> USE DEF Contract!poolVars
  <1>1. CASE UNCHANGED allocatorVars
    BY <1>1 DEF allocatorVars
  <1>2. CASE AllocateFree
    <2> DEFINE b == Head(freeList)
    <2>1. /\ b \in Block /\ b \in ToSet(freeList)
          /\ ToSet(freeList') = ToSet(freeList) \ {b}
      BY <1>2, TailInjective DEF IInv, AllocatorTypeOK, KVPoolInv, FreeListSound, AllocateFree
    <2>2. b \notin retained /\ b \notin DOMAIN byBlock
      BY <2>1 DEF IInv, KVPoolInv, FreeListSound, EvictableIsRetained
    <2>3. refs' = [c \in Block |-> IF c \in {b} THEN 1 ELSE refs[c]]
      BY <1>2 DEF AllocateFree, IInv, AllocatorTypeOK
    <2>4. byBlock' = Restrict(byBlock, DOMAIN byBlock \ {b})
      BY <1>2, <2>2 DEF AllocateFree, Restrict, IInv, AllocatorTypeOK
    <2> HIDE DEF b
    <2>5. Contract!Allocate({b})
      BY <1>2, <2>1, <2>2, <2>3, <2>4 DEF Contract!Allocate, Contract!Restrict, Restrict, AllocateFree
    <2> QED
      BY <2>1, <2>5 DEF Contract!PoolNext
  <1>3. CASE AllocateEvict
    <2> DEFINE b == Head(evictable)
    <2>1. b \in Block /\ b \in retained
      BY <1>3 DEF AllocateEvict, IInv, AllocatorTypeOK
    <2>2. ToSet(freeList) = {} /\ freeList' = freeList
      BY <1>3 DEF AllocateEvict, ToSet
    <2>3. refs' = [c \in Block |-> IF c \in {b} THEN 1 ELSE refs[c]]
      BY <1>3 DEF AllocateEvict, IInv, AllocatorTypeOK
    <2>4. /\ byBlock' = Restrict(byBlock, DOMAIN byBlock \ {b})
          /\ retained' = retained \ {b}
      BY <1>3 DEF AllocateEvict
    <2> HIDE DEF b
    <2>5. Contract!Allocate({b})
      BY <2>1, <2>2, <2>3, <2>4 DEF Contract!Allocate, Contract!Allocatable, Contract!Restrict, Restrict
    <2> QED
      BY <2>1, <2>5 DEF Contract!PoolNext
  <1>4. ASSUME NEW b \in Block, Adopt(b) PROVE Contract!PoolNext
    <2>1. refs[b] = 0
      BY <1>4 DEF Adopt, IInv, KVPoolInv, FreeListSound
    <2>2. refs' = [c \in Block |-> IF c \in {b} THEN refs[c] + 1 ELSE refs[c]]
      <3>1. refs' = [refs EXCEPT ![b] = 1] /\ refs \in [Block -> Nat]
        BY <1>4 DEF Adopt, IInv, AllocatorTypeOK
      <3>2. refs[b] + 1 = 1
        BY <2>1
      <3> QED
        BY <3>1, <3>2
    <2>3. Contract!Share({b})
      BY <1>4, <2>2 DEF Contract!Share, Adopt
    <2> QED
      BY <2>3 DEF Contract!PoolNext
  <1>5. ASSUME NEW b \in Block, Incref(b) PROVE Contract!PoolNext
    <2>1. b \notin retained
      BY <1>5 DEF Incref, IInv, KVPoolInv, FreeListSound
    <2>2. refs' = [c \in Block |-> IF c \in {b} THEN refs[c] + 1 ELSE refs[c]]
      BY <1>5 DEF Incref, IInv, AllocatorTypeOK
    <2>3. Contract!Share({b})
      BY <1>5, <2>1, <2>2 DEF Contract!Share, Incref
    <2> QED
      BY <2>3 DEF Contract!PoolNext
  <1>6. ASSUME NEW b \in Block, Decref(b) PROVE Contract!PoolNext
    <2> DEFINE none == [x \in {} |-> CHOOSE h \in Hash : TRUE]
    <2>1. none \in [{} -> Hash] /\ IsInjective(none) /\ DOMAIN none = {}
      BY DEF IsInjective
    <2>2. refs' = [c \in Block |-> IF c \in {b} THEN refs[c] - 1 ELSE refs[c]]
      BY <1>6 DEF Decref, IInv, AllocatorTypeOK
    <2> HIDE DEF none
    <2>3. Contract!Inserted(none) = byBlock
      BY <2>1 DEF Contract!Inserted, IInv, AllocatorTypeOK
    <2>4. byBlock' = IF PrefixCaching THEN Contract!Inserted(none) ELSE byBlock
      BY <1>6, <2>3 DEF Decref
    <2>5. /\ retained' = retained \cup ({c \in {b} : refs[c] = 1} \cap DOMAIN byBlock')
          /\ ToSet(freeList') = ToSet(freeList) \cup ({c \in {b} : refs[c] = 1} \ DOMAIN byBlock')
      <3>1. byBlock' = byBlock /\ refs[b] \in Nat /\ b \notin ToSet(freeList)
        BY <1>6 DEF Decref, IInv, AllocatorTypeOK, KVPoolInv, FreeListSound
      <3>2. CASE refs[b] > 1
        BY <1>6, <3>1, <3>2 DEF Decref
      <3>3. CASE refs[b] = 1 /\ b \in DOMAIN byBlock
        BY <1>6, <3>1, <3>3 DEF Decref
      <3>4. CASE refs[b] = 1 /\ b \notin DOMAIN byBlock
        <4>1. ToSet(freeList') = ToSet(freeList) \cup {b} /\ retained' = retained
          <5>1. freeList' = Append(freeList, b) /\ retained' = retained
            BY <1>6, <3>4 DEF Decref
          <5>2. freeList \in Seq(Block) /\ IsInjective(freeList)
            BY DEF IInv, AllocatorTypeOK, KVPoolInv, FreeListSound
          <5> QED
            BY <3>1, <5>1, <5>2, AppendInjectiveNew
        <4>2. {c \in {b} : refs[c] = 1} = {b}
          BY <3>4
        <4> QED
          BY <3>1, <3>4, <4>1, <4>2
      <3> QED
        BY <1>6, <3>1, <3>2, <3>3, <3>4 DEF Decref
    <2>6. \A c \in {b} : refs[c] > 0
      BY <1>6 DEF Decref
    <2>7. Contract!Release({b}, none)
      BY <2>1, <2>2, <2>4, <2>5, <2>6 DEF Contract!Release, Contract!IsInjective, IsInjective
    <2> QED
      BY <2>1, <2>7 DEF Contract!PoolNext
  <1>7. ASSUME NEW b \in Block, NEW h \in Hash, Insert(b, h) PROVE Contract!PoolNext
    <2> DEFINE entry == [x \in {b} |-> h]
    <2>1. /\ entry \in [{b} -> Hash] /\ IsInjective(entry)
          /\ DOMAIN entry = {b} /\ entry[b] = h
      BY DEF IsInjective
    <2> HIDE DEF entry
    <2>2. h \notin Contract!CachedHashes
      BY <1>7 DEF Contract!CachedHashes, Insert, IInv, KVPoolInv, IndexesAgree
    <2>3. byBlock' = Contract!Inserted(entry)
      BY <1>7, <2>1, <2>2 DEF Contract!Inserted, Insert
    <2>4. Contract!Publish(entry)
      BY <1>7, <2>1, <2>3 DEF Contract!Publish, Contract!IsInjective, IsInjective, Insert
    <2> QED
      BY <2>1, <2>4 DEF Contract!PoolNext
  <1>8. CASE ResetPool
    <2>1. ToSet(freeList') = Block
      BY <1>8, FullFreeList DEF ResetPool
    <2> QED
      BY <1>8, <2>1 DEF ResetPool, EmptyDict, Contract!Reset, Contract!NoEntries, Contract!PoolNext
  <1> QED
    BY <1>1, <1>2, <1>3, <1>4, <1>5, <1>6, <1>7, <1>8 DEF AllocatorNext

\* The FIFO free list and the LRU prefix cache implement the order-free
\* contract the block manager is modelled against: no caller of the pool can
\* tell which block it gets, only that it was free, or evicted for it.
THEOREM PoolRefinement == AllocatorSpec => ImplementsContract
  <1>1. AllocatorInit => Contract!PoolInit
    <2> SUFFICES ASSUME AllocatorInit PROVE Contract!PoolInit
      OBVIOUS
    <2>1. ToSet(freeList) = Block
      BY FullFreeList DEF AllocatorInit
    <2> QED
      BY <2>1 DEF AllocatorInit, EmptyDict, Contract!PoolInit, Contract!NoEntries
  <1>2. AllocatorInit => IInv
    BY InitIInv
  <1>3. IInv /\ [AllocatorNext]_allocatorVars => IInv'
    BY NextIInv
  <1>4. IInv /\ [AllocatorNext]_allocatorVars => [Contract!PoolNext]_(Contract!poolVars)
    BY StepImplementsContract
  <1> QED
    BY <1>1, <1>2, <1>3, <1>4, PTL DEF AllocatorSpec, ImplementsContract, Contract!PoolSpec

\* Cached KV is never dropped while a free block could have been used instead,
\* and the victim is always the block released longest ago.
THEOREM EvictionDiscipline == AllocatorSpec => EvictsOnlyUnderPressure
  <1> DEFINE Kept ==
        \A b \in DOMAIN byBlock :
          b \notin DOMAIN byBlock' =>
            \/ ResetPool
            \/ /\ freeList = << >> /\ evictable # << >>
               /\ b = Head(evictable) /\ refs'[b] = 1
  <1>1. AllocatorInit => IInv
    BY InitIInv
  <1>2. IInv /\ [AllocatorNext]_allocatorVars => IInv'
    BY NextIInv
  <1>3. IInv /\ [AllocatorNext]_allocatorVars => [Kept]_allocatorVars
    <2> SUFFICES ASSUME IInv, AllocatorNext PROVE Kept
      OBVIOUS
    <2>1. CASE AllocateFree
      BY <2>1 DEF AllocateFree
    <2>2. CASE AllocateEvict
      <3> SUFFICES ASSUME NEW b \in DOMAIN byBlock, b \notin DOMAIN byBlock'
                   PROVE  /\ freeList = << >> /\ evictable # << >>
                          /\ b = Head(evictable) /\ refs'[b] = 1
        OBVIOUS
      <3>1. b = Head(evictable)
        BY <2>2 DEF AllocateEvict, Restrict
      <3>2. b \in Block
        BY DEF IInv, AllocatorTypeOK
      <3> QED
        BY <2>2, <3>1, <3>2 DEF AllocateEvict, IInv, AllocatorTypeOK
    <2>3. ASSUME NEW b \in Block, Adopt(b) \/ Incref(b) \/ Decref(b) PROVE Kept
      BY <2>3 DEF Adopt, Incref, Decref
    <2>4. ASSUME NEW b \in Block, NEW h \in Hash, Insert(b, h) PROVE Kept
      BY <2>4 DEF Insert
    <2>5. CASE ResetPool
      BY <2>5
    <2> QED
      BY <2>1, <2>2, <2>3, <2>4, <2>5 DEF AllocatorNext
  <1> QED
    BY <1>1, <1>2, <1>3, PTL DEF AllocatorSpec, EvictsOnlyUnderPressure
=============================================================================
