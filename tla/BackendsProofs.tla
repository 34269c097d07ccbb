---------------------------- MODULE BackendsProofs ----------------------------
(***************************************************************************)
(* Five of the components that run `backends` checks side by side.         *)
(*                                                                         *)
(* LocalBackend, for any number of requests and any device: a local        *)
(* backend loads one engine, however many requests arrive while it loads;  *)
(* the KV pool it sizes from memory fits and is not smaller than it could  *)
(* be; and closing gives the device back.  OneEngine alone says too little *)
(* of who is loading: the invariant says that a load is the lock holder's, *)
(* that nobody holds the lock while an engine is published, and what the   *)
(* memory in use is made of (Account).                                     *)
(*                                                                         *)
(* BaselineDriver, for any callers and engines: a caller of a baseline     *)
(* that waits has somebody who will serve it or fail it, and the engine is *)
(* stepped by one driver at a time. The invariant adds where a waiting     *)
(* caller can be found (Findable: a future that is open is in `pending`,   *)
(* or else nobody could fail it), what the driver and its thread know of   *)
(* each other (Paired), and that close() and the driver agree on what is   *)
(* going on (Closing).                                                     *)
(*                                                                         *)
(* ResultIndex, for any number of savers and any names of run files: the   *)
(* index of results can be trusted.  IndexSound is not inductive: why an   *)
(* entry is never lost or doubled is that whoever holds the lock has read  *)
(* the index as it is now, and why it leads to a file is that a run is     *)
(* placed before the index is locked for it.                               *)
(*                                                                         *)
(* LoRARegistry, for any numbers of slots and ranks and any batches: every *)
(* token of a batch goes through the factors of its own adapter.           *)
(*                                                                         *)
(* TenantQueue and TenantWait, for any tenants and weights: tenants that   *)
(* wait stay within one admission of the lightest tenant of each other,    *)
(* and none is passed over for longer than its share allows.  LagBounded   *)
(* is not inductive: a tenant that rejoins starts at its own virtual time  *)
(* or at the clock, so the clock and the idle tenants have to be held in   *)
(* the same window (LagInv).  Nor is WaitBounded: what bounds the          *)
(* admissions of a tenant is the virtual time it has spent on them         *)
(* (WaitInv).                                                              *)
(***************************************************************************)
EXTENDS LocalBackend, BaselineDriver, ResultIndex, LoRARegistry, TenantWait,
        FiniteSetTheorems, SequenceTheorems, WellFoundedInduction, TLAPS

----------------------------------------------------------------------------
(* LoRARegistry                                                            *)

USE LoRASizes DEF LoRAOptionsValid

----------------------------------------------------------------------------
(* Sets and sequences                                                      *)

\* Every set of natural numbers has a least element.
LEMMA Least ==
  ASSUME NEW T \in SUBSET Nat, T # {}
  PROVE  \E x \in T : \A y \in T : x <= y
<1>1. \E x \in T : \A y \in T : ~ (<<y, x>> \in OpToRel(<, Nat))
  BY ONLY T \subseteq Nat, T # {}, NatLessThanWellFounded, WFMin
<1>2. ASSUME NEW x \in T, NEW y \in T, ~ (<<y, x>> \in OpToRel(<, Nat))
      PROVE  x <= y
  BY <1>2 DEF OpToRel
<1> QED
  BY <1>1, <1>2

Ascending(q) == \A i, j \in DOMAIN q : i < j => q[i] < q[j]

\* A finite set of numbers can be sorted: its least element, then the others.
LEMMA CanBeSorted ==
  ASSUME NEW S \in SUBSET Nat, IsFiniteSet(S)
  PROVE  \E q \in [1 .. Cardinality(S) -> S] : Ascending(q)
<1> DEFINE Fine(n) == \A T \in SUBSET Nat : IsFiniteSet(T) /\ Cardinality(T) = n =>
                        \E q \in [1 .. n -> T] : Ascending(q)
           Bad == {n \in Nat : ~ Fine(n)}
<1>1. Fine(0)
  <2> SUFFICES ASSUME NEW T PROVE \E q \in [1 .. 0 -> T] : Ascending(q)
    OBVIOUS
  <2>1. << >> \in [1 .. 0 -> T] /\ DOMAIN << >> = {}
    OBVIOUS
  <2> QED
    BY <2>1 DEF Ascending
<1>2. ASSUME NEW n \in Nat, Fine(n) PROVE Fine(n + 1)
  <2> SUFFICES ASSUME NEW T \in SUBSET Nat, IsFiniteSet(T), Cardinality(T) = n + 1
               PROVE  \E q \in [1 .. n + 1 -> T] : Ascending(q)
    OBVIOUS
  <2>1. T # {}
    BY FS_EmptySet
  <2>2. PICK m \in T : \A y \in T : m <= y
    BY <2>1, Least
  <2>3. T \ {m} \in SUBSET Nat /\ IsFiniteSet(T \ {m}) /\ Cardinality(T \ {m}) = n
    <3>1. IsFiniteSet(T \ {m}) /\ Cardinality(T \ {m}) = Cardinality(T) - 1
      BY FS_RemoveElement
    <3> QED
      BY <3>1
  <2>4. PICK q \in [1 .. n -> T \ {m}] : Ascending(q)
    BY <1>2, <2>3
  <2> DEFINE r == [i \in 1 .. n + 1 |-> IF i = 1 THEN m ELSE q[i - 1]]
  <2>5. \A i \in 1 .. n + 1 : i # 1 => i - 1 \in 1 .. n /\ q[i - 1] \in T \ {m}
    BY <2>4
  <2>6. r \in [1 .. n + 1 -> T]
    BY <2>5
  <2>7. ASSUME NEW i \in 1 .. n + 1, NEW j \in 1 .. n + 1, i < j PROVE r[i] < r[j]
    <3>1. j # 1 /\ q[j - 1] \in T /\ q[j - 1] # m
      BY <2>5, <2>7
    <3>2. CASE i = 1
      <4>1. m \in Nat /\ q[j - 1] \in Nat /\ m <= q[j - 1]
        BY <2>2, <3>1
      <4> QED
        BY <3>1, <3>2, <4>1
    <3>3. CASE i # 1
      <4>1. i - 1 \in 1 .. n /\ j - 1 \in 1 .. n /\ i - 1 < j - 1
        BY <2>5, <2>7, <3>3
      <4>2. q[i - 1] < q[j - 1]
        BY <2>4, <4>1 DEF Ascending
      <4> QED
        BY <3>1, <3>3, <4>2
    <3> QED
      BY <3>2, <3>3
  <2>8. Ascending(r)
    BY <2>7 DEF Ascending
  <2> QED
    BY <2>6, <2>8
<1>3. Bad = {}
  <2> HIDE DEF Fine
  <2> SUFFICES ASSUME Bad # {} PROVE FALSE
    OBVIOUS
  <2>1. PICK n \in Bad : \A m \in Bad : n <= m
    BY Least
  <2>2. n \in Nat /\ ~ Fine(n) /\ n # 0
    BY <1>1
  <2>3. n - 1 \in Nat /\ n - 1 \notin Bad /\ n = (n - 1) + 1
    BY <2>1, <2>2
  <2>4. Fine(n - 1)
    BY <2>3
  <2> QED
    BY <1>2, <2>2, <2>3, <2>4
<1>4. Cardinality(S) \in Nat
  BY FS_CardinalityType
<1>5. Fine(Cardinality(S))
  <2> HIDE DEF Fine
  <2> QED
    BY <1>3, <1>4
<1> QED
  BY <1>5

\* Sorting loses and repeats nothing.
LEMMA SortedFacts ==
  ASSUME NEW S \in SUBSET Nat, IsFiniteSet(S)
  PROVE  /\ Sorted(S) \in Seq(S) /\ Len(Sorted(S)) \in Nat
         /\ DOMAIN Sorted(S) = 1 .. Len(Sorted(S))
         /\ IsInjective(Sorted(S)) /\ ToSet(Sorted(S)) = S
<1> DEFINE q == Sorted(S)
           n == Cardinality(S)
<1>1. q \in [1 .. n -> S] /\ \A i, j \in DOMAIN q : i < j => q[i] < q[j]
  <2>1. \E s \in [1 .. n -> S] : \A i, j \in DOMAIN s : i < j => s[i] < s[j]
    BY CanBeSorted DEF Ascending
  <2> QED
    BY <2>1 DEF Sorted
<1>2. n \in Nat
  BY FS_CardinalityType
<1> HIDE DEF q, n
<1>3. q \in Seq(S) /\ Len(q) = n /\ DOMAIN q = 1 .. n
  BY <1>1, <1>2
<1>4. IsInjective(q)
  <2>1. ASSUME NEW i \in 1 .. n, NEW j \in 1 .. n, q[i] = q[j] PROVE i = j
    <3>1. q[i] \in Nat
      BY <1>1
    <3>2. ~ (i < j) /\ ~ (j < i)
      BY <1>1, <2>1, <3>1
    <3> QED
      BY <1>2, <3>2
  <2> QED
    BY <1>3, <2>1 DEF IsInjective
<1>5. q \in Surjection(1 .. n, S)
  <2>1. q \in Injection(1 .. n, S)
    BY <1>1, <1>4 DEF Injection
  <2>2. IsFiniteSet(1 .. n) /\ Cardinality(1 .. n) = n
    <3>1. 1 \in Int /\ n \in Int
      BY <1>2
    <3>2. IsFiniteSet(1 .. n) /\ Cardinality(1 .. n) = IF 1 > n THEN 0 ELSE n - 1 + 1
      BY ONLY <3>1, FS_Interval
    <3> QED
      BY <1>2, <3>2
  <2> QED
    BY <2>1, <2>2, FS_Injection DEF n
<1>6. ToSet(q) = S
  <2>1. \A x \in S : \E i \in 1 .. n : q[i] = x
    BY <1>5 DEF Surjection
  <2>2. ToSet(q) = {q[i] : i \in 1 .. n}
    BY <1>3 DEF ToSet
  <2> QED
    BY <1>1, <2>1, <2>2
<1> QED
  BY <1>2, <1>3, <1>4, <1>6 DEF q

\* Appending to a sequence.
LEMMA AppendFacts ==
  ASSUME NEW S, NEW s \in Seq(S), NEW x \in S
  PROVE  /\ Append(s, x) \in Seq(S)
         /\ ToSet(Append(s, x)) = ToSet(s) \cup {x}
         /\ IsInjective(s) /\ x \notin ToSet(s) => IsInjective(Append(s, x))
<1>1. /\ Append(s, x) \in Seq(S) /\ Len(s) \in Nat /\ DOMAIN s = 1 .. Len(s)
      /\ DOMAIN Append(s, x) = 1 .. Len(s) + 1
      /\ \A i \in 1 .. Len(s) : Append(s, x)[i] = s[i]
      /\ Append(s, x)[Len(s) + 1] = x
  OBVIOUS
<1>2. \A i \in 1 .. Len(s) + 1 : i \in 1 .. Len(s) \/ i = Len(s) + 1
  BY <1>1
<1>3. Len(s) + 1 \in 1 .. Len(s) + 1 /\ \A i \in 1 .. Len(s) : i \in 1 .. Len(s) + 1
  BY <1>1
<1> DEFINE t == Append(s, x)
           n == Len(s)
<1>4. ToSet(t) = ToSet(s) \cup {x}
  <2> HIDE DEF t, n
  <2>1. \A y \in ToSet(t) : y \in ToSet(s) \cup {x}
    BY <1>1, <1>2 DEF ToSet, t, n
  <2>2. \A y \in ToSet(s) \cup {x} : y \in ToSet(t)
    BY <1>1, <1>3 DEF ToSet, t, n
  <2> QED
    BY <2>1, <2>2
<1>5. ASSUME IsInjective(s), x \notin ToSet(s) PROVE IsInjective(t)
  BY <1>1, <1>2, <1>5 DEF IsInjective, ToSet
<1> QED
  BY <1>1, <1>4, <1>5

\* Taking the first element off.
LEMMA TailFacts ==
  ASSUME NEW S, NEW s \in Seq(S), s # << >>
  PROVE  /\ Tail(s) \in Seq(S) /\ Head(s) \in S
         /\ ToSet(s) = ToSet(Tail(s)) \cup {Head(s)}
         /\ IsInjective(s) => IsInjective(Tail(s)) /\ Head(s) \notin ToSet(Tail(s))
<1>1. /\ Tail(s) \in Seq(S) /\ Len(s) \in Nat \ {0}
      /\ DOMAIN s = 1 .. Len(s) /\ DOMAIN Tail(s) = 1 .. Len(s) - 1
      /\ \A i \in DOMAIN Tail(s) : i + 1 \in DOMAIN s /\ Tail(s)[i] = s[i + 1]
      /\ Head(s) = s[1] /\ Head(s) \in S /\ 1 \in DOMAIN s
  OBVIOUS
<1>2. ASSUME NEW x \in ToSet(s), x # Head(s) PROVE x \in ToSet(Tail(s))
  <2>1. PICK i \in 1 .. Len(s) : x = s[i]
    BY <1>1 DEF ToSet
  <2>2. i - 1 \in 1 .. Len(s) - 1 /\ Tail(s)[i - 1] = s[i]
    BY <1>1, <1>2, <2>1
  <2> QED
    BY <1>1, <2>1, <2>2 DEF ToSet
<1>3. ToSet(s) = ToSet(Tail(s)) \cup {Head(s)}
  BY <1>1, <1>2 DEF ToSet
<1>4. ASSUME IsInjective(s) PROVE IsInjective(Tail(s)) /\ Head(s) \notin ToSet(Tail(s))
  <2>1. \A i, j \in DOMAIN s : s[i] = s[j] => i = j
    BY <1>4 DEF IsInjective
  <2>2. ASSUME NEW i \in DOMAIN Tail(s), NEW j \in DOMAIN Tail(s), Tail(s)[i] = Tail(s)[j]
        PROVE  i = j
    <3>1. i + 1 = j + 1
      BY <1>1, <2>1, <2>2
    <3> QED
      BY <1>1, <3>1
  <2>3. ASSUME NEW i \in DOMAIN Tail(s), Tail(s)[i] = Head(s) PROVE FALSE
    BY <1>1, <2>1, <2>3
  <2>4. IsInjective(Tail(s))
    BY <2>2 DEF IsInjective
  <2>5. Head(s) \notin ToSet(Tail(s))
    BY <2>3 DEF ToSet
  <2> QED
    BY <2>4, <2>5
<1> QED
  BY <1>1, <1>3, <1>4

\* A sequence of some is a sequence of more.
LEMMA SeqOfMore ==
  ASSUME NEW S, NEW T, S \subseteq T, NEW s \in Seq(S)
  PROVE  s \in Seq(T)
OBVIOUS

\* One sequence after another.
LEMMA ConcatFacts ==
  ASSUME NEW S, NEW s \in Seq(S), NEW t \in Seq(S)
  PROVE  /\ s \o t \in Seq(S) /\ ToSet(s \o t) = ToSet(s) \cup ToSet(t)
         /\ Len(s \o t) = Len(s) + Len(t)
         /\ \A i \in 1 .. Len(s) : (s \o t)[i] = s[i]
         /\ \A i \in 1 .. Len(t) : (s \o t)[Len(s) + i] = t[i]
         /\ IsInjective(s) /\ IsInjective(t) /\ ToSet(s) \cap ToSet(t) = {}
              => IsInjective(s \o t)
<1> DEFINE c == s \o t
           m == Len(s)
           n == Len(t)
<1>1. /\ c \in Seq(S) /\ m \in Nat /\ n \in Nat /\ Len(c) = m + n
      /\ DOMAIN s = 1 .. m /\ DOMAIN t = 1 .. n /\ DOMAIN c = 1 .. m + n
      /\ \A i \in 1 .. m : c[i] = s[i]
      /\ \A i \in 1 .. n : c[m + i] = t[i]
  OBVIOUS
<1> HIDE DEF c, m, n
<1>2. \A i \in 1 .. m + n : i \in 1 .. m \/ (i - m \in 1 .. n /\ c[i] = t[i - m])
  <2> TAKE i \in 1 .. m + n
  <2>1. i \notin 1 .. m => i - m \in 1 .. n /\ m + (i - m) = i
    BY <1>1
  <2> QED
    BY <1>1, <2>1
<1>3. /\ \A i \in 1 .. m : i \in 1 .. m + n
      /\ \A i \in 1 .. n : m + i \in 1 .. m + n
  BY <1>1
<1>4. ToSet(c) = ToSet(s) \cup ToSet(t)
  <2>1. \A y \in ToSet(c) : y \in ToSet(s) \cup ToSet(t)
    BY <1>1, <1>2 DEF ToSet
  <2>2. \A y \in ToSet(s) \cup ToSet(t) : y \in ToSet(c)
    BY <1>1, <1>3 DEF ToSet
  <2> QED
    BY <2>1, <2>2
<1>5. ASSUME IsInjective(s), IsInjective(t), ToSet(s) \cap ToSet(t) = {} PROVE IsInjective(c)
  <2>1. ASSUME NEW i \in 1 .. m + n, NEW j \in 1 .. m + n, c[i] = c[j] PROVE i = j
    <3>1. CASE i \in 1 .. m /\ j \in 1 .. m
      BY <1>1, <1>5, <2>1, <3>1 DEF IsInjective
    <3>0. \A a, b \in 1 .. m + n : a \in 1 .. m /\ b \notin 1 .. m => c[a] # c[b]
      <4> SUFFICES ASSUME NEW a \in 1 .. m, NEW b \in 1 .. m + n, b \notin 1 .. m PROVE c[a] # c[b]
        OBVIOUS
      <4>1. c[a] \in ToSet(s)
        BY <1>1 DEF ToSet
      <4>2. c[b] \in ToSet(t)
        BY <1>1, <1>2 DEF ToSet
      <4> QED
        BY <1>5, <4>1, <4>2
    <3>2. CASE i \in 1 .. m /\ j \notin 1 .. m
      BY <2>1, <3>0, <3>2
    <3>3. CASE i \notin 1 .. m /\ j \in 1 .. m
      BY <2>1, <3>0, <3>3
    <3>4. CASE i \notin 1 .. m /\ j \notin 1 .. m
      <4>1. i - m \in 1 .. n /\ j - m \in 1 .. n /\ t[i - m] = t[j - m]
        BY <1>2, <2>1, <3>4
      <4>2. i - m = j - m
        <5> DEFINE k == i - m
                   l == j - m
        <5> HIDE DEF k, l
        <5>1. k \in DOMAIN t /\ l \in DOMAIN t /\ t[k] = t[l]
          BY <1>1, <4>1 DEF k, l
        <5>2. k = l
          BY <1>5, <5>1 DEF IsInjective
        <5> QED
          BY <5>2 DEF k, l
      <4> QED
        BY <1>1, <4>2
    <3> QED
      BY <3>1, <3>2, <3>3, <3>4
  <2> QED
    BY <1>1, <2>1 DEF IsInjective
<1> QED
  BY <1>1, <1>4, <1>5 DEF c, m, n

----------------------------------------------------------------------------
(* The LRU order without some of it                                        *)

\* Every entry of the table f is computed from the one before it.
Steps(N, V, b, step, f) ==
  f \in [0 .. N -> V] /\ f[0] = b /\ \A n \in 1 .. N : f[n] = step[n][f[n - 1]]

\* Such a table exists.
LEMMA Stepwise ==
  ASSUME NEW N \in Nat, NEW V, NEW b \in V, NEW step \in [1 .. N -> [V -> V]]
  PROVE  \E f : Steps(N, V, b, step, f)
<1> DEFINE Good(n) == \E f \in [0 .. n -> V] :
                        f[0] = b /\ \A m \in 1 .. n : f[m] = step[m][f[m - 1]]
           Bad == {n \in 0 .. N : ~ Good(n)}
<1>1. Good(0)
  <2> DEFINE f == [n \in 0 .. 0 |-> b]
  <2>1. f \in [0 .. 0 -> V] /\ f[0] = b /\ \A m \in 1 .. 0 : f[m] = step[m][f[m - 1]]
    OBVIOUS
  <2> QED
    BY <2>1
<1>2. ASSUME NEW n \in 1 .. N, Good(n - 1) PROVE Good(n)
  <2>1. PICK f \in [0 .. n - 1 -> V] :
          f[0] = b /\ \A m \in 1 .. n - 1 : f[m] = step[m][f[m - 1]]
    BY <1>2
  <2> DEFINE g == [m \in 0 .. n |-> IF m = n THEN step[n][f[n - 1]] ELSE f[m]]
  <2>2. g \in [0 .. n -> V] /\ g[0] = b
    BY <2>1
  <2>3. ASSUME NEW m \in 1 .. n PROVE g[m] = step[m][g[m - 1]]
    <3>1. m - 1 \in 0 .. n /\ m - 1 # n /\ m \in 0 .. n
      OBVIOUS
    <3>2. g[m - 1] = f[m - 1]
      BY <3>1
    <3>3. CASE m = n
      BY <3>1, <3>2, <3>3
    <3>4. CASE m # n
      <4>1. m \in 1 .. n - 1 /\ g[m] = f[m]
        BY <3>1, <3>4
      <4> QED
        BY <2>1, <3>2, <4>1
    <3> QED
      BY <3>3, <3>4
  <2> HIDE DEF g
  <2> QED
    BY <2>2, <2>3
<1>3. Good(N)
  <2> HIDE DEF Good
  <2> SUFFICES ASSUME N \in Bad PROVE FALSE
    OBVIOUS
  <2>0. Bad \in SUBSET Nat /\ Bad # {}
    OBVIOUS
  <2>1. PICK n \in Bad : \A m \in Bad : n <= m
    BY <2>0, Least
  <2>2. n \in 1 .. N /\ n - 1 \in 0 .. N /\ ~ Good(n) /\ n - 1 \notin Bad
    BY <1>1, <2>1
  <2> QED
    BY <1>2, <2>2
<1> QED
  BY <1>3 DEF Steps

\* The table of prefixes by which Without computes.
LEMMA WithoutTable ==
  ASSUME NEW A, lru \in Seq(A), NEW S
  PROVE  \E kept :
           /\ Without(S) = kept[Len(lru)] /\ kept[0] = << >>
           /\ \A n \in 1 .. Len(lru) :
                kept[n] = IF lru[n] \in S THEN kept[n - 1] ELSE Append(kept[n - 1], lru[n])
<1> DEFINE N == Len(lru)
           V == Seq(A)
           H(v, n) == IF lru[n] \in S THEN v ELSE Append(v, lru[n])
           step == [n \in 1 .. N |-> [v \in V |-> H(v, n)]]
           G(g, n) == IF n = 0 THEN << >> ELSE H(g[n - 1], n)
<1>1. N \in Nat /\ \A n \in 1 .. N : lru[n] \in A
  OBVIOUS
<1>2. \A n \in 1 .. N : \A v \in V : H(v, n) \in V
  BY <1>1
<1>3. << >> \in V
  OBVIOUS
<1> HIDE DEF N, V, H
<1>4. PICK f : Steps(N, V, << >>, step, f)
  <2> DEFINE e == << >>
  <2>1. N \in Nat /\ e \in V
    BY <1>1, <1>3
  <2>2. step \in [1 .. N -> [V -> V]]
    BY <1>2
  <2> HIDE DEF step, e
  <2>3. \E f : Steps(N, V, e, step, f)
    BY <2>1, <2>2, Stepwise
  <2> QED
    BY <2>3 DEF e
<1>5. f = [n \in 0 .. N |-> G(f, n)]
  <2>1. f \in [0 .. N -> V] /\ f[0] = << >> /\ \A n \in 1 .. N : f[n] = step[n][f[n - 1]]
    BY <1>4 DEF Steps
  <2>2. ASSUME NEW n \in 1 .. N PROVE f[n] = G(f, n)
    <3>1. n - 1 \in 0 .. N /\ n # 0
      BY <1>1
    <3>2. f[n - 1] \in V
      BY <2>1, <3>1
    <3>3. step[n][f[n - 1]] = H(f[n - 1], n)
      BY <3>2
    <3> QED
      BY <2>1, <3>1, <3>3
  <2>3. \A n \in 0 .. N : n = 0 \/ n \in 1 .. N
    BY <1>1
  <2>4. \A n \in 0 .. N : f[n] = G(f, n)
    BY <2>1, <2>2, <2>3
  <2> HIDE DEF G
  <2> QED
    BY <2>1, <2>4
<1> DEFINE kept == CHOOSE g : g = [n \in 0 .. N |-> G(g, n)]
<1>6. kept = [n \in 0 .. N |-> G(kept, n)]
  <2> HIDE DEF G
  <2> QED
    BY <1>5
<1>7. Without(S) = kept[N]
  BY DEF Without, N, H
<1> HIDE DEF kept
<1>8. \A n \in 0 .. N : kept[n] = G(kept, n)
  <2> HIDE DEF G
  <2> QED
    BY <1>6
<1>9. 0 \in 0 .. N /\ \A n \in 1 .. N : n \in 0 .. N /\ n # 0
  BY <1>1
<1>10. kept[0] = << >> /\ \A n \in 1 .. N : kept[n] = H(kept[n - 1], n)
  BY <1>8, <1>9
<1> QED
  BY <1>7, <1>10 DEF N, H

\* What is left of the order is the others, in the order they were in.
LEMMA WithoutFacts ==
  ASSUME NEW A, lru \in Seq(A), NEW S
  PROVE  /\ Without(S) \in Seq(A)
         /\ ToSet(Without(S)) = ToSet(lru) \ S
         /\ IsInjective(lru) => IsInjective(Without(S))
<1>1. PICK kept :
        /\ Without(S) = kept[Len(lru)] /\ kept[0] = << >>
        /\ \A n \in 1 .. Len(lru) :
             kept[n] = IF lru[n] \in S THEN kept[n - 1] ELSE Append(kept[n - 1], lru[n])
  BY WithoutTable
<1>2. Len(lru) \in Nat /\ DOMAIN lru = 1 .. Len(lru) /\ \A n \in 1 .. Len(lru) : lru[n] \in A
  OBVIOUS
<1> DEFINE Upto(n) == {lru[i] : i \in 1 .. n}
           Good(n) == /\ kept[n] \in Seq(A)
                      /\ ToSet(kept[n]) = Upto(n) \ S
                      /\ IsInjective(lru) => IsInjective(kept[n])
           Bad == {n \in 0 .. Len(lru) : ~ Good(n)}
<1>3. Good(0)
  <2>1. << >> \in Seq(A) /\ ToSet(<< >>) = {} /\ IsInjective(<< >>) /\ Upto(0) = {}
    BY DEF ToSet, IsInjective
  <2> QED
    BY <1>1, <2>1
<1>4. ASSUME NEW n \in 1 .. Len(lru), Good(n - 1) PROVE Good(n)
  <2>1. n - 1 \in 0 .. Len(lru) /\ kept[n - 1] \in Seq(A) /\ lru[n] \in A
    BY <1>2, <1>4
  <2>2. Upto(n) = Upto(n - 1) \cup {lru[n]}
    <3>1. \A i \in 1 .. n : i \in 1 .. n - 1 \/ i = n
      BY <1>2
    <3>2. n \in 1 .. n /\ \A i \in 1 .. n - 1 : i \in 1 .. n
      BY <1>2
    <3> QED
      BY <3>1, <3>2
  <2>3. IsInjective(lru) => lru[n] \notin Upto(n - 1)
    <3> SUFFICES ASSUME IsInjective(lru), NEW i \in 1 .. n - 1, lru[n] = lru[i] PROVE FALSE
      OBVIOUS
    <3>1. i \in DOMAIN lru /\ n \in DOMAIN lru /\ i # n
      BY <1>2
    <3> QED
      BY <3>1 DEF IsInjective
  <2> HIDE DEF Upto
  <2>4. CASE lru[n] \in S
    <3>1. kept[n] = kept[n - 1]
      BY <1>1, <2>4
    <3> QED
      BY <1>4, <2>2, <2>4, <3>1
  <2>5. CASE lru[n] \notin S
    <3>1. kept[n] = Append(kept[n - 1], lru[n])
      BY <1>1, <2>5
    <3>2. /\ kept[n] \in Seq(A)
          /\ ToSet(kept[n]) = ToSet(kept[n - 1]) \cup {lru[n]}
          /\ IsInjective(kept[n - 1]) /\ lru[n] \notin ToSet(kept[n - 1])
               => IsInjective(kept[n])
      BY <2>1, <3>1, AppendFacts
    <3> QED
      BY <1>4, <2>2, <2>3, <2>5, <3>2
  <2> QED
    BY <2>4, <2>5
<1>5. Good(Len(lru))
  <2> HIDE DEF Good
  <2> SUFFICES ASSUME Len(lru) \in Bad PROVE FALSE
    BY <1>2
  <2>0. Bad \in SUBSET Nat /\ Bad # {}
    BY <1>2
  <2>1. PICK n \in Bad : \A m \in Bad : n <= m
    BY <2>0, Least
  <2>2. n \in 1 .. Len(lru) /\ n - 1 \in 0 .. Len(lru) /\ ~ Good(n) /\ n - 1 \notin Bad
    BY <1>2, <1>3, <2>1
  <2> QED
    BY <1>4, <2>2
<1>6. Upto(Len(lru)) = ToSet(lru)
  BY <1>2 DEF ToSet
<1> HIDE DEF Upto
<1> QED
  BY <1>1, <1>2, <1>5, <1>6

----------------------------------------------------------------------------
(* The tokens of a step, grouped by slot                                   *)

\* The tokens of one slot.
TokensOf(s) == {p \in DOMAIN ids : TokenSlots[p] = s}

\* The buckets and the slots they are of.
LEMMA BucketFacts ==
  ASSUME ids \in Seq(Adapter \cup {NoLora}), TokenSlots \in [DOMAIN ids -> Nat]
  PROVE  /\ ActiveSlots \in Seq(Nat) /\ Len(ActiveSlots) \in Nat
         /\ DOMAIN ActiveSlots = 1 .. Len(ActiveSlots)
         /\ ToSet(ActiveSlots) = ToSet(TokenSlots) \ {NoLora}
         /\ \A s : Bucket(s) \in Seq(Nat) /\ ToSet(Bucket(s)) = TokensOf(s)
<1>1. IsFiniteSet(DOMAIN ids) /\ DOMAIN ids \subseteq Nat
  <2>1. Len(ids) \in Nat /\ DOMAIN ids = 1 .. Len(ids)
    OBVIOUS
  <2>2. 1 \in Int /\ Len(ids) \in Int
    BY <2>1
  <2>3. IsFiniteSet(1 .. Len(ids))
    BY ONLY <2>2, FS_Interval
  <2> QED
    BY <2>1, <2>3
<1>2. IsFiniteSet(ToSet(TokenSlots) \ {NoLora}) /\ ToSet(TokenSlots) \subseteq Nat
  <2> DEFINE R == {TokenSlots[p] : p \in DOMAIN ids}
  <2>1. R = ToSet(TokenSlots)
    BY DEF ToSet
  <2>2. IsFiniteSet(R)
    <3>1. TokenSlots \in Surjection(DOMAIN ids, R)
      BY DEF Surjection
    <3> QED
      BY <1>1, <3>1, FS_Surjection
  <2>3. IsFiniteSet(R \ {NoLora})
    BY <2>2, FS_Subset
  <2> QED
    BY <2>1, <2>3
<1>3. ASSUME NEW s PROVE Bucket(s) \in Seq(Nat) /\ ToSet(Bucket(s)) = TokensOf(s)
  <2>1. IsFiniteSet(TokensOf(s)) /\ TokensOf(s) \subseteq Nat
    <3>1. TokensOf(s) \subseteq DOMAIN ids
      BY DEF TokensOf
    <3> QED
      BY <1>1, <3>1, FS_Subset
  <2>2. Bucket(s) = Sorted(TokensOf(s))
    BY DEF Bucket, TokensOf
  <2>3. Sorted(TokensOf(s)) \in Seq(TokensOf(s)) /\ ToSet(Sorted(TokensOf(s))) = TokensOf(s)
    BY <2>1, SortedFacts
  <2> QED
    BY <2>1, <2>2, <2>3
<1>4. /\ ActiveSlots \in Seq(Nat) /\ Len(ActiveSlots) \in Nat
      /\ DOMAIN ActiveSlots = 1 .. Len(ActiveSlots)
      /\ ToSet(ActiveSlots) = ToSet(TokenSlots) \ {NoLora}
  <2> DEFINE T == ToSet(TokenSlots) \ {NoLora}
  <2>1. IsFiniteSet(T) /\ T \in SUBSET Nat
    BY <1>2
  <2>2. Sorted(T) \in Seq(T) /\ ToSet(Sorted(T)) = T
    BY <2>1, SortedFacts
  <2>3. Sorted(T) \in Seq(Nat)
    BY <2>1, <2>2
  <2>4. ActiveSlots = Sorted(T)
    BY DEF ActiveSlots
  <2> HIDE DEF T
  <2>5. ActiveSlots \in Seq(Nat) /\ ToSet(ActiveSlots) = T
    BY <2>2, <2>3, <2>4
  <2> QED
    BY <2>5 DEF T
<1> QED
  BY <1>3, <1>4

\* The order holds the tokens of each slot between the ends that its segment names.
LEMMA GroupedFacts ==
  ASSUME ids \in Seq(Adapter \cup {NoLora}), TokenSlots \in [DOMAIN ids -> Nat]
  PROVE  \A i \in 1 .. Len(ActiveSlots) :
           /\ Len(Grouped[i - 1]) \in Nat /\ Len(Grouped[i]) \in Nat
           /\ {Order[k] : k \in Len(Grouped[i - 1]) + 1 .. Len(Grouped[i])}
                = TokensOf(ActiveSlots[i])
<1> DEFINE N == Len(ActiveSlots)
           V == Seq(Nat)
           step == [n \in 1 .. N |-> [v \in V |-> v \o Bucket(ActiveSlots[n])]]
<1>1. N \in Nat /\ \A s : Bucket(s) \in V /\ ToSet(Bucket(s)) = TokensOf(s)
  BY BucketFacts
<1>2. \E f \in [0 .. N -> V] : f[0] = << >> /\ \A n \in 1 .. N : f[n] = step[n][f[n - 1]]
  <2>1. << >> \in V
    OBVIOUS
  <2>2. step \in [1 .. N -> [V -> V]]
    <3>1. \A n \in 1 .. N : \A v \in V : v \o Bucket(ActiveSlots[n]) \in V
      BY <1>1
    <3> HIDE DEF V, N
    <3> QED
      BY <3>1
  <2>3. N \in Nat
    BY <1>1
  <2> DEFINE e == << >>
  <2> HIDE DEF step, V, N, e
  <2>4. \E f : Steps(N, V, e, step, f)
    <3>1. e \in V
      BY <2>1 DEF e
    <3> QED
      BY <2>2, <2>3, <3>1, Stepwise
  <2> QED
    BY <2>4 DEF e, Steps
<1>3. PICK f \in [0 .. N -> V] : f[0] = << >> /\ \A n \in 1 .. N : f[n] = step[n][f[n - 1]]
  BY <1>2
<1> DEFINE H(g, n) == IF n = 0 THEN << >> ELSE g[n - 1] \o Bucket(ActiveSlots[n])
<1>4. f = [n \in 0 .. N |-> H(f, n)]
  <2>1. ASSUME NEW n \in 1 .. N PROVE f[n] = f[n - 1] \o Bucket(ActiveSlots[n])
    <3>0. n - 1 \in 0 .. N
      BY <1>1
    <3>1. f[n - 1] \in V
      <4> HIDE DEF V, N
      <4> QED
        BY <1>3, <3>0
    <3> HIDE DEF V
    <3>2. step[n][f[n - 1]] = f[n - 1] \o Bucket(ActiveSlots[n])
      BY <3>1
    <3> QED
      BY <1>3, <3>2
  <2>2. \A n \in 0 .. N : n = 0 \/ n \in 1 .. N
    BY <1>1
  <2>3. \A n \in 0 .. N : f[n] = H(f, n)
    BY <1>1, <1>3, <2>1, <2>2
  <2> HIDE DEF H, V, N
  <2> QED
    BY <2>3
<1>5. Grouped = [n \in 0 .. N |-> H(Grouped, n)]
  <2> DEFINE T == CHOOSE g : g = [n \in 0 .. N |-> H(g, n)]
  <2>1. T = [n \in 0 .. N |-> H(T, n)]
    <3> HIDE DEF H, N
    <3> QED
      BY <1>4
  <2>2. Grouped = T
    BY DEF Grouped
  <2> HIDE DEF T, H, N
  <2> QED
    BY <2>1, <2>2
<1>6. /\ Grouped[0] = << >>
      /\ \A n \in 1 .. N : Grouped[n] = Grouped[n - 1] \o Bucket(ActiveSlots[n])
  <2>1. \A n \in 0 .. N : Grouped[n] = H(Grouped, n)
    <3> HIDE DEF H, N
    <3> QED
      BY <1>5
  <2>2. 0 \in 0 .. N /\ \A n \in 1 .. N : n \in 0 .. N /\ n # 0
    BY <1>1
  <2> HIDE DEF N
  <2> QED
    BY <2>1, <2>2
<1> DEFINE g == Grouped
           Part(n, i) == {g[n][k] : k \in Len(g[i - 1]) + 1 .. Len(g[i])}
           Good(n) == /\ g[n] \in V
                      /\ \A i \in 1 .. n :
                           /\ g[i - 1] \in V /\ g[i] \in V
                           /\ Len(g[i]) <= Len(g[n])
                           /\ Part(n, i) = TokensOf(ActiveSlots[i])
           Bad == {n \in 0 .. N : ~ Good(n)}
<1>7. Good(0)
  BY <1>6
<1>8. ASSUME NEW n \in 1 .. N, Good(n - 1) PROVE Good(n)
  <2> DEFINE b == Bucket(ActiveSlots[n])
             p == g[n - 1]
             l == Len(p)
  <2>1. p \in V /\ b \in V /\ ToSet(b) = TokensOf(ActiveSlots[n]) /\ g[n] = p \o b
    BY <1>1, <1>6, <1>8
  <2>2. /\ g[n] \in V /\ l \in Nat /\ Len(b) \in Nat /\ Len(g[n]) = l + Len(b)
        /\ DOMAIN b = 1 .. Len(b)
        /\ \A k \in 1 .. l : g[n][k] = p[k]
        /\ \A k \in 1 .. Len(b) : g[n][l + k] = b[k]
    <3> HIDE DEF b, p, g
    <3> QED
      BY <2>1 DEF l
  <2>3. ASSUME NEW i \in 1 .. n - 1
        PROVE  /\ g[i - 1] \in V /\ g[i] \in V
               /\ Len(g[i]) <= Len(g[n])
               /\ Part(n, i) = TokensOf(ActiveSlots[i])
    <3>1. /\ g[i - 1] \in V /\ g[i] \in V
          /\ Len(g[i]) <= l
          /\ Part(n - 1, i) = TokensOf(ActiveSlots[i])
      BY <1>8, <2>3
    <3>2. Len(g[i - 1]) \in Nat /\ Len(g[i]) \in Nat
      <4> HIDE DEF g
      <4> QED
        BY <3>1
    <3>3. \A k \in Len(g[i - 1]) + 1 .. Len(g[i]) : k \in 1 .. l
      <4> HIDE DEF g, l
      <4>1. \A x, y \in Nat : y <= l => \A k \in x + 1 .. y : k \in 1 .. l
        BY <2>2
      <4> QED
        BY <3>1, <3>2, <4>1
    <3>4. Part(n, i) = Part(n - 1, i)
      <4> HIDE DEF g, l
      <4> QED
        BY <2>2, <3>3
    <3>5. Len(g[i]) <= Len(g[n])
      <4> HIDE DEF g, l, b
      <4> QED
        BY <2>2, <3>1, <3>2
    <3> QED
      BY <3>1, <3>4, <3>5
  <2>4. Part(n, n) = TokensOf(ActiveSlots[n])
    <3> HIDE DEF g, l, b
    <3>1. \A k \in l + 1 .. Len(g[n]) : k - l \in 1 .. Len(b) /\ g[n][k] = b[k - l]
      <4> TAKE k \in l + 1 .. Len(g[n])
      <4>1. k - l \in 1 .. Len(b) /\ l + (k - l) = k
        BY <2>2
      <4> QED
        BY <2>2, <4>1
    <3>2. \A k \in 1 .. Len(b) : l + k \in l + 1 .. Len(g[n]) /\ g[n][l + k] = b[k]
      <4> TAKE k \in 1 .. Len(b)
      <4>1. l + k \in l + 1 .. l + Len(b)
        BY ONLY <2>2, k \in 1 .. Len(b)
      <4>2. g[n][l + k] = b[k]
        BY ONLY <2>2, k \in 1 .. Len(b)
      <4> QED
        BY ONLY <2>2, <4>1, <4>2
    <3>3. {g[n][k] : k \in l + 1 .. Len(g[n])} = ToSet(b)
      <4>1. ToSet(b) = {b[k] : k \in 1 .. Len(b)}
        BY <2>2 DEF ToSet
      <4>2. \A y \in {g[n][k] : k \in l + 1 .. Len(g[n])} : \E k \in 1 .. Len(b) : y = b[k]
        BY <3>1
      <4>3. \A k \in 1 .. Len(b) : \E j \in l + 1 .. Len(g[n]) : b[k] = g[n][j]
        BY <3>2
      <4> DEFINE P == {g[n][k] : k \in l + 1 .. Len(g[n])}
      <4>4. \A y \in P : y \in ToSet(b)
        BY <4>1, <4>2
      <4>5. \A y \in ToSet(b) : y \in P
        BY <4>1, <4>3
      <4> HIDE DEF P
      <4>6. P = ToSet(b)
        BY <4>4, <4>5
      <4> QED
        BY <4>6 DEF P
    <3> QED
      BY <2>1, <3>3 DEF l
  <2>5. \A i \in 1 .. n : i \in 1 .. n - 1 \/ i = n
    BY <1>1
  <2>6. Len(g[n]) <= Len(g[n])
    <3> HIDE DEF g
    <3> QED
      BY <2>2
  <2> HIDE DEF Part, g, b, l
  <2> QED
    BY <2>1, <2>2, <2>3, <2>4, <2>5, <2>6
<1>9. Good(N)
  <2> HIDE DEF Good, N
  <2> SUFFICES ASSUME N \in Bad PROVE FALSE
    BY <1>1
  <2>0. Bad \in SUBSET Nat /\ Bad # {}
    <3>1. Bad \subseteq 0 .. N /\ 0 .. N \subseteq Nat
      BY <1>1
    <3> QED
      BY <3>1
  <2>1. PICK n \in Bad : \A m \in Bad : n <= m
    BY <2>0, Least
  <2>2. n \in 1 .. N /\ n - 1 \in 0 .. N /\ ~ Good(n) /\ n - 1 \notin Bad
    BY <1>1, <1>7, <2>1
  <2> QED
    BY <1>8, <2>2
<1> SUFFICES ASSUME NEW i \in 1 .. N
             PROVE  /\ Len(g[i - 1]) \in Nat /\ Len(g[i]) \in Nat
                    /\ Part(N, i) = TokensOf(ActiveSlots[i])
  BY DEF Order
<1>10. g[i - 1] \in V /\ g[i] \in V
  BY <1>9
<1>11. Len(g[i - 1]) \in Nat /\ Len(g[i]) \in Nat
  <2> HIDE DEF g
  <2> QED
    BY <1>10
<1> QED
  BY <1>9, <1>11

----------------------------------------------------------------------------
(* The invariant                                                           *)

\* What activate() has still to load is what its step names and it has not mapped yet,
\* and is nowhere.
LoadingLoRA ==
  /\ Cardinality(WantedAdapters) <= NumSlots
  /\ IsInjective(misses)
  /\ DOMAIN mapping \cup ToSet(misses) = WantedAdapters
  /\ ToSet(misses) \cap DOMAIN slotOf = {}

\* A slot that activate() has given out is still its adapter's.
Mapped == \A a \in DOMAIN mapping : a \in DOMAIN slotOf /\ mapping[a] = slotOf[a]

\* The rows of a slot are its adapter's, with nothing left of whoever was there before.
RowsLoaded ==
  \A a \in DOMAIN slotOf : \A l \in Layer : rows[slotOf[a]][l] = LayerLoad(a, l, Zeros)

SlotsInv ==
  /\ TypeOK /\ RegistryInv /\ RowsLoaded
  /\ phase # "idle" => Mapped
  /\ phase = "loading" => LoadingLoRA
  /\ phase = "step" => DOMAIN mapping = WantedAdapters

\* Adapters are finitely many numbers, none of them the base model's.
LEMMA AdapterFacts ==
  /\ NoLora \notin Adapter /\ Adapter \subseteq Nat /\ IsFiniteSet(Adapter)
  /\ Slot \subseteq Nat /\ NoLora \notin Slot
  /\ IsFiniteSet(Slot) /\ Cardinality(Slot) = NumSlots
<1>1. MaxAdapters \in Nat /\ NumSlots \in Nat /\ NumSlots >= 1
  OBVIOUS
<1>2. 1 \in Int /\ MaxAdapters \in Int /\ NumSlots \in Int
  BY <1>1
<1>3. IsFiniteSet(1 .. MaxAdapters) /\ IsFiniteSet(1 .. NumSlots)
  BY ONLY <1>2, FS_Interval
<1>4. Cardinality(1 .. NumSlots) = IF 1 > NumSlots THEN 0 ELSE NumSlots - 1 + 1
  BY ONLY <1>2, FS_Interval
<1> QED
  BY <1>1, <1>3, <1>4 DEF Adapter, Slot, NoLora

\* A row as load_slot leaves it is a row.
LEMMA RowFacts ==
  ASSUME NEW a \in Adapter, NEW l \in Layer,
         NEW row \in [Column -> Adapter \cup {NoLora}]
  PROVE  /\ LayerLoad(a, l, row) \in [Column -> Adapter \cup {NoLora}]
         /\ LayerLoad(a, l, row) = LayerLoad(a, l, Zeros)
         /\ (l \in Targets[a] => Loaded(a, l, row) # Zeros)
<1>1. Loaded(a, l, row) \in [Column -> Adapter \cup {NoLora}]
  BY DEF Loaded
<1>2. Zeros \in [Column -> Adapter \cup {NoLora}]
  BY DEF Zeros
<1>3. Loaded(a, l, row) = Loaded(a, l, Zeros)
  BY DEF Loaded
<1>4. Loaded(a, l, row) # Zeros
  <2>1. Rank[a] \in 1 .. MaxRank /\ MaxRank \in Nat
    BY LoRAAdapters
  <2>2. 1 \in Column /\ 1 <= Rank[a]
    BY <2>1 DEF Column
  <2>3. Loaded(a, l, row)[1] = a
    BY <2>2 DEF Loaded
  <2>4. Zeros[1] = NoLora
    BY <2>2 DEF Zeros
  <2> QED
    BY <2>3, <2>4, AdapterFacts
<1> QED
  BY <1>1, <1>2, <1>3, <1>4 DEF LayerLoad

\* The slots of a registry without adapters.
LEMMA AllSlotsFacts ==
  /\ AllSlots \in Seq(Slot) /\ IsInjective(AllSlots) /\ ToSet(AllSlots) = Slot
  /\ CleanRows \in [Slot -> [Layer -> [Column -> Adapter \cup {NoLora}]]]
  /\ DOMAIN Empty = {} /\ << >> \in Seq(Adapter) /\ ToSet(<< >>) = {} /\ IsInjective(<< >>)
<1>1. AllSlots \in Seq(Slot)
  <2>1. NumSlots \in Nat /\ AllSlots \in [1 .. NumSlots -> Slot]
    BY DEF AllSlots, Slot
  <2> QED
    BY <2>1
<1>2. IsInjective(AllSlots) /\ ToSet(AllSlots) = Slot
  BY DEF AllSlots, IsInjective, ToSet
<1>3. CleanRows \in [Slot -> [Layer -> [Column -> Adapter \cup {NoLora}]]]
  BY DEF CleanRows, Zeros
<1>4. DOMAIN Empty = {}
  BY DEF Empty
<1>5. << >> \in Seq(Adapter) /\ ToSet(<< >>) = {} /\ IsInjective(<< >>)
  BY DEF ToSet, IsInjective
<1> QED
  BY <1>1, <1>2, <1>3, <1>4, <1>5

\* The invariant holds of a new registry.
LEMMA SlotsInit == Init => SlotsInv
<1> SUFFICES ASSUME Init PROVE SlotsInv
  OBVIOUS
<1>1. TypeOK
  <2>1. 0 \in 0 .. MaxAdapters
    OBVIOUS
  <2>2. Empty \in [DOMAIN Empty -> Slot] /\ Empty \in [DOMAIN Empty -> Adapter]
    BY AllSlotsFacts DEF Empty
  <2>3. << >> \in Seq(Adapter) /\ << >> \in Seq(Adapter \cup {NoLora})
    OBVIOUS
  <2> QED
    BY <2>1, <2>2, <2>3, AllSlotsFacts DEF Init, TypeOK
<1>2. RegistryInv
  BY AllSlotsFacts DEF Init, RegistryInv
<1> QED
  BY <1>1, <1>2, AllSlotsFacts DEF Init, SlotsInv, RowsLoaded

\* Whom a slot was given to.
Gone(s) == {b \in DOMAIN slotOf : slotOf[b] = s}

\* A slot that is taken was free, or that of an adapter nobody needs.
LEMMA TakeFacts ==
  ASSUME TypeOK, RegistryInv, NEW s \in Slot, TakesSlot(s)
  PROVE  /\ freeSlots' \in Seq(Slot) /\ IsInjective(freeSlots')
         /\ ToSet(freeSlots') = ToSet(freeSlots) \ {s}
         /\ s \notin lost
         /\ Gone(s) \cap (WantedAdapters \cup pinned) = {}
<1>1. CASE freeSlots # << >> /\ s = Head(freeSlots) /\ freeSlots' = Tail(freeSlots)
  <2>1. freeSlots \in Seq(Slot) /\ IsInjective(freeSlots)
    BY DEF TypeOK, RegistryInv
  <2>2. /\ Tail(freeSlots) \in Seq(Slot) /\ IsInjective(Tail(freeSlots))
        /\ ToSet(freeSlots) = ToSet(Tail(freeSlots)) \cup {s} /\ s \notin ToSet(Tail(freeSlots))
    BY <1>1, <2>1, TailFacts
  <2>3. s \notin lost /\ s \notin DOMAIN adapterOf
    BY <2>2 DEF RegistryInv
  <2>4. Gone(s) = {}
    BY <2>3 DEF Gone, RegistryInv
  <2> QED
    BY <1>1, <2>2, <2>3, <2>4
<1>2. CASE freeSlots = << >> /\ Victims # {} /\ s = slotOf[Victim] /\ freeSlots' = freeSlots
  <2>1. lru \in Seq(Adapter) /\ ToSet(lru) = DOMAIN slotOf
    BY DEF TypeOK, RegistryInv
  <2>2. Victims \in SUBSET Nat
    BY <2>1 DEF Victims
  <2>3. \E i \in Victims : \A j \in Victims : i <= j
    BY <1>2, <2>2, Least
  <2>4. PICK i \in Victims : Victim = lru[i]
    BY <2>3 DEF Victim
  <2>5. Victim \in DOMAIN slotOf /\ Victim \notin WantedAdapters \cup pinned
    BY <2>1, <2>4 DEF Victims, ToSet
  <2>6. s \in DOMAIN adapterOf /\ adapterOf[s] = Victim
    BY <1>2, <2>5 DEF RegistryInv
  <2>7. Gone(s) \subseteq {Victim}
    BY <2>6 DEF Gone, RegistryInv
  <2>8. freeSlots \in Seq(Slot) /\ IsInjective(freeSlots) /\ ToSet(freeSlots) = {}
    BY <1>2, AllSlotsFacts DEF TypeOK, RegistryInv
  <2>9. s \notin lost
    BY <2>6 DEF RegistryInv
  <2> QED
    BY <1>2, <2>5, <2>7, <2>8, <2>9
<1> QED
  BY <1>1, <1>2 DEF TakesSlot

\* The order without whoever was in the slot.
LEMMA StillThereFacts ==
  ASSUME TypeOK, RegistryInv, NEW s
  PROVE  /\ StillThere(s) \in Seq(Adapter) /\ IsInjective(StillThere(s))
         /\ ToSet(StillThere(s)) = DOMAIN slotOf \ Gone(s)
<1>1. lru \in Seq(Adapter) /\ IsInjective(lru) /\ ToSet(lru) = DOMAIN slotOf
  BY DEF TypeOK, RegistryInv
<1>2. StillThere(s) = Without(Gone(s))
  BY DEF StillThere, Gone
<1> QED
  BY <1>1, <1>2, WithoutFacts

\* An adapter that was missing is loaded into its slot.
LEMMA LoadMissKeeps == SlotsInv /\ LoadMiss => SlotsInv'
<1> SUFFICES ASSUME SlotsInv, LoadMiss PROVE SlotsInv'
  OBVIOUS
<1> DEFINE a == Head(misses)
<1>1. TypeOK /\ RegistryInv /\ RowsLoaded /\ Mapped /\ LoadingLoRA /\ phase = "loading" /\ misses # << >>
  BY DEF SlotsInv, LoadMiss
<1>2. PICK s \in Slot :
        /\ TakesSlot(s)
        /\ rows' = [rows EXCEPT ![s] = [l \in Layer |-> LayerLoad(a, l, rows[s][l])]]
        /\ Moved(a, s)
        /\ lru' = Append(StillThere(s), a)
        /\ mapping' = [b \in DOMAIN mapping \cup {a} |-> IF b = a THEN s ELSE mapping[b]]
  BY DEF LoadMiss
<1>3. /\ misses' = Tail(misses) /\ registered' = registered /\ pinned' = pinned /\ phase' = phase
      /\ ids' = ids /\ pinning' = pinning /\ lost' = lost
  BY DEF LoadMiss
<1>4. /\ Tail(misses) \in Seq(Adapter) /\ a \in Adapter
      /\ ToSet(misses) = ToSet(Tail(misses)) \cup {a}
      /\ IsInjective(Tail(misses)) /\ a \notin ToSet(Tail(misses))
  BY <1>1, TailFacts DEF TypeOK, LoadingLoRA
<1>5. /\ freeSlots' \in Seq(Slot) /\ IsInjective(freeSlots')
      /\ ToSet(freeSlots') = ToSet(freeSlots) \ {s}
      /\ s \notin lost
      /\ Gone(s) \cap (WantedAdapters \cup pinned) = {}
  BY <1>1, <1>2, TakeFacts
<1>6. /\ StillThere(s) \in Seq(Adapter) /\ IsInjective(StillThere(s))
      /\ ToSet(StillThere(s)) = DOMAIN slotOf \ Gone(s)
  BY <1>1, StillThereFacts
<1>7. a \notin DOMAIN slotOf /\ a \in WantedAdapters
  BY <1>1, <1>4 DEF LoadingLoRA
<1>8. /\ lru' \in Seq(Adapter) /\ IsInjective(lru')
      /\ ToSet(lru') = (DOMAIN slotOf \ Gone(s)) \cup {a}
  <2>1. a \notin ToSet(StillThere(s))
    BY <1>6, <1>7
  <2> QED
    BY <1>2, <1>4, <1>6, <2>1, AppendFacts
<1> HIDE DEF a
<1>9. /\ DOMAIN slotOf' = (DOMAIN slotOf \ Gone(s)) \cup {a}
      /\ slotOf'[a] = s
      /\ \A b \in DOMAIN slotOf \ Gone(s) :
           b # a /\ b \in DOMAIN slotOf' /\ slotOf'[b] = slotOf[b] /\ slotOf[b] # s
      /\ slotOf' \in [DOMAIN slotOf' -> Slot]
  <2>1. slotOf' = [b \in {c \in DOMAIN slotOf : slotOf[c] # s} \cup {a} |->
                     IF b = a THEN s ELSE slotOf[b]]
    BY <1>2 DEF Moved
  <2>2. {c \in DOMAIN slotOf : slotOf[c] # s} = DOMAIN slotOf \ Gone(s)
    BY DEF Gone
  <2>3. slotOf \in [DOMAIN slotOf -> Slot]
    BY <1>1 DEF TypeOK
  <2> QED
    BY <1>7, <2>1, <2>2, <2>3
<1>10. /\ DOMAIN adapterOf' = DOMAIN adapterOf \cup {s}
       /\ adapterOf'[s] = a
       /\ \A t \in DOMAIN adapterOf : t # s => adapterOf'[t] = adapterOf[t]
       /\ adapterOf' \in [DOMAIN adapterOf' -> Adapter]
  BY <1>1, <1>2, <1>4 DEF Moved, TypeOK
<1>11. /\ DOMAIN mapping' = DOMAIN mapping \cup {a} /\ mapping'[a] = s
       /\ \A b \in DOMAIN mapping : b # a => mapping'[b] = mapping[b]
       /\ mapping' \in [DOMAIN mapping' -> Slot]
  BY <1>1, <1>2 DEF TypeOK
<1>12. /\ rows' \in [Slot -> [Layer -> [Column -> Adapter \cup {NoLora}]]]
       /\ \A l \in Layer : rows'[s][l] = LayerLoad(a, l, Zeros)
       /\ \A t \in Slot : t # s => rows'[t] = rows[t]
  <2>1. rows \in [Slot -> [Layer -> [Column -> Adapter \cup {NoLora}]]]
    BY <1>1 DEF TypeOK
  <2>2. \A l \in Layer : rows[s][l] \in [Column -> Adapter \cup {NoLora}]
    BY <2>1
  <2>3. \A l \in Layer : /\ LayerLoad(a, l, rows[s][l]) \in [Column -> Adapter \cup {NoLora}]
                         /\ LayerLoad(a, l, rows[s][l]) = LayerLoad(a, l, Zeros)
    BY <1>4, <2>2, RowFacts
  <2> DEFINE new == [l \in Layer |-> LayerLoad(a, l, rows[s][l])]
  <2>4. /\ new \in [Layer -> [Column -> Adapter \cup {NoLora}]]
        /\ \A l \in Layer : new[l] = LayerLoad(a, l, Zeros)
    BY <2>3
  <2>5. rows' = [rows EXCEPT ![s] = new]
    BY <1>2
  <2> HIDE DEF new
  <2> QED
    BY <2>1, <2>4, <2>5
<1>13. TypeOK'
  <2>1. DOMAIN slotOf' \subseteq Adapter /\ DOMAIN adapterOf' \subseteq Slot
        /\ DOMAIN mapping' \subseteq Adapter
    BY <1>1, <1>4, <1>9, <1>10, <1>11 DEF TypeOK
  <2> QED
    BY <1>1, <1>3, <1>4, <1>5, <1>8, <1>9, <1>10, <1>11, <1>12, <2>1 DEF TypeOK
<1>14. RegistryInv'
  <2>1. \A b \in DOMAIN slotOf' : slotOf'[b] \in DOMAIN adapterOf' /\ adapterOf'[slotOf'[b]] = b
    BY <1>1, <1>9, <1>10 DEF RegistryInv
  <2>2. \A t \in DOMAIN adapterOf' : adapterOf'[t] \in DOMAIN slotOf' /\ slotOf'[adapterOf'[t]] = t
    <3>1. \A t \in DOMAIN adapterOf : t # s =>
            /\ adapterOf[t] \in DOMAIN slotOf \ Gone(s)
            /\ slotOf[adapterOf[t]] = t
      BY <1>1 DEF RegistryInv, Gone
    <3> QED
      BY <1>9, <1>10, <3>1
  <2>3. ToSet(lru') = DOMAIN slotOf'
    BY <1>8, <1>9
  <2>4. DOMAIN adapterOf' \cap ToSet(freeSlots') = {}
    BY <1>1, <1>5, <1>10 DEF RegistryInv
  <2>5. lost' \cap (DOMAIN adapterOf' \cup ToSet(freeSlots')) = {}
    BY <1>1, <1>3, <1>5, <1>10 DEF RegistryInv
  <2>6. DOMAIN adapterOf' \cup ToSet(freeSlots') \cup lost' = Slot
    BY <1>1, <1>3, <1>5, <1>10 DEF RegistryInv
  <2>7. pinned' \subseteq DOMAIN slotOf'
    BY <1>1, <1>3, <1>5, <1>9 DEF RegistryInv
  <2> QED
    BY <1>5, <1>8, <2>1, <2>2, <2>3, <2>4, <2>5, <2>6, <2>7 DEF RegistryInv
<1>15. RowsLoaded'
  <2> SUFFICES ASSUME NEW b \in DOMAIN slotOf', NEW l \in Layer
               PROVE  rows'[slotOf'[b]][l] = LayerLoad(b, l, Zeros)
    BY DEF RowsLoaded
  <2>1. CASE b = a
    BY <1>9, <1>12, <2>1
  <2>2. CASE b # a
    <3>1. b \in DOMAIN slotOf /\ slotOf'[b] = slotOf[b] /\ slotOf[b] # s /\ slotOf[b] \in Slot
      BY <1>1, <1>9, <2>2 DEF TypeOK
    <3> QED
      BY <1>1, <1>12, <3>1 DEF RowsLoaded
  <2> QED
    BY <2>1, <2>2
<1>16. Mapped'
  <2> SUFFICES ASSUME NEW b \in DOMAIN mapping'
               PROVE  b \in DOMAIN slotOf' /\ mapping'[b] = slotOf'[b]
    BY DEF Mapped
  <2>1. CASE b = a
    BY <1>9, <1>11, <2>1
  <2>2. CASE b # a
    <3>1. b \in DOMAIN mapping /\ b \in WantedAdapters
      BY <1>1, <1>11, <2>2 DEF LoadingLoRA
    <3>2. b \in DOMAIN slotOf \ Gone(s) /\ mapping[b] = slotOf[b]
      BY <1>1, <1>5, <3>1 DEF Mapped
    <3> QED
      BY <1>9, <1>11, <2>2, <3>1, <3>2
  <2> QED
    BY <2>1, <2>2
<1>17. LoadingLoRA'
  <2>1. WantedAdapters' = WantedAdapters
    BY <1>3 DEF WantedAdapters
  <2>2. ToSet(misses') \cap DOMAIN slotOf' = {}
    BY <1>1, <1>3, <1>4, <1>9 DEF LoadingLoRA
  <2>3. DOMAIN mapping' \cup ToSet(misses') = WantedAdapters
    BY <1>1, <1>3, <1>4, <1>11 DEF LoadingLoRA
  <2> QED
    BY <1>1, <1>3, <1>4, <2>1, <2>2, <2>3 DEF LoadingLoRA
<1> QED
  BY <1>1, <1>3, <1>13, <1>14, <1>15, <1>16, <1>17 DEF SlotsInv

\* A load that raises costs its slot, and whoever was in it.
LEMMA LoadFailsKeeps == ASSUME SlotsInv, NEW upTo \in Layer, LoadFails(upTo) PROVE SlotsInv'
<1> DEFINE a == Head(misses)
<1>1. TypeOK /\ RegistryInv /\ RowsLoaded /\ misses # << >>
  BY DEF SlotsInv, LoadFails
<1>2. PICK s \in Slot :
        /\ TakesSlot(s)
        /\ rows' = [rows EXCEPT ![s] =
             [l \in Layer |-> IF l < upTo THEN LayerLoad(a, l, rows[s][l]) ELSE rows[s][l]]]
        /\ slotOf' = Restrict(slotOf, {b \in DOMAIN slotOf : slotOf[b] # s})
        /\ adapterOf' = Restrict(adapterOf, DOMAIN adapterOf \ {s})
        /\ lru' = StillThere(s)
        /\ lost' = lost \cup {s}
  BY DEF LoadFails
<1>3. /\ phase' = "idle" /\ ids' = << >> /\ pinning' = FALSE /\ misses' = << >>
      /\ mapping' = Empty /\ registered' = registered /\ pinned' = pinned
  BY DEF LoadFails, LoadRaises
<1>4. /\ freeSlots' \in Seq(Slot) /\ IsInjective(freeSlots')
      /\ ToSet(freeSlots') = ToSet(freeSlots) \ {s}
      /\ s \notin lost
      /\ Gone(s) \cap (WantedAdapters \cup pinned) = {}
  BY <1>1, <1>2, TakeFacts
<1>5. /\ StillThere(s) \in Seq(Adapter) /\ IsInjective(StillThere(s))
      /\ ToSet(StillThere(s)) = DOMAIN slotOf \ Gone(s)
  BY <1>1, StillThereFacts
<1>6. /\ DOMAIN slotOf' = DOMAIN slotOf \ Gone(s)
      /\ \A b \in DOMAIN slotOf' : slotOf'[b] = slotOf[b] /\ slotOf[b] # s
      /\ slotOf' \in [DOMAIN slotOf' -> Slot]
  <2>1. {b \in DOMAIN slotOf : slotOf[b] # s} = DOMAIN slotOf \ Gone(s)
    BY DEF Gone
  <2>2. slotOf' = [b \in DOMAIN slotOf \ Gone(s) |-> slotOf[b]]
    BY <1>2, <2>1 DEF Restrict
  <2>3. slotOf \in [DOMAIN slotOf -> Slot]
    BY <1>1 DEF TypeOK
  <2> QED
    BY <2>1, <2>2, <2>3
<1>7. /\ DOMAIN adapterOf' = DOMAIN adapterOf \ {s}
      /\ \A t \in DOMAIN adapterOf' : adapterOf'[t] = adapterOf[t]
      /\ adapterOf' \in [DOMAIN adapterOf' -> Adapter]
  BY <1>1, <1>2 DEF TypeOK, Restrict
<1>8. /\ rows' \in [Slot -> [Layer -> [Column -> Adapter \cup {NoLora}]]]
      /\ \A t \in Slot : t # s => rows'[t] = rows[t]
  <2>1. rows \in [Slot -> [Layer -> [Column -> Adapter \cup {NoLora}]]]
    BY <1>1 DEF TypeOK
  <2>2. \A l \in Layer : rows[s][l] \in [Column -> Adapter \cup {NoLora}]
    BY <2>1
  <2>3. a \in Adapter
    BY <1>1, TailFacts DEF TypeOK
  <2> HIDE DEF a
  <2>4. \A l \in Layer : LayerLoad(a, l, rows[s][l]) \in [Column -> Adapter \cup {NoLora}]
    BY <2>2, <2>3, RowFacts
  <2> DEFINE new == [l \in Layer |-> IF l < upTo THEN LayerLoad(a, l, rows[s][l]) ELSE rows[s][l]]
  <2>5. new \in [Layer -> [Column -> Adapter \cup {NoLora}]]
    BY <2>2, <2>4
  <2>6. rows' = [rows EXCEPT ![s] = new]
    BY <1>2 DEF a
  <2> HIDE DEF new
  <2> QED
    BY <2>1, <2>5, <2>6
<1>9. TypeOK'
  <2>1. DOMAIN slotOf' \subseteq Adapter /\ DOMAIN adapterOf' \subseteq Slot
    BY <1>1, <1>6, <1>7 DEF TypeOK
  <2>2. DOMAIN mapping' = {} /\ mapping' \in [DOMAIN mapping' -> Slot]
    BY <1>3 DEF Empty
  <2>3. << >> \in Seq(Adapter) /\ << >> \in Seq(Adapter \cup {NoLora})
    OBVIOUS
  <2>4. registered' \in 0 .. MaxAdapters /\ pinned' \subseteq Adapter /\ lost' \subseteq Slot
    BY <1>1, <1>2, <1>3 DEF TypeOK
  <2>5. lru' \in Seq(Adapter)
    BY <1>2, <1>5
  <2>6. /\ phase' \in {"idle", "loading", "step"} /\ pinning' \in BOOLEAN
        /\ ids' \in Seq(Adapter \cup {NoLora}) /\ misses' \in Seq(Adapter)
    BY <1>3, <2>3
  <2>7. DOMAIN mapping' \subseteq Adapter
    BY <2>2
  <2> QED
    BY <1>4, <1>6, <1>7, <1>8, <2>1, <2>2, <2>4, <2>5, <2>6, <2>7 DEF TypeOK
<1>10. RegistryInv'
  <2>1. \A b \in DOMAIN slotOf' : slotOf'[b] \in DOMAIN adapterOf' /\ adapterOf'[slotOf'[b]] = b
    BY <1>1, <1>6, <1>7 DEF RegistryInv
  <2>2. \A t \in DOMAIN adapterOf' : adapterOf'[t] \in DOMAIN slotOf' /\ slotOf'[adapterOf'[t]] = t
    BY <1>1, <1>6, <1>7 DEF RegistryInv, Gone
  <2>3. ToSet(lru') = DOMAIN slotOf' /\ IsInjective(lru')
    BY <1>2, <1>5, <1>6
  <2>4. /\ DOMAIN adapterOf' \cap ToSet(freeSlots') = {}
        /\ lost' \cap (DOMAIN adapterOf' \cup ToSet(freeSlots')) = {}
        /\ DOMAIN adapterOf' \cup ToSet(freeSlots') \cup lost' = Slot
    <3> DEFINE D == DOMAIN adapterOf
               F == ToSet(freeSlots)
    <3>1. D \cap F = {} /\ lost \cap (D \cup F) = {} /\ D \cup F \cup lost = Slot
      BY <1>1 DEF RegistryInv
    <3>2. DOMAIN adapterOf' = D \ {s} /\ ToSet(freeSlots') = F \ {s} /\ lost' = lost \cup {s}
      BY <1>2, <1>4, <1>7
    <3> HIDE DEF D, F
    <3> QED
      BY <3>1, <3>2
  <2>5. pinned' \subseteq DOMAIN slotOf'
    BY <1>1, <1>3, <1>4, <1>6 DEF RegistryInv
  <2> QED
    BY <1>4, <2>1, <2>2, <2>3, <2>4, <2>5 DEF RegistryInv
<1>11. RowsLoaded'
  <2> SUFFICES ASSUME NEW b \in DOMAIN slotOf', NEW l \in Layer
               PROVE  rows'[slotOf'[b]][l] = LayerLoad(b, l, Zeros)
    BY DEF RowsLoaded
  <2>1. b \in DOMAIN slotOf /\ slotOf'[b] = slotOf[b] /\ slotOf[b] # s /\ slotOf[b] \in Slot
    BY <1>1, <1>6 DEF TypeOK
  <2> QED
    BY <1>1, <1>8, <2>1 DEF RowsLoaded
<1> QED
  BY <1>3, <1>9, <1>10, <1>11 DEF SlotsInv

\* activate() starts with the adapters that are resident, refreshed, and the others to load.
LEMMA ActivateKeeps ==
  ASSUME SlotsInv, NEW tokens \in Seq(Adapter \cup {NoLora}), NEW pin \in BOOLEAN,
         Activate(tokens, pin)
  PROVE  SlotsInv'
<1> DEFINE wanted == ToSet(tokens) \ {NoLora}
           R == wanted \cap DOMAIN slotOf
           M == wanted \ DOMAIN slotOf
<1>1. TypeOK /\ RegistryInv /\ RowsLoaded
  BY DEF SlotsInv
<1>2. /\ Cardinality(wanted) <= NumSlots
      /\ lru' = Without(R) \o Sorted(R)
      /\ mapping' = Restrict(slotOf, R)
      /\ misses' = Sorted(M)
      /\ phase' = "loading" /\ ids' = tokens /\ pinning' = pin
      /\ registered' = registered /\ slotOf' = slotOf /\ adapterOf' = adapterOf
      /\ freeSlots' = freeSlots /\ rows' = rows /\ pinned' = pinned /\ lost' = lost
  BY DEF Activate, Refreshed, Resident
<1>3. wanted \subseteq Adapter
  BY DEF ToSet
<1> HIDE DEF wanted
<1>4. /\ IsFiniteSet(R) /\ R \in SUBSET Nat /\ R \subseteq Adapter
      /\ IsFiniteSet(M) /\ M \in SUBSET Nat /\ M \subseteq Adapter
  <2>1. R \subseteq Adapter /\ M \subseteq Adapter
    BY <1>3
  <2> HIDE DEF R, M
  <2> QED
    BY <2>1, AdapterFacts, FS_Subset
<1>5. R \subseteq DOMAIN slotOf /\ M \cap DOMAIN slotOf = {} /\ R \cup M = wanted
  OBVIOUS
<1> HIDE DEF R, M
<1>6. Sorted(R) \in Seq(Adapter) /\ IsInjective(Sorted(R)) /\ ToSet(Sorted(R)) = R
  <2>1. Sorted(R) \in Seq(R) /\ IsInjective(Sorted(R)) /\ ToSet(Sorted(R)) = R
    BY <1>4, SortedFacts
  <2>2. R \subseteq Adapter
    BY <1>4
  <2>3. Sorted(R) \in Seq(Adapter)
    BY <2>1, <2>2, SeqOfMore
  <2> QED
    BY <2>1, <2>3
<1>7. Sorted(M) \in Seq(Adapter) /\ IsInjective(Sorted(M)) /\ ToSet(Sorted(M)) = M
  <2>1. Sorted(M) \in Seq(M) /\ IsInjective(Sorted(M)) /\ ToSet(Sorted(M)) = M
    BY <1>4, SortedFacts
  <2>2. M \subseteq Adapter
    BY <1>4
  <2>3. Sorted(M) \in Seq(Adapter)
    BY <2>1, <2>2, SeqOfMore
  <2> QED
    BY <2>1, <2>3
<1>8. /\ Without(R) \in Seq(Adapter) /\ IsInjective(Without(R))
      /\ ToSet(Without(R)) = DOMAIN slotOf \ R
  <2>1. lru \in Seq(Adapter) /\ IsInjective(lru) /\ ToSet(lru) = DOMAIN slotOf
    BY <1>1 DEF TypeOK, RegistryInv
  <2> QED
    BY <2>1, WithoutFacts
<1>9. lru' \in Seq(Adapter) /\ IsInjective(lru') /\ ToSet(lru') = DOMAIN slotOf
  <2> DEFINE w == Without(R)
             q == Sorted(R)
  <2>1. w \in Seq(Adapter) /\ q \in Seq(Adapter) /\ ToSet(w) \cap ToSet(q) = {}
        /\ IsInjective(w) /\ IsInjective(q) /\ ToSet(w) \cup ToSet(q) = DOMAIN slotOf
    BY <1>5, <1>6, <1>8
  <2>2. lru' = w \o q
    BY <1>2
  <2> HIDE DEF w, q
  <2>3. w \o q \in Seq(Adapter) /\ ToSet(w \o q) = ToSet(w) \cup ToSet(q) /\ IsInjective(w \o q)
    BY <2>1, ConcatFacts
  <2> QED
    BY <2>1, <2>2, <2>3
<1>10. /\ DOMAIN mapping' = R /\ mapping' \in [R -> Slot]
       /\ \A b \in R : mapping'[b] = slotOf[b]
  BY <1>1, <1>2, <1>5 DEF Restrict, TypeOK
<1>11. TypeOK'
  BY <1>1, <1>2, <1>4, <1>7, <1>9, <1>10 DEF TypeOK
<1>12. RegistryInv'
  BY <1>1, <1>2, <1>9 DEF RegistryInv
<1>13. RowsLoaded'
  BY <1>1, <1>2 DEF RowsLoaded
<1>14. Mapped'
  BY <1>2, <1>5, <1>10 DEF Mapped
<1>15. LoadingLoRA'
  <2>1. WantedAdapters' = wanted
    BY <1>2 DEF WantedAdapters, wanted
  <2>2. ToSet(misses') = M /\ IsInjective(misses')
    BY <1>2, <1>7
  <2>3. DOMAIN mapping' \cup ToSet(misses') = wanted /\ ToSet(misses') \cap DOMAIN slotOf' = {}
    BY <1>2, <1>5, <1>10, <2>2
  <2> QED
    BY <1>2, <2>1, <2>2, <2>3 DEF LoadingLoRA
<1> QED
  BY <1>2, <1>11, <1>12, <1>13, <1>14, <1>15 DEF SlotsInv

\* An adapter that is taken out gives its slot back.
LEMMA DeactivateKeeps ==
  ASSUME SlotsInv, NEW a, Deactivate(a) PROVE SlotsInv'
<1>1. TypeOK /\ RegistryInv /\ RowsLoaded /\ a \in DOMAIN slotOf /\ a \notin pinned
  BY DEF SlotsInv, Deactivate
<1> DEFINE s == slotOf[a]
<1>2. /\ freeSlots' = Append(freeSlots, s)
      /\ adapterOf' = Restrict(adapterOf, DOMAIN adapterOf \ {s})
      /\ slotOf' = Restrict(slotOf, DOMAIN slotOf \ {a})
      /\ lru' = Without({a})
      /\ registered' = registered /\ rows' = rows /\ pinned' = pinned /\ lost' = lost
      /\ phase' = phase /\ phase = "idle" /\ ids' = ids /\ pinning' = pinning
      /\ misses' = misses /\ mapping' = mapping
  BY DEF Deactivate, callVars
<1>3. s \in Slot /\ s \in DOMAIN adapterOf /\ adapterOf[s] = a /\ s \notin ToSet(freeSlots)
  BY <1>1 DEF TypeOK, RegistryInv
<1> HIDE DEF s
<1>4. \A b \in DOMAIN slotOf \ {a} : slotOf[b] # s
  BY <1>1, <1>3 DEF RegistryInv
<1>5. /\ freeSlots' \in Seq(Slot) /\ IsInjective(freeSlots')
      /\ ToSet(freeSlots') = ToSet(freeSlots) \cup {s}
  <2>1. freeSlots \in Seq(Slot) /\ IsInjective(freeSlots)
    BY <1>1 DEF TypeOK, RegistryInv
  <2> QED
    BY <1>2, <1>3, <2>1, AppendFacts
<1>6. /\ lru' \in Seq(Adapter) /\ IsInjective(lru') /\ ToSet(lru') = DOMAIN slotOf \ {a}
  <2>1. lru \in Seq(Adapter) /\ IsInjective(lru) /\ ToSet(lru) = DOMAIN slotOf
    BY <1>1 DEF TypeOK, RegistryInv
  <2> QED
    BY <1>2, <2>1, WithoutFacts
<1>7. /\ DOMAIN slotOf' = DOMAIN slotOf \ {a}
      /\ \A b \in DOMAIN slotOf' : slotOf'[b] = slotOf[b]
      /\ slotOf' \in [DOMAIN slotOf' -> Slot]
  BY <1>1, <1>2 DEF TypeOK, Restrict
<1>8. /\ DOMAIN adapterOf' = DOMAIN adapterOf \ {s}
      /\ \A t \in DOMAIN adapterOf' : adapterOf'[t] = adapterOf[t]
      /\ adapterOf' \in [DOMAIN adapterOf' -> Adapter]
  BY <1>1, <1>2 DEF TypeOK, Restrict
<1>9. TypeOK'
  <2>1. DOMAIN slotOf' \subseteq Adapter /\ DOMAIN adapterOf' \subseteq Slot
    BY <1>1, <1>7, <1>8 DEF TypeOK
  <2> QED
    BY <1>1, <1>2, <1>5, <1>6, <1>7, <1>8, <2>1 DEF TypeOK
<1>10. RegistryInv'
  <2>1. \A b \in DOMAIN slotOf' : slotOf'[b] \in DOMAIN adapterOf' /\ adapterOf'[slotOf'[b]] = b
    BY <1>1, <1>4, <1>7, <1>8 DEF RegistryInv
  <2>2. \A t \in DOMAIN adapterOf' : adapterOf'[t] \in DOMAIN slotOf' /\ slotOf'[adapterOf'[t]] = t
    <3> SUFFICES ASSUME NEW t \in DOMAIN adapterOf, t # s
                 PROVE  adapterOf[t] \in DOMAIN slotOf \ {a} /\ slotOf[adapterOf[t]] = t
      BY <1>7, <1>8
    <3>1. adapterOf[t] \in DOMAIN slotOf /\ slotOf[adapterOf[t]] = t
      BY <1>1 DEF RegistryInv
    <3> QED
      BY <3>1 DEF s
  <2>3. ToSet(lru') = DOMAIN slotOf'
    BY <1>6, <1>7
  <2>4. /\ DOMAIN adapterOf' \cap ToSet(freeSlots') = {}
        /\ lost' \cap (DOMAIN adapterOf' \cup ToSet(freeSlots')) = {}
        /\ DOMAIN adapterOf' \cup ToSet(freeSlots') \cup lost' = Slot
    <3> DEFINE D == DOMAIN adapterOf
               F == ToSet(freeSlots)
    <3>1. D \cap F = {} /\ lost \cap (D \cup F) = {} /\ D \cup F \cup lost = Slot /\ s \in D
      BY <1>1, <1>3 DEF RegistryInv
    <3>2. DOMAIN adapterOf' = D \ {s} /\ ToSet(freeSlots') = F \cup {s} /\ lost' = lost
      BY <1>2, <1>5, <1>8
    <3> HIDE DEF D, F
    <3> QED
      BY <3>1, <3>2
  <2>5. pinned' \subseteq DOMAIN slotOf'
    BY <1>1, <1>2, <1>7 DEF RegistryInv
  <2> QED
    BY <1>5, <1>6, <2>1, <2>2, <2>3, <2>4, <2>5 DEF RegistryInv
<1>11. RowsLoaded'
  BY <1>1, <1>2, <1>7 DEF RowsLoaded
<1> QED
  BY <1>2, <1>9, <1>10, <1>11 DEF SlotsInv

\* activate() returns: everything its step names has a slot, and a pin protects that.
LEMMA EndActivateKeeps == ASSUME SlotsInv, EndActivate PROVE SlotsInv'
<1>1. TypeOK /\ RegistryInv /\ RowsLoaded /\ Mapped /\ LoadingLoRA /\ misses = << >>
  BY DEF SlotsInv, EndActivate
<1>2. /\ registered' = registered /\ slotOf' = slotOf /\ adapterOf' = adapterOf
      /\ freeSlots' = freeSlots /\ lru' = lru /\ rows' = rows /\ lost' = lost
  BY DEF EndActivate, slotVars
<1>3. DOMAIN mapping = WantedAdapters /\ WantedAdapters \subseteq DOMAIN slotOf
  BY <1>1, AllSlotsFacts DEF LoadingLoRA, Mapped
<1>4. DOMAIN slotOf \subseteq Adapter
  BY <1>1 DEF TypeOK
<1>5. CASE pinning
  <2>1. /\ phase' = "idle" /\ ids' = << >> /\ pinning' = FALSE /\ misses' = << >>
        /\ mapping' = Empty /\ pinned' = pinned \cup WantedAdapters
    BY <1>5 DEF EndActivate, LoadRaises
  <2>2. DOMAIN mapping' = {} /\ mapping' \in [DOMAIN mapping' -> Slot]
    BY <2>1 DEF Empty
  <2>3. << >> \in Seq(Adapter) /\ << >> \in Seq(Adapter \cup {NoLora})
    OBVIOUS
  <2>4. TypeOK'
    BY <1>1, <1>2, <1>3, <1>4, <2>1, <2>2, <2>3 DEF TypeOK
  <2>5. RegistryInv'
    BY <1>1, <1>2, <1>3, <2>1 DEF RegistryInv
  <2>6. RowsLoaded'
    BY <1>1, <1>2 DEF RowsLoaded
  <2> QED
    BY <2>1, <2>4, <2>5, <2>6 DEF SlotsInv
<1>6. CASE ~ pinning
  <2>1. /\ phase' = "step" /\ ids' = ids /\ pinning' = pinning /\ misses' = misses
        /\ mapping' = mapping /\ pinned' = pinned
    BY <1>6 DEF EndActivate
  <2>2. TypeOK'
    BY <1>1, <1>2, <2>1 DEF TypeOK
  <2>3. RegistryInv' /\ RowsLoaded' /\ Mapped'
    BY <1>1, <1>2, <2>1 DEF RegistryInv, RowsLoaded, Mapped
  <2>4. DOMAIN mapping' = WantedAdapters'
    BY <1>3, <2>1 DEF WantedAdapters
  <2> QED
    BY <2>1, <2>2, <2>3, <2>4 DEF SlotsInv
<1> QED
  BY <1>5, <1>6

\* A call ends, with what it mapped forgotten.
LEMMA CallEndKeeps ==
  ASSUME SlotsInv, LoadRaises, UNCHANGED <<registered, slotVars, pinned, lost>>
  PROVE  SlotsInv'
<1>1. TypeOK /\ RegistryInv /\ RowsLoaded
  BY DEF SlotsInv
<1>2. /\ registered' = registered /\ slotOf' = slotOf /\ adapterOf' = adapterOf
      /\ freeSlots' = freeSlots /\ lru' = lru /\ rows' = rows /\ lost' = lost
      /\ pinned' = pinned
      /\ phase' = "idle" /\ ids' = << >> /\ pinning' = FALSE /\ misses' = << >>
      /\ mapping' = Empty
  BY DEF slotVars, LoadRaises
<1>3. DOMAIN mapping' = {} /\ mapping' \in [DOMAIN mapping' -> Slot]
  BY <1>2 DEF Empty
<1>4. << >> \in Seq(Adapter) /\ << >> \in Seq(Adapter \cup {NoLora})
  OBVIOUS
<1>5. TypeOK'
  BY <1>1, <1>2, <1>3, <1>4 DEF TypeOK
<1>6. RegistryInv' /\ RowsLoaded'
  BY <1>1, <1>2 DEF RegistryInv, RowsLoaded
<1> QED
  BY <1>2, <1>5, <1>6 DEF SlotsInv

\* Everything is evicted.
LEMMA ResetKeeps == ASSUME SlotsInv, ResetSlots PROVE SlotsInv'
<1>1. TypeOK
  BY DEF SlotsInv
<1>2. /\ slotOf' = Empty /\ adapterOf' = Empty /\ lru' = << >> /\ pinned' = {}
      /\ freeSlots' = AllSlots /\ rows' = CleanRows /\ lost' = {}
      /\ registered' = registered /\ phase' = phase /\ phase = "idle" /\ ids' = ids
      /\ pinning' = pinning /\ misses' = misses /\ mapping' = mapping
  BY DEF ResetSlots, callVars
<1>3. Empty \in [DOMAIN Empty -> Slot] /\ Empty \in [DOMAIN Empty -> Adapter]
  BY AllSlotsFacts DEF Empty
<1>4. TypeOK'
  BY <1>1, <1>2, <1>3, AllSlotsFacts DEF TypeOK
<1>5. RegistryInv'
  BY <1>2, AllSlotsFacts DEF RegistryInv
<1>6. RowsLoaded'
  BY <1>2, AllSlotsFacts DEF RowsLoaded
<1> QED
  BY <1>2, <1>4, <1>5, <1>6 DEF SlotsInv

\* Every step of the registry keeps the invariant.
LEMMA SlotsKept == SlotsInv /\ [Next]_vars => SlotsInv'
<1> SUFFICES ASSUME SlotsInv, [Next]_vars PROVE SlotsInv'
  OBVIOUS
<1>1. TypeOK /\ RegistryInv /\ RowsLoaded
  BY DEF SlotsInv
<1>2. CASE Register
  <2>1. /\ registered' = registered + 1 /\ registered < MaxAdapters
        /\ slotOf' = slotOf /\ adapterOf' = adapterOf
        /\ freeSlots' = freeSlots /\ lru' = lru /\ rows' = rows /\ lost' = lost
        /\ pinned' = pinned /\ phase' = phase /\ phase = "idle" /\ ids' = ids
        /\ pinning' = pinning /\ misses' = misses /\ mapping' = mapping
    BY <1>2 DEF Register, slotVars, callVars
  <2>2. registered' \in 0 .. MaxAdapters
    BY <1>1, <2>1 DEF TypeOK
  <2>3. TypeOK' /\ RegistryInv' /\ RowsLoaded'
    BY <1>1, <2>1, <2>2 DEF TypeOK, RegistryInv, RowsLoaded
  <2> QED
    BY <2>1, <2>3 DEF SlotsInv
<1>3. ASSUME NEW n \in 1 .. MaxTokens, NEW tokens \in [1 .. n -> 0 .. registered],
             BuildContext(tokens)
      PROVE  SlotsInv'
  <2>1. 0 .. registered \subseteq Adapter \cup {NoLora}
    BY <1>1 DEF TypeOK, Adapter, NoLora
  <2>2. tokens \in Seq(0 .. registered)
    <3> DEFINE T == 0 .. registered
    <3>1. n \in Nat /\ tokens \in [1 .. n -> T]
      OBVIOUS
    <3> HIDE DEF T
    <3>2. tokens \in Seq(T)
      BY ONLY <3>1
    <3> QED
      BY <3>2 DEF T
  <2>3. tokens \in Seq(Adapter \cup {NoLora})
    BY <2>1, <2>2, SeqOfMore
  <2> QED
    BY <1>3, <2>3, ActivateKeeps DEF BuildContext
<1>4. ASSUME NEW a \in 1 .. registered, Pin(a) PROVE SlotsInv'
  <2>1. a \in Adapter
    BY <1>1 DEF TypeOK, Adapter
  <2>2. <<a>> \in Seq(Adapter \cup {NoLora})
    BY <2>1
  <2> QED
    BY <1>4, <2>2, ActivateKeeps DEF Pin
<1>5. ASSUME NEW a, Unpin(a) PROVE SlotsInv'
  <2>1. /\ registered' = registered /\ slotOf' = slotOf /\ adapterOf' = adapterOf
        /\ freeSlots' = freeSlots /\ lru' = lru /\ rows' = rows /\ lost' = lost
        /\ pinned' = pinned \ {a} /\ phase' = phase /\ phase = "idle" /\ ids' = ids
        /\ pinning' = pinning /\ misses' = misses /\ mapping' = mapping
    BY <1>5 DEF Unpin, slotVars, callVars
  <2>2. TypeOK'
    BY <1>1, <2>1 DEF TypeOK
  <2>3. RegistryInv'
    BY <1>1, <2>1 DEF RegistryInv
  <2>4. RowsLoaded'
    BY <1>1, <2>1 DEF RowsLoaded
  <2> QED
    BY <2>1, <2>2, <2>3, <2>4 DEF SlotsInv
<1>6. CASE NoSlot
  BY <1>6, CallEndKeeps DEF NoSlot
<1>7. CASE EndStep
  BY <1>7, CallEndKeeps DEF EndStep
<1>8. CASE UNCHANGED vars
  <2>1. /\ registered' = registered /\ slotOf' = slotOf /\ adapterOf' = adapterOf
        /\ freeSlots' = freeSlots /\ lru' = lru /\ rows' = rows /\ lost' = lost
        /\ pinned' = pinned /\ phase' = phase /\ ids' = ids
        /\ pinning' = pinning /\ misses' = misses /\ mapping' = mapping
    BY <1>8 DEF vars, slotVars, callVars
  <2>2. TypeOK' /\ RegistryInv' /\ RowsLoaded'
    BY <1>1, <2>1 DEF TypeOK, RegistryInv, RowsLoaded
  <2>3. (Mapped <=> Mapped') /\ (LoadingLoRA <=> LoadingLoRA') /\ WantedAdapters' = WantedAdapters
    BY <2>1 DEF Mapped, LoadingLoRA, WantedAdapters
  <2> QED
    BY <2>1, <2>2, <2>3 DEF SlotsInv
<1>9. CASE Next
  BY <1>2, <1>3, <1>4, <1>5, <1>6, <1>7, <1>9, LoadMissKeeps, LoadFailsKeeps, DeactivateKeeps,
     EndActivateKeeps, ResetKeeps DEF Next
<1> QED
  BY <1>8, <1>9

----------------------------------------------------------------------------
(* What the invariant gives a token                                        *)

\* The slots of the tokens of a step.
LEMMA TokenSlotFacts ==
  ASSUME SlotsInv, phase = "step"
  PROVE  /\ ids \in Seq(Adapter \cup {NoLora}) /\ TokenSlots \in [DOMAIN ids -> Nat]
         /\ \A p \in DOMAIN ids :
              /\ ids[p] \in Adapter \cup {NoLora}
              /\ ids[p] = NoLora => TokenSlots[p] = NoLora
              /\ ids[p] # NoLora => /\ TokenSlots[p] \in Slot
                                    /\ \A l \in Layer : rows[TokenSlots[p]][l]
                                                          = LayerLoad(ids[p], l, Zeros)
<1>1. TypeOK /\ RowsLoaded /\ Mapped /\ DOMAIN mapping = WantedAdapters
  BY DEF SlotsInv
<1>2. ids \in Seq(Adapter \cup {NoLora}) /\ \A p \in DOMAIN ids : ids[p] \in Adapter \cup {NoLora}
  BY <1>1 DEF TypeOK
<1>3. ASSUME NEW p \in DOMAIN ids, ids[p] = NoLora PROVE TokenSlots[p] = NoLora
  BY <1>3 DEF TokenSlots
<1>4. ASSUME NEW p \in DOMAIN ids, ids[p] # NoLora
      PROVE  /\ TokenSlots[p] \in Slot
             /\ \A l \in Layer : rows[TokenSlots[p]][l] = LayerLoad(ids[p], l, Zeros)
  <2>1. ids[p] \in WantedAdapters
    BY <1>4 DEF WantedAdapters, ToSet
  <2>2. TokenSlots[p] = slotOf[ids[p]] /\ ids[p] \in DOMAIN slotOf
    BY <1>1, <1>4, <2>1 DEF TokenSlots, Mapped
  <2> QED
    BY <1>1, <2>2 DEF TypeOK, RowsLoaded
<1>5. TokenSlots \in [DOMAIN ids -> Nat]
  <2>1. ASSUME NEW p \in DOMAIN ids PROVE TokenSlots[p] \in Nat
    <3>1. CASE ids[p] = NoLora
      BY <1>3, <3>1 DEF NoLora
    <3>2. CASE ids[p] # NoLora
      BY <1>4, <3>2, AdapterFacts
    <3> QED
      BY <3>1, <3>2
  <2> QED
    BY <2>1 DEF TokenSlots
<1> QED
  BY <1>2, <1>3, <1>4, <1>5

\* A token is in the segment of its slot, and in no other.
LEMMA SegmentFacts ==
  ASSUME SlotsInv, phase = "step", NEW p \in DOMAIN ids, NEW l \in Layer
  PROVE  GroupedRows(p, l) = KernelRows(p, l)
<1>1. /\ ids \in Seq(Adapter \cup {NoLora}) /\ TokenSlots \in [DOMAIN ids -> Nat]
  BY TokenSlotFacts
<1>2. /\ DOMAIN ActiveSlots = 1 .. Len(ActiveSlots)
      /\ ToSet(ActiveSlots) = ToSet(TokenSlots) \ {NoLora}
  BY <1>1, BucketFacts
<1>3. DOMAIN Segments = 1 .. Len(ActiveSlots)
  BY <1>2 DEF Segments
<1> DEFINE Mine(g) == \E i \in g.start + 1 .. g.end : Order[i] = p
<1>4. ASSUME NEW i \in 1 .. Len(ActiveSlots)
      PROVE  /\ Segments[i].slot = ActiveSlots[i]
             /\ Mine(Segments[i]) <=> TokenSlots[p] = ActiveSlots[i]
  <2>1. Segments[i] = [slot |-> ActiveSlots[i], start |-> Len(Grouped[i - 1]),
                       end |-> Len(Grouped[i])]
    BY <1>2 DEF Segments
  <2>2. {Order[k] : k \in Len(Grouped[i - 1]) + 1 .. Len(Grouped[i])} = TokensOf(ActiveSlots[i])
    BY <1>1, GroupedFacts
  <2>3. Mine(Segments[i])
          <=> p \in {Order[k] : k \in Len(Grouped[i - 1]) + 1 .. Len(Grouped[i])}
    BY <2>1
  <2>4. p \in TokensOf(ActiveSlots[i]) <=> TokenSlots[p] = ActiveSlots[i]
    BY DEF TokensOf
  <2> QED
    BY <2>1, <2>2, <2>3, <2>4
<1>5. GroupedRows(p, l) = {rows[g.slot][l] : g \in {h \in ToSet(Segments) :
                             rows[h.slot][l] # Zeros /\ Mine(h)}}
  BY DEF GroupedRows
<1>6. ToSet(Segments) = {Segments[i] : i \in 1 .. Len(ActiveSlots)}
  BY <1>3 DEF ToSet
<1> HIDE DEF Mine
<1>7. ASSUME NEW r \in GroupedRows(p, l)
      PROVE  TokenSlots[p] # NoLora /\ r = rows[TokenSlots[p]][l] /\ r # Zeros
  <2>1. PICK i \in 1 .. Len(ActiveSlots) :
          /\ rows[Segments[i].slot][l] # Zeros /\ Mine(Segments[i])
          /\ r = rows[Segments[i].slot][l]
    BY <1>5, <1>6
  <2>2. Segments[i].slot = ActiveSlots[i] /\ TokenSlots[p] = ActiveSlots[i]
    BY <1>4, <2>1
  <2>3. ActiveSlots[i] \in ToSet(ActiveSlots)
    BY <1>2 DEF ToSet
  <2> QED
    BY <1>2, <2>1, <2>2, <2>3
<1>8. ASSUME TokenSlots[p] # NoLora, rows[TokenSlots[p]][l] # Zeros
      PROVE  rows[TokenSlots[p]][l] \in GroupedRows(p, l)
  <2>1. TokenSlots[p] \in ToSet(TokenSlots)
    BY <1>1 DEF ToSet
  <2>2. PICK i \in 1 .. Len(ActiveSlots) : TokenSlots[p] = ActiveSlots[i]
    BY <1>2, <1>8, <2>1 DEF ToSet
  <2>3. Segments[i].slot = TokenSlots[p] /\ Mine(Segments[i])
    BY <1>4, <2>2
  <2>4. Segments[i] \in ToSet(Segments)
    BY <1>6
  <2> QED
    BY <1>5, <1>8, <2>3, <2>4
<1>9. KernelRows(p, l) = IF TokenSlots[p] = NoLora THEN {} ELSE {rows[TokenSlots[p]][l]} \ {Zeros}
  BY DEF KernelRows
<1> QED
  BY <1>7, <1>8, <1>9

\* Each token gets the factors of its own adapter.
LEMMA OwnRows == SlotsInv => OwnAdapter
<1> SUFFICES ASSUME SlotsInv, phase = "step", NEW p \in DOMAIN ids, NEW l \in Layer
             PROVE  GroupedRows(p, l) = RowsDue(ids[p], l) /\ KernelRows(p, l) = RowsDue(ids[p], l)
  BY DEF OwnAdapter
<1>1. GroupedRows(p, l) = KernelRows(p, l)
  BY SegmentFacts
<1>2. CASE ids[p] = NoLora
  BY <1>1, <1>2, TokenSlotFacts DEF KernelRows, RowsDue
<1>3. CASE ids[p] # NoLora
  <2> DEFINE a == ids[p]
  <2>1. /\ a \in Adapter /\ TokenSlots[p] # NoLora
        /\ rows[TokenSlots[p]][l] = LayerLoad(a, l, Zeros)
    BY <1>3, TokenSlotFacts, AdapterFacts
  <2>2. l \in Targets[a] => Loaded(a, l, Zeros) # Zeros
    <3>1. Zeros \in [Column -> Adapter \cup {NoLora}]
      BY DEF Zeros
    <3> HIDE DEF a
    <3> QED
      BY <2>1, <3>1, RowFacts
  <2>3. KernelRows(p, l) = {LayerLoad(a, l, Zeros)} \ {Zeros}
    BY <2>1 DEF KernelRows
  <2>4. RowsDue(a, l) = IF l \in Targets[a] THEN {Loaded(a, l, Zeros)} ELSE {}
    BY <1>3 DEF RowsDue, Loaded
  <2> HIDE DEF a
  <2>5. KernelRows(p, l) = RowsDue(a, l)
    BY <2>2, <2>3, <2>4 DEF LayerLoad
  <2> QED
    BY <1>1, <2>5 DEF a
<1> QED
  BY <1>2, <1>3

\* As many slots are occupied as adapters are resident.
LEMMA Occupied ==
  ASSUME TypeOK, RegistryInv
  PROVE  /\ IsFiniteSet(DOMAIN slotOf) /\ IsFiniteSet(DOMAIN adapterOf)
         /\ Cardinality(DOMAIN slotOf) = Cardinality(DOMAIN adapterOf)
<1> DEFINE D == DOMAIN slotOf
           E == DOMAIN adapterOf
<1>1. IsFiniteSet(D) /\ IsFiniteSet(E)
  <2>1. D \subseteq Adapter /\ E \subseteq Slot
    BY DEF TypeOK
  <2> HIDE DEF D, E
  <2> QED
    BY <2>1, AdapterFacts, FS_Subset
<1>2. slotOf \in Bijection(D, E)
  <2>1. slotOf \in [D -> E]
    BY DEF TypeOK, RegistryInv
  <2>2. slotOf \in Injection(D, E)
    BY <2>1 DEF Injection, IsInjective, RegistryInv
  <2>3. slotOf \in Surjection(D, E)
    BY <2>1 DEF Surjection, RegistryInv
  <2> QED
    BY <2>2, <2>3 DEF Bijection
<1> HIDE DEF D, E
<1>3. Cardinality(D) = Cardinality(E)
  <2>1. ExistsBijection(D, E)
    BY <1>2 DEF ExistsBijection
  <2> QED
    BY <1>1, <2>1, FS_Bijection
<1> QED
  BY <1>1, <1>3 DEF D, E

\* A load finds no slot only if what is needed and what is pinned does not fit.
LEMMA Refusals == SlotsInv => RefusedOnlyWhenFull
<1> SUFFICES ASSUME SlotsInv, phase = "loading", misses # << >>, freeSlots = << >>, Victims = {}
             PROVE  Cardinality(WantedAdapters \cup pinned) > NumSlots - Cardinality(lost)
  BY DEF RefusedOnlyWhenFull
<1>1. TypeOK /\ RegistryInv /\ LoadingLoRA
  BY DEF SlotsInv
<1> DEFINE D == DOMAIN slotOf
           E == DOMAIN adapterOf
           W == WantedAdapters \cup pinned
           a == Head(misses)
<1>2. a \in WantedAdapters /\ a \notin D
  <2>1. a \in ToSet(misses)
    BY <1>1, TailFacts DEF TypeOK
  <2> QED
    BY <1>1, <2>1 DEF LoadingLoRA
<1>3. D \subseteq W
  <2>1. ASSUME NEW b \in D PROVE b \in W
    <3>1. PICK i \in DOMAIN lru : lru[i] = b
      BY <1>1 DEF RegistryInv, ToSet
    <3> QED
      BY <3>1 DEF Victims
  <2> QED
    BY <2>1
<1>4. IsFiniteSet(W)
  <2>1. ids \in Seq(Adapter \cup {NoLora}) /\ pinned \subseteq Adapter
    BY <1>1 DEF TypeOK
  <2>2. WantedAdapters \subseteq Adapter
    BY <2>1 DEF WantedAdapters, ToSet
  <2>3. W \subseteq Adapter
    BY <2>1, <2>2
  <2> HIDE DEF W
  <2> QED
    BY <2>3, AdapterFacts, FS_Subset
<1>5. IsFiniteSet(D) /\ IsFiniteSet(E) /\ Cardinality(D) = Cardinality(E)
  BY <1>1, Occupied
<1>6. E \cap lost = {} /\ E \cup lost = Slot
  BY <1>1, AllSlotsFacts DEF RegistryInv
<1> HIDE DEF D, E, W, a
<1>7. IsFiniteSet(lost)
  BY <1>6, AdapterFacts, FS_Subset
<1>8. Cardinality(E) + Cardinality(lost) = NumSlots
  <2>1. Cardinality(E \cup lost) = Cardinality(E) + Cardinality(lost) - Cardinality(E \cap lost)
    BY <1>5, <1>7, FS_Union
  <2>2. Cardinality({}) = 0
    BY FS_EmptySet
  <2>3. Cardinality(E) \in Nat /\ Cardinality(lost) \in Nat
    BY <1>5, <1>7, FS_CardinalityType
  <2>4. Cardinality(Slot) = NumSlots
    BY AdapterFacts
  <2>5. NumSlots = Cardinality(E) + Cardinality(lost) - 0
    BY <1>6, <2>1, <2>2, <2>4
  <2> QED
    BY <2>3, <2>5
<1>9. Cardinality(D \cup {a}) = Cardinality(D) + 1
  BY <1>2, <1>5, FS_AddElement
<1>10. Cardinality(D \cup {a}) <= Cardinality(W)
  <2>1. D \cup {a} \subseteq W
    BY <1>2, <1>3 DEF W
  <2> QED
    BY <1>4, <2>1, FS_Subset
<1>11. Cardinality(D) \in Nat /\ Cardinality(lost) \in Nat /\ Cardinality(W) \in Nat
  BY <1>4, <1>5, <1>7, FS_CardinalityType
<1>12. Cardinality(W) > NumSlots - Cardinality(lost)
  BY <1>5, <1>8, <1>9, <1>10, <1>11
<1> QED
  BY <1>12 DEF W

\* Through evictions and loads that raise, for every number of slots, adapters, layers and
\* columns: the registry's indexes agree, every token of a step is multiplied with the
\* factors of its own adapter and no others on either path through the layers, and a step
\* is refused only if it and what is pinned do not fit.
THEOREM OwnFactors == Spec => []LoRAInv
<1>1. SlotsInv => LoRAInv
  BY OwnRows, Refusals DEF SlotsInv, LoRAInv
<1> QED
  BY <1>1, SlotsInit, SlotsKept, PTL DEF Spec

----------------------------------------------------------------------------
(* LocalBackend                                                            *)

HIDE DEF LoRAOptionsValid

\* A product of positive numbers is positive.
LEMMA ProductPositive ==
  ASSUME NEW a \in Nat, NEW b \in Nat, a >= 1, b >= 1
  PROVE  a * b >= 1
  BY Z3


Place == {"idle", "queued", "weights", "sizing", "allocate", "serving", "raised"}

Reason == {"none", "explicit", "memory", "max_model_len", "error"}

Types ==
  /\ config \in Configs
  /\ call \in [Caller -> Place]
  /\ lock \in Caller \cup {Nobody}
  /\ engine \in Nat /\ loads \in Nat /\ closing \in Nat
  /\ alive \subseteq [load : Positive, memory : Nat]
  /\ closed \in BOOLEAN /\ closedInLoad \in BOOLEAN
  /\ used \in Int
  /\ sizing \in [blocks : Nat, budget : Nat, reason : Reason]

\* The load in progress is the lock holder's, and is none of the engines that run.
Locked ==
  /\ \A c \in Caller : c \in Loading <=> lock = c
  /\ \A e \in alive : e.load <= loads
  /\ \A e, f \in alive : e.load = f.load => e = f
  /\ lock # Nobody => engine = 0 /\ loads # 0 /\ \A e \in alive : e.load # loads

\* Which engine runs: the published one until the backend is closed, then the one that
\* is being closed, unless close() came during a load.
Running ==
  /\ ~closed => closing = 0 /\ \A e \in alive : e.load = engine
  /\ closed /\ ~closedInLoad =>
       /\ engine = 0 /\ lock = Nobody /\ \A c \in Caller : call[c] # "queued"
       /\ \A e \in alive : e.load = closing
  /\ engine # 0 => \E e \in alive : e.load = engine
  /\ closing # 0 => engine # closing /\ \E e \in alive : e.load = closing

\* What the load in progress has put on the device so far.
Claimed == IF \E c \in Caller : call[c] \in {"sizing", "allocate"} THEN config.weights ELSE 0

\* The memory in use is that of the other processes, of the load and of the engine.
Account ==
  ~closed \/ ~closedInLoad =>
    /\ alive = {} => used = config.others + Claimed
    /\ \A e \in alive : used = config.others + Claimed + e.memory

Share == (config.total * config.util) \div 10

\* The pool of a size that was taken from memory.
Sized ==
  sizing.reason # "explicit" =>
    /\ \A c \in Caller : call[c] = "allocate" =>
         used + PoolBytes(sizing.blocks) + config.activations <= Share
    /\ engine # 0 => used + config.activations <= Share
    /\ engine # 0 \/ (\E c \in Caller : call[c] = "allocate") =>
         \/ PoolBytes(sizing.blocks + 1) > sizing.budget
         \/ \A tokens \in 1 .. config.maxLen :
              sizing.blocks >= config.maxSeqs * ((tokens + config.blockSize - 1) \div config.blockSize)

LInv == Types /\ Locked /\ Running /\ Account /\ Sized

----------------------------------------------------------------------------
(* Arithmetic                                                              *)

LEMMA DivBounds ==
  ASSUME NEW n \in Nat, NEW d \in Positive
  PROVE  n \div d \in Nat /\ d * (n \div d) <= n /\ n < d * (n \div d) + d
BY Z3 DEF Positive

LEMMA TimesMonotone ==
  ASSUME NEW a \in Nat, NEW b \in Nat, a <= b, NEW d \in Nat
  PROVE  d * a <= d * b
BY Z3

LEMMA DivMonotone ==
  ASSUME NEW n \in Nat, NEW m \in Nat, n <= m, NEW d \in Positive
  PROVE  n \div d <= m \div d
<1> USE LocalBounds, CallerAssumption
<1>1. /\ n \div d \in Nat /\ m \div d \in Nat
      /\ d * (n \div d) <= n /\ m < d * (m \div d) + d
  BY DivBounds
<1>2. d * (n \div d) < d * ((m \div d) + 1)
  BY <1>1 DEF Positive
<1> QED BY <1>1, <1>2, Z3 DEF Positive

LEMMA ConfigTypes ==
  ASSUME Types
  PROVE  /\ config \in Configs /\ config.total \in Nat /\ config.weights \in Nat
         /\ config.activations \in Nat /\ config.explicit \in Nat /\ config.maxLen \in Nat
         /\ config.others \in 0 .. config.total /\ config.util \in 1 .. 10
         /\ config.layers \in Positive /\ config.perLayer \in Positive
         /\ config.blockSize \in Positive /\ config.maxSeqs \in Positive
         /\ Share \in Nat /\ BytesPerBlock \in Positive
         /\ \A n \in Nat : PoolBytes(n) \in Nat
<1> USE LocalBounds, CallerAssumption
<1>1. /\ config \in Configs /\ config.total \in Nat /\ config.weights \in Nat
      /\ config.activations \in Nat /\ config.explicit \in Nat /\ config.maxLen \in Nat
      /\ config.others \in 0 .. config.total /\ config.util \in 1 .. 10
      /\ config.layers \in Positive /\ config.perLayer \in Positive
      /\ config.blockSize \in Positive /\ config.maxSeqs \in Positive
  BY DEF Types
<1>2. config.total * config.util \in Nat
  BY <1>1
<1>3. Share \in Nat
  BY <1>2, DivBounds DEF Share, Positive
<1>4. BytesPerBlock \in Positive
  BY <1>1, Z3 DEF BytesPerBlock, Positive
<1>5. \A n \in Nat : PoolBytes(n) \in Nat
  BY <1>4, Z3 DEF PoolBytes, Positive
<1> QED BY <1>1, <1>3, <1>4, <1>5

\* What size_kv_cache decides: the pool fits into what is left of the share, and one
\* block more would not, or the sequences could not use it.
LEMMA SizingFits ==
  ASSUME Types, Sizing(used).reason \notin {"explicit", "error"}
  PROVE  /\ used + PoolBytes(Sizing(used).blocks) + config.activations <= Share
         /\ \/ PoolBytes(Sizing(used).blocks + 1) > Sizing(used).budget
            \/ \A tokens \in 1 .. config.maxLen :
                 Sizing(used).blocks >= config.maxSeqs * ((tokens + config.blockSize - 1) \div config.blockSize)
<1> USE LocalBounds, CallerAssumption
<1> USE ConfigTypes
<1> DEFINE budget == Budget(used)
           fits == BlocksForMemory(budget)
<1>1. used \in Int /\ budget \in Nat
  BY DEF Types, Budget, At0, Share
<1>2. /\ fits \in Nat /\ PoolBytes(fits) <= budget /\ budget < PoolBytes(fits + 1)
  <2>1. /\ fits \in Nat /\ BytesPerBlock * fits <= budget
        /\ budget < BytesPerBlock * fits + BytesPerBlock
    BY <1>1, DivBounds DEF BlocksForMemory
  <2>2. BytesPerBlock \in Nat
    BY DEF Positive
  <2> HIDE DEF fits, budget
  <2>3. fits * BytesPerBlock = BytesPerBlock * fits /\ (fits + 1) * BytesPerBlock = BytesPerBlock * fits + BytesPerBlock
    BY <2>1, <2>2, Z3
  <2> QED BY <2>1, <2>3 DEF PoolBytes
<1>3. config.explicit = 0 /\ fits >= 1 /\ Sizing(used).budget = budget
  BY <1>2 DEF Sizing
<1>4. \/ Sizing(used).blocks = fits
      \/ Sizing(used).blocks = MaxUseful /\ MaxUseful < fits
  BY <1>2 DEF Sizing
<1> HIDE DEF fits, budget
<1>5. PoolBytes(fits) + used + config.activations <= Share
  <2>1. PoolBytes(fits) >= 1
    <3>1. BytesPerBlock \in Nat /\ BytesPerBlock >= 1
      BY DEF Positive
    <3> QED BY <1>2, <1>3, <3>1, ProductPositive DEF PoolBytes
  <2>2. budget = Share - used - config.activations
    BY <1>1, <1>2, <2>1 DEF budget, Budget, At0, Share
  <2> QED BY <1>1, <1>2, <2>2
<1>6. CASE Sizing(used).blocks = fits
  BY <1>1, <1>2, <1>3, <1>5, <1>6
<1>7. CASE Sizing(used).blocks = MaxUseful /\ MaxUseful < fits
  <2> DEFINE perSeq == (config.maxLen + config.blockSize - 1) \div config.blockSize
  <2>1. config.maxLen + config.blockSize - 1 \in Nat /\ perSeq \in Nat
    <3>1. config.maxLen + config.blockSize - 1 \in Nat
      BY DEF Positive
    <3> QED BY <3>1, DivBounds
  <2>2. MaxUseful \in Nat /\ MaxUseful >= config.maxSeqs * perSeq
    <3> HIDE DEF perSeq
    <3>1. perSeq * config.maxSeqs \in Nat /\ perSeq * config.maxSeqs = config.maxSeqs * perSeq
      BY <2>1, Z3 DEF Positive
    <3> QED BY <3>1 DEF MaxUseful, perSeq
  <2>3. PoolBytes(MaxUseful) <= PoolBytes(fits)
    <3>1. BytesPerBlock * MaxUseful <= BytesPerBlock * fits
      BY <1>2, <1>7, <2>2, TimesMonotone DEF Positive
    <3> QED BY <1>2, <2>2, <3>1, Z3 DEF PoolBytes, Positive
  <2>4. ASSUME NEW tokens \in 1 .. config.maxLen
        PROVE  MaxUseful >= config.maxSeqs * ((tokens + config.blockSize - 1) \div config.blockSize)
    <3> DEFINE need == (tokens + config.blockSize - 1) \div config.blockSize
    <3>1. need \in Nat /\ need <= perSeq
      <4>1. /\ tokens + config.blockSize - 1 \in Nat
            /\ tokens + config.blockSize - 1 <= config.maxLen + config.blockSize - 1
        BY DEF Positive
      <4> QED BY <2>1, <4>1, DivBounds, DivMonotone
    <3> HIDE DEF need, perSeq
    <3>2. config.maxSeqs * need <= config.maxSeqs * perSeq
      BY <2>1, <3>1, TimesMonotone DEF Positive
    <3>3. config.maxSeqs * need \in Nat /\ config.maxSeqs * perSeq \in Nat
      BY <2>1, <3>1, Z3 DEF Positive
    <3>4. MaxUseful >= config.maxSeqs * need
      BY <2>2, <3>2, <3>3
    <3> QED BY <3>4 DEF need
  <2> QED BY <1>1, <1>2, <1>5, <1>7, <2>2, <2>3, <2>4
<1> QED BY <1>4, <1>6, <1>7

----------------------------------------------------------------------------
(* The invariant                                                           *)

\* A new backend satisfies it.
LEMMA InitLInv == LocalInit => LInv
<1> USE LocalBounds, CallerAssumption
<1> SUFFICES ASSUME LocalInit PROVE LInv
  OBVIOUS
<1> USE DEF LocalInit, Nobody, NoSizing
<1>1. Types
  <2>1. call \in [Caller -> Place]
    BY DEF Place
  <2>2. sizing \in [blocks : Nat, budget : Nat, reason : Reason]
    BY DEF Reason
  <2>3. config.others \in Int
    OBVIOUS
  <2> QED BY <2>1, <2>2, <2>3 DEF Types
<1>2. Locked /\ Running /\ Account
  BY ConfigTypes, <1>1 DEF Locked, Loading, Running, Account, Claimed
<1>3. Sized
  BY DEF Sized
<1> QED BY <1>1, <1>2, <1>3 DEF LInv

\* A caller that moves without touching the device, the engine or the load.
LEMMA CallerMoves ==
  ASSUME LInv, NEW c \in Caller, NEW at \in {"queued", "serving", "raised"},
         call[c] \in {"idle", "queued"}, at = "queued" => ~closed,
         call' = [call EXCEPT ![c] = at],
         UNCHANGED <<config, lock, engine, loads, alive, closed, closing, closedInLoad, used, sizing>>
  PROVE  LInv'
<1> USE LocalBounds, CallerAssumption
<1>1. call'[c] = at /\ \A d \in Caller : d # c => call'[d] = call[d]
  BY DEF LInv, Types
<1>2. Types'
  BY DEF LInv, Types, Place
<1>3. Loading' = Loading
  BY <1>1 DEF Loading
<1>4. Claimed' = Claimed
  BY <1>1 DEF Claimed
<1>5. Locked' /\ Account'
  BY <1>3, <1>4 DEF LInv, Locked, Account
<1>6. Running'
  BY <1>1 DEF LInv, Running
<1>7. Sized'
  BY <1>1 DEF LInv, Sized, Share, PoolBytes, BytesPerBlock
<1> QED BY <1>2, <1>5, <1>6, <1>7 DEF LInv

\* A caller takes the lock and begins a load.
LEMMA LoadBegins ==
  ASSUME LInv, NEW c \in Caller, lock = Nobody, engine = 0,
         call[c] = "queued" \/ ~closed, call[c] \in {"idle", "queued"},
         lock' = c, loads' = loads + 1, call' = [call EXCEPT ![c] = "weights"],
         UNCHANGED <<config, engine, alive, closed, closing, closedInLoad, used, sizing>>
  PROVE  LInv'
<1> USE LocalBounds, CallerAssumption
<1> USE DEF Nobody
<1>1. call'[c] = "weights" /\ \A d \in Caller : d # c => call'[d] = call[d]
  BY DEF LInv, Types
<1>2. Types'
  BY DEF LInv, Types, Place
<1>3. Loading = {} /\ Loading' = {c}
  <2>1. Loading = {}
    BY DEF LInv, Locked, Loading
  <2> QED BY <1>1, <2>1 DEF Loading
<1>4. Claimed' = Claimed
  BY <1>1 DEF Claimed
<1>5. Locked'
  BY <1>3 DEF LInv, Types, Locked, Positive
<1>6. Running' /\ Account'
  BY <1>1, <1>4 DEF LInv, Running, Account
<1>7. Sized'
  BY <1>1 DEF LInv, Sized, Share, PoolBytes, BytesPerBlock
<1> QED BY <1>2, <1>5, <1>6, <1>7 DEF LInv

\* Calls, and callers that waited for the lock.
LEMMA CallLInv ==
  ASSUME LInv, NEW c \in Caller, Call(c) \/ Dequeue(c)
  PROVE  LInv'
<1> USE LocalBounds, CallerAssumption
<1>1. CASE Call(c)
  BY <1>1, CallerMoves, LoadBegins DEF Call, EnterLock, Sees, Contended
<1>2. CASE Dequeue(c)
  BY <1>2, CallerMoves, LoadBegins DEF Dequeue, EnterLock, Sees
<1> QED BY <1>1, <1>2

\* What holds of a caller that is loading.
LEMMA LoaderFacts ==
  ASSUME LInv, NEW c \in Caller, call[c] \in {"weights", "sizing", "allocate"}
  PROVE  /\ lock = c /\ lock # Nobody /\ engine = 0 /\ loads # 0 /\ c \in Loading
         /\ \A d \in Caller : d # c => call[d] \notin {"weights", "sizing", "allocate"}
         /\ Claimed = (IF call[c] = "weights" THEN 0 ELSE config.weights)
         /\ \A e \in alive : e.load # loads
         /\ closed => closedInLoad
         /\ ~closed => alive = {}
<1> USE LocalBounds, CallerAssumption
<1>1. c \in Loading /\ lock = c /\ lock # Nobody
  BY DEF LInv, Locked, Loading, Nobody
<1>2. \A d \in Caller : d # c => call[d] \notin {"weights", "sizing", "allocate"}
  BY <1>1 DEF LInv, Locked, Loading
<1>3. Claimed = (IF call[c] = "weights" THEN 0 ELSE config.weights)
  BY <1>2 DEF Claimed
<1>4. engine = 0 /\ loads # 0 /\ \A e \in alive : e.load # loads
  BY <1>1 DEF LInv, Locked
<1>5. closed => closedInLoad
  BY <1>1 DEF LInv, Running, Types
<1>6. ~closed => alive = {}
  BY <1>4 DEF LInv, Running, Types, Positive
<1> QED BY <1>1, <1>2, <1>3, <1>4, <1>5, <1>6

\* A load that raises gives back what it had taken.
LEMMA FailsLInv ==
  ASSUME LInv, NEW c \in Caller, call[c] \in {"weights", "sizing", "allocate"},
         Fails(c, IF call[c] = "weights" THEN 0 ELSE config.weights),
         sizing' \in [blocks : Nat, budget : Nat, reason : Reason],
         UNCHANGED <<config, loads, closed, closing, closedInLoad>>
  PROVE  LInv'
<1> USE LocalBounds, CallerAssumption
<1>1. /\ lock' = Nobody /\ call' = [call EXCEPT ![c] = "raised"] /\ used' = used - Claimed
      /\ engine' = engine /\ alive' = alive
  BY LoaderFacts DEF Fails, Sees
<1>2. call'[c] = "raised" /\ \A d \in Caller : d # c => call'[d] = call[d]
  BY <1>1 DEF LInv, Types
<1>3. Claimed \in Nat
  BY ConfigTypes DEF LInv, Claimed
<1>4. Types'
  BY <1>1, <1>3 DEF LInv, Types, Place
<1>5. Loading' = {}
  BY <1>2, LoaderFacts DEF Loading
<1>6. Claimed' = 0
  BY <1>2, LoaderFacts DEF Claimed
<1>7. Locked'
  BY <1>1, <1>5 DEF LInv, Locked, Nobody
<1>8. Running'
  BY <1>1, <1>2 DEF LInv, Running
<1>9. Account'
  <2> SUFFICES ASSUME ~closed \/ ~closedInLoad
               PROVE  alive = {} /\ used' = config.others
    BY <1>1, <1>6, ConfigTypes DEF LInv, Account
  <2>1. alive = {} /\ ~closed
    BY LoaderFacts DEF LInv, Types
  <2> QED BY <1>1, <1>3, <2>1, ConfigTypes DEF LInv, Account
<1>10. Sized'
  BY <1>1, <1>2, LoaderFacts DEF Sized
<1> QED BY <1>4, <1>7, <1>8, <1>9, <1>10 DEF LInv

\* The weights are put on the device.
LEMMA LoadWeightsLInv ==
  ASSUME LInv, NEW c \in Caller, LoadWeights(c)
  PROVE  LInv'
<1> USE LocalBounds, CallerAssumption
<1>1. CASE Fails(c, 0)
  BY <1>1, FailsLInv DEF LoadWeights, LInv, Types
<1>2. CASE ~Fails(c, 0)
  <2>1. /\ call[c] = "weights" /\ used' = used + config.weights
        /\ call' = [call EXCEPT ![c] = "sizing"]
        /\ UNCHANGED <<config, lock, engine, alive, loads, closed, closing, closedInLoad, sizing>>
    BY <1>2 DEF LoadWeights, Sees
  <2>2. call'[c] = "sizing" /\ \A d \in Caller : d # c => call'[d] = call[d]
    BY <2>1 DEF LInv, Types
  <2>3. Types'
    BY <2>1, ConfigTypes DEF LInv, Types, Place
  <2>4. Loading' = Loading /\ Claimed' = config.weights /\ Claimed = 0
    BY <2>1, <2>2, LoaderFacts DEF Loading, Claimed
  <2>5. Locked' /\ Running'
    BY <2>1, <2>2, <2>4 DEF LInv, Locked, Running
  <2>6. Account'
    BY <2>1, <2>4, LoaderFacts, ConfigTypes DEF LInv, Account, Types
  <2>7. Sized'
    BY <2>1, <2>2, LoaderFacts DEF Sized
  <2> QED BY <2>3, <2>5, <2>6, <2>7 DEF LInv
<1> QED BY <1>1, <1>2

\* size_kv_cache returns a number of blocks, a budget and a reason.
LEMMA SizingType ==
  ASSUME Types
  PROVE  Sizing(used) \in [blocks : Nat, budget : Nat, reason : Reason]
<1> USE LocalBounds, CallerAssumption
<1> USE ConfigTypes
<1>1. used \in Int /\ Budget(used) \in Nat
  BY DEF Types, Budget, At0, Share
<1>2. BlocksForMemory(Budget(used)) \in Nat
  BY <1>1, DivBounds DEF BlocksForMemory
<1>3. MaxUseful \in Nat
  <2> DEFINE perSeq == (config.maxLen + config.blockSize - 1) \div config.blockSize
  <2>1. config.maxLen + config.blockSize - 1 \in Nat
    BY DEF Positive
  <2>2. perSeq \in Nat
    BY <2>1, DivBounds
  <2> HIDE DEF perSeq
  <2>3. perSeq * config.maxSeqs \in Nat
    BY <2>2, Z3 DEF Positive
  <2> QED BY <2>3 DEF MaxUseful, perSeq
<1> QED BY <1>1, <1>2, <1>3 DEF Sizing, Reason

\* The pool is sized from what is in use now.
LEMMA SizeLInv ==
  ASSUME LInv, NEW c \in Caller, Size(c)
  PROVE  LInv'
<1> USE LocalBounds, CallerAssumption
<1>1. call[c] = "sizing" /\ sizing' = Sizing(used) /\ sizing' \in [blocks : Nat, budget : Nat, reason : Reason]
  BY SizingType DEF Size, LInv
<1>2. CASE sizing'.reason = "error" /\ Fails(c, config.weights)
  BY <1>1, <1>2, FailsLInv DEF Size
<1>3. CASE sizing'.reason # "error" /\ Sees(c, "allocate") /\ UNCHANGED <<lock, engine, alive, used>>
  <2>1. /\ call' = [call EXCEPT ![c] = "allocate"]
        /\ UNCHANGED <<config, lock, engine, alive, used, loads, closed, closing, closedInLoad>>
    BY <1>3 DEF Size, Sees
  <2>2. call'[c] = "allocate" /\ \A d \in Caller : d # c => call'[d] = call[d]
    BY <2>1 DEF LInv, Types
  <2>3. Types'
    BY <1>1, <2>1 DEF LInv, Types, Place
  <2>4. Loading' = Loading /\ Claimed' = Claimed
    BY <1>1, <2>1, <2>2, LoaderFacts DEF Loading, Claimed
  <2>5. Locked' /\ Running' /\ Account'
    BY <2>1, <2>2, <2>4 DEF LInv, Locked, Running, Account
  <2>6. Sized'
    <3> SUFFICES ASSUME sizing'.reason # "explicit"
                 PROVE  /\ used + PoolBytes(sizing'.blocks) + config.activations <= Share
                        /\ \/ PoolBytes(sizing'.blocks + 1) > sizing'.budget
                           \/ \A tokens \in 1 .. config.maxLen : sizing'.blocks >=
                                config.maxSeqs * ((tokens + config.blockSize - 1) \div config.blockSize)
      BY <1>1, <2>1, LoaderFacts DEF Sized, PoolBytes, BytesPerBlock, Share
    <3> QED BY <1>1, <1>3, SizingFits DEF LInv
  <2> QED BY <2>3, <2>5, <2>6 DEF LInv
<1> QED BY <1>2, <1>3 DEF Size

\* The pool is allocated and the engine is published.
LEMMA AllocateLInv ==
  ASSUME LInv, NEW c \in Caller, Allocate(c)
  PROVE  LInv'
<1> USE LocalBounds, CallerAssumption
<1> DEFINE pool == PoolBytes(sizing.blocks)
<1>1. call[c] = "allocate" /\ pool \in Nat
  BY ConfigTypes DEF Allocate, LInv, Types
<1>2. CASE Fails(c, config.weights)
  BY <1>1, <1>2, FailsLInv DEF Allocate, LInv, Types
<1>3. CASE ~Fails(c, config.weights)
  <2> DEFINE new == [load |-> loads, memory |-> config.weights + pool]
  <2>1. /\ used' = used + pool /\ engine' = loads /\ lock' = Nobody
        /\ alive' = alive \cup {new}
        /\ call' = [call EXCEPT ![c] = "serving"]
        /\ UNCHANGED <<config, loads, closed, closing, closedInLoad, sizing>>
    BY <1>3 DEF Allocate, Sees
  <2>2. call'[c] = "serving" /\ \A d \in Caller : d # c => call'[d] = call[d]
    BY <2>1 DEF LInv, Types
  <2>3. new \in [load : Positive, memory : Nat]
    BY <1>1, LoaderFacts, ConfigTypes DEF LInv, Types, Positive
  <2>4. Types'
    BY <1>1, <2>1, <2>3 DEF LInv, Types, Place
  <2>5. Loading' = {} /\ Claimed' = 0 /\ Claimed = config.weights
    BY <1>1, <2>2, LoaderFacts DEF Loading, Claimed
  <2>6. Locked'
    BY <1>1, <2>1, <2>5, LoaderFacts DEF LInv, Types, Locked, Nobody
  <2>7. Running'
    <3>1. ~closed => closing = 0 /\ alive = {}
      BY <1>1, LoaderFacts DEF LInv, Running
    <3>2. ~(closed /\ ~closedInLoad)
      BY <1>1, LoaderFacts
    <3>3. new.load = loads /\ loads # 0 /\ \A e \in alive : e.load # loads
      BY <1>1, LoaderFacts
    <3>4. closing # 0 => loads # closing /\ \E e \in alive : e.load = closing
      BY <3>3 DEF LInv, Running
    <3> HIDE DEF new
    <3> QED BY <2>1, <3>1, <3>2, <3>3, <3>4 DEF Running
  <2>8. Account'
    <3> SUFFICES ASSUME ~closed \/ ~closedInLoad
                 PROVE  alive = {} /\ used' = config.others + new.memory
      <4> HIDE DEF new
      <4>1. new.memory \in Nat /\ config.others \in Nat
        BY <2>3, ConfigTypes DEF LInv
      <4> QED BY <2>1, <2>5, <4>1 DEF Account
    <3>1. alive = {} /\ ~closed
      BY <1>1, LoaderFacts DEF LInv, Types
    <3> QED BY <1>1, <2>1, <2>5, <3>1, ConfigTypes DEF LInv, Account
  <2>9. Sized'
    <3> SUFFICES ASSUME sizing.reason # "explicit"
                 PROVE  /\ used + pool + config.activations <= Share
                        /\ \/ PoolBytes(sizing.blocks + 1) > sizing.budget
                           \/ \A tokens \in 1 .. config.maxLen : sizing.blocks >=
                                config.maxSeqs * ((tokens + config.blockSize - 1) \div config.blockSize)
      BY <1>1, <2>1, <2>2, LoaderFacts DEF Sized, PoolBytes, BytesPerBlock, Share
    <3> QED BY <1>1 DEF LInv, Sized
  <2> QED BY <2>4, <2>6, <2>7, <2>8, <2>9 DEF LInv
<1> QED BY <1>2, <1>3

\* close() lets go of the engine at once.
LEMMA CloseLInv == ASSUME LInv, CloseBackend PROVE LInv'
<1> USE LocalBounds, CallerAssumption
<1>1. /\ ~closed /\ closed' = TRUE /\ closedInLoad' = Contended /\ engine' = 0 /\ closing' = engine
      /\ UNCHANGED <<config, call, lock, loads, alive, used, sizing>>
  BY DEF CloseBackend
<1>2. Types'
  BY <1>1 DEF LInv, Types, Contended
<1>3. Loading' = Loading /\ Claimed' = Claimed
  BY <1>1 DEF Loading, Claimed
<1>4. Locked' /\ Account'
  BY <1>1, <1>3 DEF LInv, Locked, Account
<1>5. Running'
  BY <1>1 DEF LInv, Running, Contended
<1>6. Sized'
  <2>1. CASE \E c \in Caller : call[c] = "allocate"
    BY <1>1, <2>1 DEF LInv, Sized, Share, PoolBytes, BytesPerBlock
  <2>2. CASE ~\E c \in Caller : call[c] = "allocate"
    BY <1>1, <2>2 DEF Sized
  <2> QED BY <2>1, <2>2
<1> QED BY <1>2, <1>4, <1>5, <1>6 DEF LInv

\* The engine that was closed gives its memory back.
LEMMA ClosedLInv == ASSUME LInv, EngineClosed PROVE LInv'
<1> USE LocalBounds, CallerAssumption
<1>1. PICK e \in alive : /\ e.load = closing /\ alive' = alive \ {e} /\ used' = used - e.memory
                         /\ closing' = 0
                         /\ UNCHANGED <<config, call, lock, engine, loads, closed, closedInLoad, sizing>>
  BY DEF EngineClosed
<1>2. e.load \in Positive /\ e.memory \in Nat /\ closed
  BY <1>1 DEF LInv, Types, Running, Positive
<1>3. Types'
  BY <1>1, <1>2 DEF LInv, Types
<1>4. Loading' = Loading /\ Claimed' = Claimed /\ Claimed \in Nat
  BY <1>1, ConfigTypes DEF Loading, Claimed, LInv
<1>5. Locked'
  BY <1>1, <1>4 DEF LInv, Locked
<1>6. engine # 0 => \E f \in alive' : f.load = engine
  BY <1>1, <1>2 DEF LInv, Running, Positive
<1>7. Running'
  BY <1>1, <1>2, <1>6 DEF LInv, Running, Locked
<1>8. Account'
  <2> SUFFICES ASSUME ~closedInLoad
               PROVE  alive' = {} /\ used' = config.others + Claimed
    BY <1>1, <1>2, <1>4 DEF Account
  <2>1. \A f \in alive : f = e
    BY <1>1, <1>2 DEF LInv, Running, Locked
  <2> QED BY <1>1, <1>2, <1>4, <2>1, ConfigTypes DEF LInv, Account
<1>9. Sized'
  BY <1>1, <1>2, ConfigTypes DEF LInv, Types, Sized, Share, PoolBytes, BytesPerBlock
<1> QED BY <1>3, <1>5, <1>7, <1>8, <1>9 DEF LInv

\* The invariant holds in every reachable state.
LEMMA LocalInvariant == LocalSpec => []LInv
<1> USE LocalBounds, CallerAssumption
<1>1. LInv /\ [LocalNext]_localVars => LInv'
  <2> SUFFICES ASSUME LInv, [LocalNext]_localVars PROVE LInv'
    OBVIOUS
  <2>1. CASE UNCHANGED localVars
    <3> USE <2>1 DEF localVars, LInv
    <3>1. Loading' = Loading /\ Claimed' = Claimed
      BY DEF Loading, Claimed
    <3>2. Types' /\ Locked' /\ Running' /\ Account'
      BY <3>1 DEF Types, Locked, Running, Account
    <3>3. Sized'
      BY DEF Sized, Share, PoolBytes, BytesPerBlock
    <3> QED BY <3>2, <3>3
  <2>2. CASE LocalNext
    BY <2>2, CallLInv, LoadWeightsLInv, SizeLInv, AllocateLInv, CloseLInv, ClosedLInv DEF LocalNext
  <2> QED BY <2>1, <2>2
<1> QED BY <1>1, InitLInv, PTL DEF LocalSpec

\* Until it is closed a local backend has one engine, running or being loaded, whose
\* pool is what the device allows; once it is closed the device is as it was found,
\* unless close() came while _ensure_engine was loading.
THEOREM OneEngineOnTheDevice == LocalSpec => []DeviceShared
<1> USE LocalBounds, CallerAssumption
<1>1. LInv => OneEngine
  <2> SUFFICES ASSUME LInv, ~closed PROVE Cardinality(alive) + Cardinality(Loading) <= 1
    BY DEF OneEngine
  <2>1. CASE \E c \in Caller : c \in Loading
    <3>1. PICK c \in Caller : c \in Loading
      BY <2>1
    <3>2. alive = {} /\ Loading = {c}
      BY <3>1, LoaderFacts DEF Loading
    <3>3. Cardinality(alive) = 0 /\ Cardinality(Loading) = 1
      BY <3>2, FS_EmptySet, FS_Singleton
    <3> QED BY <3>3
  <2>2. CASE Loading = {}
    <3>1. \A e, f \in alive : e = f
      BY DEF LInv, Running, Locked
    <3>2. CASE alive = {}
      BY <2>2, <3>2, FS_EmptySet
    <3>3. CASE alive # {}
      <4>1. PICK e \in alive : TRUE
        BY <3>3
      <4>2. alive = {e}
        BY <3>1, <4>1
      <4>3. Cardinality(alive) = 1 /\ Cardinality(Loading) = 0
        BY <2>2, <4>2, FS_EmptySet, FS_Singleton
      <4> QED BY <4>3
    <3> QED BY <3>2, <3>3
  <2> QED BY <2>1, <2>2 DEF Loading
<1>2. LInv => WithinShare /\ PoolNotWasted
  BY DEF LInv, Sized, WithinShare, PoolNotWasted, Share
<1>3. LInv => CloseReleases
  <2> SUFFICES ASSUME LInv, closed, ~closedInLoad, closing = 0 PROVE alive = {} /\ used = config.others
    BY DEF CloseReleases
  <2>1. alive = {}
    BY DEF LInv, Running, Types, Positive
  <2>2. Claimed = 0
    BY DEF LInv, Running, Locked, Loading, Claimed, Nobody
  <2> QED BY <2>1, <2>2, ConfigTypes DEF LInv, Account
<1>4. LInv => DeviceShared
  BY <1>1, <1>2, <1>3 DEF DeviceShared
<1> QED BY <1>4, LocalInvariant, PTL

----------------------------------------------------------------------------
(* The driver of a baseline                                                *)

\* An open future can be found, and only calls that wait have one.
Findable ==
  \A c \in Client :
    /\ Awaits(c) => c \in pending
    /\ c \in pending => client[c] = "waiting"
    /\ client[c] = "new" => future[c] = "none"

\* A driver that steps has a thread, and the thread a batch only once it has taken one.
Paired ==
  /\ driver = "stepping" => worker # "idle"
  /\ worker \in {"idle", "called"} => generating = {}

\* While close() has not begun nobody has cancelled the driver; when it is done there is none.
Closing ==
  /\ stopped = "no" => driver # "cancelled"
  /\ stopped = "closing" => driver = "cancelled"
  /\ stopped = "yes" => driver = "none"

DInv == DriverTypeOK /\ Findable /\ Paired /\ Closing /\ NobodyStranded /\ WaitsEnd /\ OneAtATime

USE DEF driverVars

----------------------------------------------------------------------------
LEMMA EnqueueKeeps == ASSUME DInv, NEW c \in Client, Enqueue(c) PROVE DInv'
<1> USE DEF DInv, Enqueue, Awaits, Alive
<1>1. DriverTypeOK' BY DEF DriverTypeOK
<1>2. Findable' BY DEF Findable, DriverTypeOK
<1>3. (Paired /\ Closing)' BY DEF Paired, Closing
<1>4. NobodyStranded' BY DEF NobodyStranded, DriverTypeOK, Closing, Findable
<1>5. (WaitsEnd /\ OneAtATime)' BY DEF WaitsEnd, OneAtATime, DriverTypeOK
<1> QED BY <1>1, <1>2, <1>3, <1>4, <1>5

LEMMA ResumeKeeps == ASSUME DInv, NEW c \in Client, Resume(c) PROVE DInv'
<1> USE DEF DInv, Resume, Awaits
<1>1. DriverTypeOK' BY DEF DriverTypeOK
<1>2. Findable' BY DEF Findable, DriverTypeOK
<1>3. (Paired /\ Closing)' BY DEF Paired, Closing
<1>4. NobodyStranded' BY DEF NobodyStranded, DriverTypeOK
<1>5. (WaitsEnd /\ OneAtATime)' BY DEF WaitsEnd, OneAtATime, DriverTypeOK
<1> QED BY <1>1, <1>2, <1>3, <1>4, <1>5

\* The caller that leaves is out of the queue; if the worker was taking a batch meanwhile, the
\* others are in it, still queued, or the one that fell out.
LEMMA LeaveKeeps == ASSUME DInv, NEW c \in Client, Leave(c) PROVE DInv'
<1> USE DEF DInv, Leave, Awaits
<1>1. CASE held' = held \ {c} /\ UNCHANGED <<worker, generating, skipped>>
  <2>1. DriverTypeOK' BY <1>1 DEF DriverTypeOK
  <2>2. Findable' BY <1>1 DEF Findable, DriverTypeOK
  <2>3. (Paired /\ Closing)' BY <1>1 DEF Paired, Closing
  <2>4. NobodyStranded' BY <1>1 DEF NobodyStranded, DriverTypeOK
  <2>5. (WaitsEnd /\ OneAtATime)' BY <1>1 DEF WaitsEnd, OneAtATime, DriverTypeOK
  <2> QED BY <2>1, <2>2, <2>3, <2>4, <2>5
<1>2. CASE Collide(c)
  <2>1. PICK b \in Batches \ {{}}, moved \in SUBSET held :
          /\ moved # {} => wrapped.inPlace /\ moved \cap b = {} /\ Cardinality(moved) = 1
          /\ worker' = "generating" /\ generating' = b
          /\ held' = held \ (moved \cup {c})
          /\ skipped' = skipped \cup (moved \ {c})
    BY <1>2 DEF Collide
  <2>2. b \in SUBSET held /\ worker = "called" /\ stopped # "yes" BY <1>2, <2>1 DEF Batches, Collide
  <2>3. DriverTypeOK' BY <2>1, <2>2 DEF DriverTypeOK
  <2>4. Findable' BY <2>1, <2>2 DEF Findable, DriverTypeOK
  <2>5. (Paired /\ Closing)' BY <2>1, <2>2 DEF Paired, Closing
  <2>6. generating = {} BY <2>2 DEF Paired
  <2>7. NobodyStranded' BY <2>1, <2>2, <2>6 DEF NobodyStranded, DriverTypeOK
  <2>8. (WaitsEnd /\ OneAtATime)' BY <2>1, <2>2 DEF WaitsEnd, OneAtATime, DriverTypeOK
  <2> QED BY <2>3, <2>4, <2>5, <2>7, <2>8
<1> QED BY <1>1, <1>2 DEF Leave
LEMMA TakeKeeps == ASSUME DInv, Take PROVE DInv'
<1> USE DEF DInv, Take, Awaits
<1>1. CASE stopped = "yes"
  <2>1. DriverTypeOK' BY <1>1 DEF DriverTypeOK
  <2>2. (Findable /\ Paired /\ Closing)' BY <1>1 DEF Findable, Paired, Closing
  <2>3. (NobodyStranded /\ WaitsEnd /\ OneAtATime)'
    BY <1>1 DEF NobodyStranded, WaitsEnd, OneAtATime
  <2> QED BY <2>1, <2>2, <2>3
<1>2. CASE stopped # "yes"
  <2>1. PICK b \in Batches :
          /\ generating' = b /\ held' = held \ b
          /\ worker' = IF b = {} THEN "returned" ELSE "generating"
    BY <1>2
  <2>2. b \in SUBSET held BY DEF Batches
  <2>3. generating = {} BY DEF Paired
  <2>4. DriverTypeOK' BY <2>1, <2>2 DEF DriverTypeOK
  <2>5. (Findable /\ Paired /\ Closing)' BY <2>1 DEF Findable, Paired, Closing
  <2>6. NobodyStranded' BY <2>1, <2>2, <2>3 DEF NobodyStranded, DriverTypeOK
  <2>7. (WaitsEnd /\ OneAtATime)' BY <2>1 DEF WaitsEnd, OneAtATime
  <2> QED BY <2>4, <2>5, <2>6, <2>7
<1> QED BY <1>1, <1>2

LEMMA GenerateKeeps == ASSUME DInv, Generate PROVE DInv'
<1> USE DEF DInv, Generate, Awaits
<1>1. DriverTypeOK' BY DEF DriverTypeOK
<1>2. (Findable /\ Paired /\ Closing)' BY DEF Findable, Paired, Closing
<1>3. (NobodyStranded /\ WaitsEnd /\ OneAtATime)' BY DEF NobodyStranded, WaitsEnd, OneAtATime
<1> QED BY <1>1, <1>2, <1>3

LEMMA WakeKeeps == ASSUME DInv, Wake PROVE DInv'
<1> USE DEF DInv, Wake, Awaits
<1>1. DriverTypeOK' BY DEF DriverTypeOK
<1>2. (Findable /\ Paired /\ Closing)' BY DEF Findable, Paired, Closing
<1>3. (NobodyStranded /\ WaitsEnd /\ OneAtATime)' BY DEF NobodyStranded, WaitsEnd, OneAtATime
<1> QED BY <1>1, <1>2, <1>3

\* Emptying the inbox keeps the invariant, whatever futures the driver has just resolved, if the
\* calls that still wait are in the inbox or in the queue.
LEMMA FlushKeeps ==
  ASSUME DInv, NEW known \in [Client -> {"none", "open", "answered", "refused", "failed", "cancelled"}],
         Flush(known), driver \in {"gathering", "stepping"},
         \A c \in Client : known[c] = "open" => future[c] = "open",
         \A c \in Client : future[c] = "none" => known[c] = "none",
         \A c \in Client : client[c] = "waiting" /\ known[c] = "open" => c \in inbox \cup held \cup skipped,
         UNCHANGED <<wrapped, client, pending, wake, stopped, skipped>>
  PROVE  DInv'
<1> USE DEF DInv, Awaits
<1> DEFINE live == {c \in inbox \cap pending : known[c] = "open"}
<1>1. PICK refused \in SUBSET live :
        /\ future' = [c \in Client |-> IF c \in refused THEN "refused" ELSE known[c]]
        /\ held' = held \cup (live \ refused)
        /\ inbox' = {} /\ generating' = {}
        /\ driver' = IF held' = {} THEN "asleep" ELSE "stepping"
        /\ worker' = IF held' = {} THEN "idle" ELSE "called"
  BY DEF Flush
<1>2. live \in SUBSET Client /\ refused \in SUBSET Client BY DEF DriverTypeOK
<1>3. stopped = "no" BY DEF Closing, DriverTypeOK
<1>4. DriverTypeOK' BY <1>1, <1>2 DEF DriverTypeOK
<1>5. Findable' BY <1>1, <1>2 DEF Findable, DriverTypeOK
<1>6. (Paired /\ Closing)' BY <1>1, <1>3 DEF Paired, Closing
<1>7. ASSUME NEW c \in Client, Awaits(c)', c \notin skipped
      PROVE  c \in held' /\ driver' = "stepping"
  <2>1. c \notin refused /\ known[c] = "open" BY <1>1, <1>7, <1>2
  <2>2. c \in pending BY <1>7, <2>1 DEF Findable
  <2>3. c \in held' BY <1>1, <1>7, <2>1, <2>2
  <2> QED BY <1>1, <2>3
<1>8. NobodyStranded' BY <1>7 DEF NobodyStranded
<1>9. (WaitsEnd /\ OneAtATime)' BY <1>1, <1>3 DEF WaitsEnd, OneAtATime
<1> QED BY <1>4, <1>5, <1>6, <1>8, <1>9

LEMMA CollectKeeps == ASSUME DInv, Collect PROVE DInv'
<1>1. future \in [Client -> {"none", "open", "answered", "refused", "failed", "cancelled"}]
  BY DEF DInv, DriverTypeOK
<1>2. \A c \in Client : client[c] = "waiting" /\ future[c] = "open" => c \in inbox \cup held \cup skipped
  BY DEF DInv, NobodyStranded, Awaits, Collect, Closing
<1> QED BY <1>1, <1>2, FlushKeeps DEF Collect

\* A call of the batch whose future is open is answered; the others wait where they were.
LEMMA ResolveKeeps == ASSUME DInv, Resolve PROVE DInv'
<1> DEFINE known == [c \in Client |-> IF c \in generating /\ Unset(c) THEN "answered" ELSE future[c]]
<1>1. known \in [Client -> {"none", "open", "answered", "refused", "failed", "cancelled"}]
  BY DEF DInv, DriverTypeOK
<1>2. \A c \in Client : known[c] = "open" => future[c] = "open" OBVIOUS
<1>3. \A c \in Client : future[c] = "none" => known[c] = "none" BY DEF Unset
<1>4. ASSUME NEW c \in Client, client[c] = "waiting", known[c] = "open"
      PROVE  c \in inbox \cup held \cup skipped
  <2>1. Awaits(c) BY <1>2, <1>4 DEF Awaits
  <2>2. c \in pending BY <2>1 DEF DInv, Findable
  <2>3. c \notin generating BY <1>4, <2>1, <2>2 DEF Unset, Awaits
  <2> QED BY <2>1, <2>3 DEF DInv, NobodyStranded, Resolve, Closing
<1>5. Flush(known) /\ driver = "stepping" /\ UNCHANGED <<wrapped, client, pending, wake, stopped, skipped>>
  BY DEF Resolve
<1> HIDE DEF known
<1> QED BY <1>1, <1>2, <1>3, <1>4, <1>5, FlushKeeps

\* Whoever waits has an open future in `pending`, so nobody waits afterwards.
LEMMA AllFailed ==
  ASSUME DInv, FailPending, UNCHANGED client
  PROVE  /\ \A c \in Client : ~Awaits(c)'
         /\ Findable'
         /\ future' \in [Client -> {"none", "open", "answered", "refused", "failed", "cancelled"}]
         /\ pending' = {}
<1> USE DEF FailPending, Awaits, Unset
<1>1. \A c \in Client : ~Awaits(c)' BY DEF DInv, Findable
<1>2. Findable' BY <1>1 DEF DInv, Findable
<1>3. future' \in [Client -> {"none", "open", "answered", "refused", "failed", "cancelled"}]
  BY DEF DInv, DriverTypeOK
<1> QED BY <1>1, <1>2, <1>3

LEMMA DieKeeps == ASSUME DInv, Die PROVE DInv'
<1> USE DEF DInv, Die
<1>1. \A c \in Client : ~Awaits(c)' BY AllFailed
<1>2. DriverTypeOK' BY AllFailed DEF DriverTypeOK
<1>3. Findable' BY AllFailed
<1>4. (Paired /\ Closing)' BY DEF Paired, Closing, DriverTypeOK
<1>5. NobodyStranded' BY <1>1 DEF NobodyStranded
<1>6. (WaitsEnd /\ OneAtATime)' BY <1>1 DEF WaitsEnd, OneAtATime
<1> QED BY <1>2, <1>3, <1>4, <1>5, <1>6

LEMMA CloseBeginsKeeps == ASSUME DInv, CloseBegins PROVE DInv'
<1> USE DEF DInv, CloseBegins, Awaits
<1>1. DriverTypeOK' BY DEF DriverTypeOK
<1>2. (Findable /\ Paired /\ Closing)' BY DEF Findable, Paired, Closing
<1>3. (NobodyStranded /\ WaitsEnd /\ OneAtATime)' BY DEF NobodyStranded, WaitsEnd, OneAtATime
<1> QED BY <1>1, <1>2, <1>3

LEMMA CloseEndsKeeps == ASSUME DInv, CloseEnds PROVE DInv'
<1> USE DEF DInv, CloseEnds
<1>1. \A c \in Client : ~Awaits(c)' BY AllFailed
<1>2. DriverTypeOK' BY AllFailed DEF DriverTypeOK
<1>3. Findable' BY AllFailed
<1>4. (Paired /\ Closing)' BY DEF Paired, Closing
<1>5. NobodyStranded' BY <1>1 DEF NobodyStranded
<1>6. (WaitsEnd /\ OneAtATime)' BY <1>1 DEF WaitsEnd, OneAtATime
<1> QED BY <1>2, <1>3, <1>4, <1>5, <1>6

----------------------------------------------------------------------------
\* A caller of a baseline that waits has a driver, a step or close() ahead of it, close() ends
\* every wait, and one driver steps the engine (BaselineBackend).  Only a request that fell out
\* of a list which two threads changed at once may wait in vain.
THEOREM CallersServed == DriverSpec => []DriverServes
<1>1. DriverInit => DInv
  BY DEF DriverInit, DInv, DriverTypeOK, Findable, Paired, Closing, NobodyStranded, WaitsEnd, OneAtATime, Awaits
<1>2. DInv /\ [DriverNext]_driverVars => DInv'
  <2> SUFFICES ASSUME DInv, [DriverNext]_driverVars PROVE DInv' OBVIOUS
  <2>1. CASE \E c \in Client : Enqueue(c) \/ Resume(c) \/ Leave(c)
    BY <2>1, EnqueueKeeps, ResumeKeeps, LeaveKeeps
  <2>2. CASE Take \/ Generate BY <2>2, TakeKeeps, GenerateKeeps
  <2>3. CASE Wake \/ Collect \/ Resolve \/ Die BY <2>3, WakeKeeps, CollectKeeps, ResolveKeeps, DieKeeps
  <2>4. CASE CloseBegins \/ CloseEnds BY <2>4, CloseBeginsKeeps, CloseEndsKeeps
  <2>5. CASE UNCHANGED driverVars
    BY <2>5 DEF DInv, DriverTypeOK, Findable, Paired, Closing, NobodyStranded, WaitsEnd, OneAtATime, Awaits
  <2> QED BY <2>1, <2>2, <2>3, <2>4, <2>5 DEF DriverNext
<1>3. DInv => DriverServes BY DEF DInv, DriverServes
<1> QED BY <1>1, <1>2, <1>3, PTL DEF DriverSpec

----------------------------------------------------------------------------
(* The index of results                                                    *)

Stage == {"start", "written", "placed", "locked", "read", "listed", "indexed", "saved", "raised", "killed"}
Holding == {"locked", "read", "listed", "indexed"}

ResultTypeOK ==
  /\ saving \in [Saver -> Stage]
  /\ runFile \in [Names -> Saver \cup {Absent}]
  /\ index \in Seq(Saver) \cup {Torn}
  /\ temps \subseteq Saver \X {"run", "index"}
  /\ locked \subseteq Saver
  /\ entries \in [Saver -> Seq(Saver)]

\* Who is between lock and unlock holds the lock, alone.
HoldsLock == \A s \in Saver : saving[s] \in Holding => locked = {s}

\* What was read under the lock is still the index.
ReadIsCurrent == \A s \in Saver : saving[s] \in {"read", "listed"} => entries[s] = Append(Known, s)

\* Only a save that came as far as the index is in it.
EntryIsLate == \A i \in DOMAIN Known : saving[Known[i]] \in {"indexed", "saved", "killed"}

\* The run file is there before its entry.
RunIsPlaced ==
  \A s \in Saver : saving[s] \in Holding \cup {"placed", "saved"} => runFile[Target[s]] \in Saver

\* A temporary file is of the write its saver is at, unless it was killed.
TempIsOpen ==
  \A s \in Saver : /\ <<s, "run">> \in temps => saving[s] \in {"written", "killed"}
                   /\ <<s, "index">> \in temps => saving[s] \in {"listed", "killed"}

ResultInv ==
  /\ ResultTypeOK
  /\ IndexComplete /\ IndexHonest
  /\ HoldsLock /\ ReadIsCurrent /\ EntryIsLate /\ RunIsPlaced /\ TempIsOpen

\* A damaged index has no entry of a saver, so what _read_index makes of the index is a list
\* of savers with the same entries.
LEMMA KnownFacts ==
  ASSUME ResultTypeOK
  PROVE  /\ Known \in Seq(Saver)
         /\ \A s \in Saver : Contains(index, s) <=> \E i \in DOMAIN Known : Known[i] = s
<1>1. CASE index = Torn
  <2>1. Known = <<>> BY <1>1 DEF Known
  <2>2. \A s \in Saver : ~Contains(index, s) BY <1>1, SaverAssumption DEF Contains, Torn
  <2> QED BY <2>1, <2>2
<1>2. CASE index # Torn
  <2>1. Known = index /\ index \in Seq(Saver) BY <1>2 DEF Known, ResultTypeOK
  <2> QED BY <2>1 DEF Contains
<1> QED BY <1>1, <1>2

\* The entries of a list of savers with one more.
LEMMA OneMore ==
  ASSUME NEW S, NEW q \in Seq(S), NEW s \in S
  PROVE  /\ Append(q, s) \in Seq(S)
         /\ DOMAIN q = 1 .. Len(q) /\ DOMAIN Append(q, s) = 1 .. Len(q) + 1
         /\ Append(q, s)[Len(q) + 1] = s
         /\ \A i \in 1 .. Len(q) : Append(q, s)[i] = q[i]
OBVIOUS

LEMMA InitResultInv == ResultInit => ResultInv
<1> SUFFICES ASSUME ResultInit PROVE ResultInv
  OBVIOUS
<1>1. Known = <<>> BY DEF ResultInit, Known
<1>2. ResultTypeOK
  <2>1. saving \in [Saver -> Stage] /\ runFile \in [Names -> Saver \cup {Absent}]
    BY DEF ResultInit, Stage
  <2>2. entries \in [Saver -> Seq(Saver)] BY DEF ResultInit
  <2>3. index \in Seq(Saver) \cup {Torn}
    <3>1. index = <<>> \/ index = Torn BY DEF ResultInit
    <3>2. <<>> \in Seq(Saver) OBVIOUS
    <3> QED BY <3>1, <3>2
  <2> QED BY <2>1, <2>2, <2>3 DEF ResultInit, ResultTypeOK
<1>3. IndexComplete /\ HoldsLock /\ ReadIsCurrent /\ RunIsPlaced /\ TempIsOpen
  BY DEF ResultInit, IndexComplete, HoldsLock, ReadIsCurrent, RunIsPlaced, TempIsOpen, Holding
<1>4. IndexHonest /\ EntryIsLate BY <1>1 DEF IndexHonest, EntryIsLate, IsInjective
<1> QED BY <1>2, <1>3, <1>4 DEF ResultInv

\* Writing a temporary file moves nobody's lock and nobody's file.
LEMMA WriteTempInv ==
  ASSUME NEW s \in Saver, ResultInv, WriteTemp(s) PROVE ResultInv'
<1>1. /\ Known' = Known /\ index' = index /\ runFile' = runFile
      /\ locked' = locked /\ entries' = entries
  BY DEF WriteTemp, Known
<1>2. PICK what \in {"run", "index"} :
        /\ temps' = temps \cup {<<s, what>>}
        /\ what = "run" => saving[s] = "start" /\ saving' = [saving EXCEPT ![s] = "written"]
        /\ what = "index" => saving[s] = "read" /\ saving' = [saving EXCEPT ![s] = "listed"]
  BY DEF WriteTemp, To
<1>3. /\ \A t \in Saver \ {s} : saving'[t] = saving[t]
      /\ saving' \in [Saver -> Stage]
      /\ saving[s] \in {"start", "read"} /\ saving'[s] \in {"written", "listed"}
      /\ saving'[s] = "listed" => saving[s] = "read"
  BY <1>2 DEF ResultInv, ResultTypeOK, Stage
<1>4. ResultTypeOK'
  <2>1. temps' \subseteq Saver \X {"run", "index"} BY <1>2 DEF ResultInv, ResultTypeOK
  <2> QED BY <1>1, <1>3, <2>1 DEF ResultInv, ResultTypeOK
<1>5. IndexComplete' /\ IndexHonest'
  BY <1>1, <1>3 DEF ResultInv, IndexComplete, IndexHonest
<1>6. EntryIsLate'
  BY <1>1, <1>3, KnownFacts DEF ResultInv, EntryIsLate
<1>7. HoldsLock' /\ ReadIsCurrent' /\ RunIsPlaced'
  BY <1>1, <1>3 DEF ResultInv, HoldsLock, ReadIsCurrent, RunIsPlaced, Holding
<1>8. TempIsOpen'
  <2>1. CASE what = "run"
    BY <2>1, <1>2 DEF ResultInv, ResultTypeOK, TempIsOpen
  <2>2. CASE what = "index"
    BY <2>2, <1>2 DEF ResultInv, ResultTypeOK, TempIsOpen
  <2> QED BY <2>1, <2>2
<1> QED BY <1>4, <1>5, <1>6, <1>7, <1>8 DEF ResultInv

\* Replacing a run file puts a run where one was or none.
LEMMA PlaceRunInv ==
  ASSUME NEW s \in Saver, ResultInv, PlaceRun(s) PROVE ResultInv'
<1>1. Known' = Known /\ index' = index BY DEF PlaceRun, Known
<1>2. ResultTypeOK' BY DEF ResultInv, ResultTypeOK, PlaceRun, To, Stage, Names
<1>3. \A n \in Names : runFile[n] \in Saver => runFile'[n] \in Saver
  BY DEF ResultInv, ResultTypeOK, PlaceRun
<1>4. Target[s] \in Names /\ runFile'[Target[s]] \in Saver
  BY DEF ResultInv, ResultTypeOK, PlaceRun, Names
<1>5. IndexComplete' /\ EntryIsLate' /\ HoldsLock' /\ ReadIsCurrent'
  BY <1>1, KnownFacts DEF ResultInv, ResultTypeOK, PlaceRun, To, IndexComplete, EntryIsLate, HoldsLock, ReadIsCurrent, Holding
<1>6. IndexHonest'
  BY <1>1, <1>3, KnownFacts DEF ResultInv, IndexHonest, Names
<1>7. RunIsPlaced'
  BY <1>3, <1>4 DEF ResultInv, ResultTypeOK, PlaceRun, To, RunIsPlaced, Holding, Names
<1>8. TempIsOpen'
  BY DEF ResultInv, ResultTypeOK, PlaceRun, To, TempIsOpen
<1> QED BY <1>2, <1>5, <1>6, <1>7, <1>8 DEF ResultInv

\* Taking the lock needs it free, so nobody else is between lock and unlock.
LEMMA LockInv ==
  ASSUME NEW s \in Saver, ResultInv, Lock(s) PROVE ResultInv'
<1>1. Known' = Known /\ index' = index BY DEF Lock, Known
<1>2. ResultTypeOK' BY DEF ResultInv, ResultTypeOK, Lock, To, Stage
<1>3. IndexComplete' /\ IndexHonest' /\ EntryIsLate'
  BY <1>1 DEF ResultInv, ResultTypeOK, Lock, To, IndexComplete, IndexHonest, EntryIsLate
<1>4. HoldsLock'
  BY DEF ResultInv, ResultTypeOK, Lock, To, HoldsLock, Holding
<1>5. ReadIsCurrent' /\ RunIsPlaced' /\ TempIsOpen'
  BY <1>1 DEF ResultInv, ResultTypeOK, Lock, To, ReadIsCurrent, RunIsPlaced, TempIsOpen, Holding
<1> QED BY <1>2, <1>3, <1>4, <1>5 DEF ResultInv

\* Reading notes the index with the saver's own entry at its end.
LEMMA ReadIndexInv ==
  ASSUME NEW s \in Saver, ResultInv, ReadIndex(s) PROVE ResultInv'
<1>1. Known' = Known /\ index' = index BY DEF ReadIndex, Known
<1>2. ResultTypeOK'
  BY KnownFacts, OneMore DEF ResultInv, ResultTypeOK, ReadIndex, To, Stage
<1>3. IndexComplete' /\ IndexHonest' /\ EntryIsLate'
  BY <1>1 DEF ResultInv, ResultTypeOK, ReadIndex, To, IndexComplete, IndexHonest, EntryIsLate
<1>4. HoldsLock' /\ RunIsPlaced' /\ TempIsOpen'
  BY DEF ResultInv, ResultTypeOK, ReadIndex, To, HoldsLock, RunIsPlaced, TempIsOpen, Holding
<1>5. ReadIsCurrent'
  BY <1>1 DEF ResultInv, ResultTypeOK, ReadIndex, To, ReadIsCurrent
<1> QED BY <1>2, <1>3, <1>4, <1>5 DEF ResultInv

\* Replacing the index adds one entry to it: nobody else has read or replaced it since this
\* saver did.
LEMMA PlaceIndexInv ==
  ASSUME NEW s \in Saver, ResultInv, PlaceIndex(s) PROVE ResultInv'
<1>1. Known \in Seq(Saver) BY KnownFacts DEF ResultInv
<1>2. index' = Append(Known, s)
  BY DEF ResultInv, ReadIsCurrent, PlaceIndex, To
<1>3. index' # Torn
  <2>1. index'[Len(index')] \in Saver BY <1>1, <1>2, OneMore
  <2>2. Torn[Len(Torn)] = "torn" BY DEF Torn
  <2> QED BY <2>1, <2>2, SaverAssumption
<1>4. Known' = Append(Known, s) BY <1>2, <1>3 DEF Known
<1>5. ResultTypeOK'
  BY <1>1, <1>2, OneMore DEF ResultInv, ResultTypeOK, PlaceIndex, To, Stage
<1>6. \A t \in Saver \ {s} : saving[t] \notin Holding
  BY DEF ResultInv, HoldsLock, PlaceIndex, To, Holding
<1>7. \A i \in DOMAIN Known : Known[i] # s
  BY DEF ResultInv, EntryIsLate, PlaceIndex, To
<1>8. IndexComplete'
  <2> SUFFICES ASSUME NEW t \in Saver, saving'[t] \in {"indexed", "saved"}
               PROVE  \E i \in DOMAIN Known' : Known'[i] = t
    BY <1>5, KnownFacts, <1>2, <1>4 DEF IndexComplete, Contains
  <2>1. CASE t = s BY <2>1, <1>1, <1>4, OneMore
  <2>2. CASE t # s
    <3>1. Contains(index, t) BY <2>2 DEF ResultInv, ResultTypeOK, PlaceIndex, To, IndexComplete
    <3>2. PICK i \in DOMAIN Known : Known[i] = t BY <3>1, KnownFacts DEF ResultInv
    <3> QED BY <3>2, <1>1, <1>4, OneMore
  <2> QED BY <2>1, <2>2
<1>9. IndexHonest'
  <2>1. IsInjective(Known')
    BY <1>1, <1>4, <1>7, OneMore DEF ResultInv, IndexHonest, IsInjective
  <2>2. runFile' = runFile /\ runFile[Target[s]] \in Saver
    BY DEF ResultInv, RunIsPlaced, PlaceIndex, To, Holding
  <2>3. \A i \in DOMAIN Known' : runFile'[Target[Known'[i]]] \in Saver
    BY <1>1, <1>4, <2>2, OneMore DEF ResultInv, IndexHonest
  <2> QED BY <2>1, <2>3 DEF IndexHonest
<1>10. EntryIsLate'
  <2> SUFFICES ASSUME NEW i \in DOMAIN Known' PROVE saving'[Known'[i]] \in {"indexed", "saved", "killed"}
    BY DEF EntryIsLate
  <2>1. CASE i = Len(Known) + 1
    BY <2>1, <1>1, <1>4, OneMore DEF ResultInv, ResultTypeOK, PlaceIndex, To
  <2>2. CASE i # Len(Known) + 1
    <3>1. i \in DOMAIN Known /\ Known'[i] = Known[i] /\ Known[i] \in Saver
      BY <2>2, <1>1, <1>4, OneMore
    <3> QED BY <3>1, <1>7 DEF ResultInv, ResultTypeOK, EntryIsLate, PlaceIndex, To
  <2> QED BY <2>1, <2>2
<1>11. HoldsLock' /\ RunIsPlaced' /\ TempIsOpen'
  BY DEF ResultInv, ResultTypeOK, PlaceIndex, To, HoldsLock, RunIsPlaced, TempIsOpen, Holding
<1>12. ReadIsCurrent'
  BY <1>6 DEF ResultInv, ResultTypeOK, PlaceIndex, To, ReadIsCurrent, Holding
<1> QED BY <1>5, <1>8, <1>9, <1>10, <1>11, <1>12 DEF ResultInv

\* A saver that lets go of the lock leaves it free, or held by another as before.
LEMMA LeaveInv ==
  ASSUME NEW s \in Saver, ResultInv, Unlock(s) \/ SaveRaises(s) \/ Killed(s) PROVE ResultInv'
<1> USE DEF Unlock, SaveRaises, Killed, To
<1>1. /\ index' = index /\ runFile' = runFile /\ entries' = entries
      /\ locked' = locked \ {s} /\ temps' \subseteq temps
      /\ \A t \in Saver \ {s} : saving'[t] = saving[t]
      /\ saving'[s] \in {"saved", "raised", "killed"}
      /\ saving' \in [Saver -> Stage]
  BY DEF ResultInv, ResultTypeOK, Stage
<1>2. /\ saving[s] = "indexed" => saving'[s] # "raised"
      /\ saving'[s] = "saved" => saving[s] = "indexed"
      /\ saving[s] \notin {"start", "saved", "raised", "killed"}
  BY DEF ResultInv, ResultTypeOK
<1>3. Known' = Known /\ Known \in Seq(Saver) BY <1>1, KnownFacts DEF Known, ResultInv
<1>4. ResultTypeOK' BY <1>1 DEF ResultInv, ResultTypeOK
<1>5. IndexComplete' BY <1>1, <1>2 DEF ResultInv, IndexComplete
<1>6. IndexHonest' BY <1>1, <1>3 DEF ResultInv, IndexHonest
<1>7. EntryIsLate' BY <1>1, <1>2, <1>3 DEF ResultInv, EntryIsLate
<1>8. HoldsLock' BY <1>1 DEF ResultInv, HoldsLock, Holding
<1>9. ReadIsCurrent' BY <1>1, <1>3 DEF ResultInv, ReadIsCurrent
<1>10. RunIsPlaced' BY <1>1, <1>2 DEF ResultInv, RunIsPlaced, Holding
<1>11. \A t \in Saver \ {s} : /\ <<t, "run">> \in temps' => saving'[t] \in {"written", "killed"}
                              /\ <<t, "index">> \in temps' => saving'[t] \in {"listed", "killed"}
  BY <1>1 DEF ResultInv, TempIsOpen
<1>12. /\ <<s, "run">> \in temps' => saving'[s] = "killed"
       /\ <<s, "index">> \in temps' => saving'[s] = "killed"
  BY DEF ResultInv, ResultTypeOK, TempIsOpen
<1>13. TempIsOpen' BY <1>11, <1>12 DEF TempIsOpen
<1> QED BY <1>4, <1>5, <1>6, <1>7, <1>8, <1>9, <1>10, <1>13 DEF ResultInv

\* However many scenarios save side by side, whatever fails and whoever is killed, the index
\* has every run that was saved, once, and leads to whole files (append_to_index).
THEOREM IndexTrusted == ResultSpec => []IndexSound
<1>1. ResultInv /\ [ResultNext]_resultVars => ResultInv'
  <2> SUFFICES ASSUME ResultInv, [ResultNext]_resultVars PROVE ResultInv'
    OBVIOUS
  <2>1. CASE UNCHANGED resultVars
    BY <2>1 DEF ResultInv, ResultTypeOK, IndexComplete, IndexHonest, HoldsLock, ReadIsCurrent,
                EntryIsLate, RunIsPlaced, TempIsOpen, Known, resultVars
  <2>2. CASE ResultNext
    BY <2>2, WriteTempInv, PlaceRunInv, LockInv, ReadIndexInv, PlaceIndexInv, LeaveInv DEF ResultNext
  <2> QED BY <2>1, <2>2
<1>2. ResultInv => IndexSound
  <2> SUFFICES ASSUME ResultInv PROVE NoLitter
    BY DEF ResultInv, IndexSound
  <2>1. \A t \in temps : t[1] \in Saver /\ (t = <<t[1], "run">> \/ t = <<t[1], "index">>)
    BY DEF ResultInv, ResultTypeOK
  <2> QED BY <2>1 DEF ResultInv, TempIsOpen, NoLitter
<1> QED BY <1>1, <1>2, InitResultInv, PTL DEF ResultSpec
----------------------------------------------------------------------------
(* TenantQueue and TenantWait                                              *)

USE TenantAssumption, CostAssumption, MaxCostAssumption, BoundAssumption

QueueInv == QueueTypeOK /\ LagInv

\* The empty queue of a new scheduler satisfies the invariant.
LEMMA QueueInitInv == QueueInit => QueueInv
BY DEF QueueInit, QueueInv, QueueTypeOK, LagInv, Backlogged

\* _WaitQueue.push keeps it: a tenant rejoins inside the window.
LEMMA PushQueueInv ==
  ASSUME NEW t \in Tenant, QueueInv, Push(t)
  PROVE  QueueInv'
<1>1. QueueTypeOK'
  BY DEF QueueInv, QueueTypeOK, Push, RejoinAt
<1>2. CASE backlog[t] > 0
  <2>1. vtime' = vtime /\ now' = now /\ Backlogged' = Backlogged
    BY <1>2 DEF QueueInv, QueueTypeOK, Push, Backlogged
  <2> QED BY <1>1, <2>1 DEF QueueInv, LagInv
<1>3. CASE backlog[t] = 0
  <2>1. Backlogged' = Backlogged \cup {t}
    BY <1>3 DEF QueueInv, QueueTypeOK, Push, Backlogged
  <2>2. /\ now' = now
        /\ vtime'[t] >= now /\ vtime'[t] >= vtime[t]
        /\ vtime'[t] = now \/ vtime'[t] = vtime[t]
        /\ \A u \in Tenant \ {t} : vtime'[u] = vtime[u]
    BY <1>3 DEF QueueInv, QueueTypeOK, Push, RejoinAt
  <2>3. \A u \in Tenant : vtime'[u] <= now + MaxCost
    BY <2>2 DEF QueueInv, QueueTypeOK, LagInv
  <2>4. ASSUME NEW u \in Backlogged'
        PROVE  /\ now' <= vtime'[u] + MaxCost
               /\ \A v \in Tenant : vtime'[v] <= vtime'[u] + MaxCost
    <3>1. CASE u = t
      BY <1>1, <2>2, <2>3, <3>1 DEF QueueInv, QueueTypeOK
    <3>2. CASE u # t
      <4>1. u \in Backlogged /\ u \in Tenant /\ vtime'[u] = vtime[u]
        BY <2>1, <2>2, <2>4, <3>2 DEF Backlogged
      <4> QED BY <2>2, <4>1 DEF QueueInv, QueueTypeOK, LagInv
    <3> QED BY <3>1, <3>2
  <2> QED BY <1>1, <2>2, <2>3, <2>4 DEF QueueInv, LagInv
<1> QED BY <1>2, <1>3 DEF QueueInv, QueueTypeOK

\* _WaitQueue.pop keeps it: the tenant that pays was the last of the window.
LEMMA PopQueueInv ==
  ASSUME NEW t \in Tenant, QueueInv, Pop(t)
  PROVE  QueueInv'
<1>1. QueueTypeOK'
  BY DEF QueueInv, QueueTypeOK, Pop, IsNext, Backlogged, Charged
<1>2. /\ t \in Backlogged
      /\ \A u \in Backlogged : vtime[t] <= vtime[u]
  BY DEF QueueInv, QueueTypeOK, Pop, IsNext, Before, Backlogged
<1>3. /\ now' = vtime[t] + Cost[t]
      /\ vtime'[t] = vtime[t] + Cost[t]
      /\ \A u \in Tenant \ {t} : vtime'[u] = vtime[u]
      /\ Backlogged' \subseteq Backlogged
  BY DEF QueueInv, QueueTypeOK, Pop, Charged, Backlogged
<1>4. \A u \in Tenant : vtime'[u] <= vtime[t] + MaxCost
  BY <1>2, <1>3 DEF QueueInv, QueueTypeOK, LagInv
<1>5. \A u \in Backlogged' : vtime[t] <= vtime'[u]
  BY <1>2, <1>3 DEF QueueInv, QueueTypeOK, Backlogged
<1>6. \A u \in Tenant : vtime'[u] <= now' + MaxCost
  BY <1>1, <1>3, <1>4 DEF QueueInv, QueueTypeOK
<1>7. \A u \in Backlogged' : /\ now' <= vtime'[u] + MaxCost
                             /\ \A v \in Tenant : vtime'[v] <= vtime'[u] + MaxCost
  BY <1>1, <1>3, <1>4, <1>5 DEF QueueInv, QueueTypeOK, Backlogged
<1> QED BY <1>1, <1>6, <1>7 DEF QueueInv, LagInv

\* Aborts and clear() keep it: they can only shrink the set that is compared.
LEMMA AbortQueueInv ==
  ASSUME NEW t \in Tenant, QueueInv, AbortWaiting(t)
  PROVE  QueueInv'
<1>1. QueueTypeOK' /\ Backlogged' \subseteq Backlogged /\ vtime' = vtime /\ now' = now
  BY DEF QueueInv, QueueTypeOK, AbortWaiting, Backlogged
<1> QED BY <1>1 DEF QueueInv, LagInv

\* clear() returns to the empty queue.
LEMMA ClearQueueInv == ASSUME QueueInv, Clear PROVE QueueInv'
BY DEF QueueInv, QueueTypeOK, LagInv, Clear, Backlogged

\* The invariant holds in every reachable state.
LEMMA QueueInvariant == QueueSpec => []QueueInv
<1>1. QueueInv /\ [QueueNext]_queueVars => QueueInv'
  <2> SUFFICES ASSUME QueueInv, [QueueNext]_queueVars PROVE QueueInv'
    OBVIOUS
  <2>1. CASE UNCHANGED queueVars
    BY <2>1 DEF QueueInv, QueueTypeOK, LagInv, Backlogged, queueVars
  <2>2. CASE QueueNext
    BY <2>2, PushQueueInv, PopQueueInv, AbortQueueInv, ClearQueueInv DEF QueueNext
  <2> QED BY <2>1, <2>2
<1> QED BY <1>1, QueueInitInv, PTL DEF QueueSpec

\* The virtual times of the tenants that wait stay within one admission of the
\* lightest tenant, for any tenants and weights: _WaitQueue lets nobody bank
\* credit while idle and nobody fall behind while it waits.
THEOREM TenantFairness == QueueSpec => [](QueueTypeOK /\ LagBounded)
<1>1. QueueInv => QueueTypeOK /\ LagBounded
  BY DEF QueueInv, LagInv, LagBounded, Backlogged
<1> QED BY <1>1, QueueInvariant, PTL

----------------------------------------------------------------------------
(* How long a tenant waits                                                 *)

\* Who does not wait has no count; an admission of u that t had to wait for took u ahead by its
\* cost, from no further behind t than the largest lag, and each came when u was not ahead of t.
WaitInv ==
  /\ waited \in [Tenant -> [Tenant -> Nat]]
  /\ \A t \in Tenant : backlog[t] = 0 => waited[t] = NoAdmissions
  /\ \A t \in Backlogged : \A u \in Tenant \ {t} :
       \/ waited[t][u] = 0
       \/ /\ waited[t][u] * Cost[u] + vtime[t] <= vtime[u] + MaxCost
          /\ waited[t][u] * Cost[u] <= MaxCost + Cost[u]

\* At first nobody waits.
LEMMA WaitInitInv == WaitInit => WaitInv
BY DEF WaitInit, WaitInv, QueueInit, NoAdmissions, Backlogged

\* One admission more.
LEMMA OneAdmissionMore ==
  ASSUME NEW k \in Nat, NEW c \in Nat \ {0}
  PROVE  k * c \in Nat /\ (k + 1) * c = k * c + c /\ 0 * c = 0 /\ 1 * c = c
OBVIOUS

\* Where nobody is admitted, a tenant that joins has no count and one that waits stays where
\* it is.
LEMMA JoinWait ==
  ASSUME NEW t \in Tenant, QueueInv, WaitInv, Push(t), UNCHANGED waited
  PROVE  WaitInv'
<1>1. /\ \A u \in Tenant \ {t} : backlog'[u] = backlog[u] /\ vtime'[u] = vtime[u]
      /\ vtime'[t] >= vtime[t] /\ vtime'[t] \in Nat /\ vtime[t] \in Nat
      /\ backlog'[t] # 0 /\ (backlog[t] # 0 => vtime'[t] = vtime[t])
  BY DEF QueueInv, QueueTypeOK, Push, RejoinAt
<1>2. \A u \in Tenant : vtime[u] \in Nat /\ backlog[u] \in Nat /\ Cost[u] \in Nat \ {0}
  BY DEF QueueInv, QueueTypeOK
<1>3. ASSUME NEW v \in Backlogged', NEW u \in Tenant \ {v}
      PROVE  \/ waited'[v][u] = 0
             \/ /\ waited'[v][u] * Cost[u] + vtime'[v] <= vtime'[u] + MaxCost
                /\ waited'[v][u] * Cost[u] <= MaxCost + Cost[u]
  <2>1. CASE backlog[v] = 0
    BY <1>3, <2>1 DEF WaitInv, NoAdmissions, Backlogged
  <2>2. CASE backlog[v] # 0
    <3>1. v \in Backlogged /\ vtime'[v] = vtime[v] /\ vtime'[u] >= vtime[u] /\ vtime'[u] \in Nat
      BY <1>1, <1>2, <1>3, <2>2 DEF Backlogged
    <3>2. PICK k \in Nat : k = waited[v][u]
      BY <1>3, <3>1 DEF WaitInv, Backlogged
    <3>3. k * Cost[u] \in Nat /\ vtime[v] \in Nat /\ vtime[u] \in Nat /\ MaxCost \in Nat
      <4>1. u \in Tenant /\ Cost[u] \in Nat \ {0} /\ vtime[u] \in Nat
        BY <1>2, <1>3
      <4>2. v \in Tenant /\ vtime[v] \in Nat
        BY <1>2, <3>1 DEF Backlogged
      <4>3. k * Cost[u] \in Nat
        BY <4>1, OneAdmissionMore
      <4> QED
        BY <4>1, <4>2, <4>3
    <3>4. \/ k = 0
          \/ k * Cost[u] + vtime[v] <= vtime[u] + MaxCost /\ k * Cost[u] <= MaxCost + Cost[u]
      BY <3>1, <3>2 DEF WaitInv
    <3>5. waited'[v][u] = k
      BY <3>2
    <3> QED
      BY <3>1, <3>3, <3>4, <3>5
  <2> QED
    BY <2>1, <2>2
<1>4. \A v \in Tenant : backlog'[v] = 0 => waited'[v] = NoAdmissions
  BY <1>1 DEF WaitInv
<1> QED
  BY <1>3, <1>4 DEF WaitInv

\* An abort, likewise; who has nothing left waits for nobody.
LEMMA AbortWait ==
  ASSUME NEW t \in Tenant, QueueInv, WaitInv, AbortWaiting(t),
         waited' = IF backlog'[t] = 0 THEN [waited EXCEPT ![t] = NoAdmissions] ELSE waited
  PROVE  WaitInv'
<1>1. /\ vtime' = vtime /\ Backlogged' \subseteq Backlogged
      /\ \A u \in Tenant \ {t} : backlog'[u] = backlog[u]
  BY DEF QueueInv, QueueTypeOK, AbortWaiting, Backlogged
<1>2. waited \in [Tenant -> [Tenant -> Nat]] /\ NoAdmissions \in [Tenant -> Nat]
  BY DEF WaitInv, NoAdmissions
<1>3. waited' \in [Tenant -> [Tenant -> Nat]]
  BY <1>2
<1>4. \A u \in Tenant : waited'[u] = IF u = t /\ backlog'[t] = 0 THEN NoAdmissions ELSE waited[u]
  BY <1>2
<1>5. \A u \in Tenant : backlog'[u] = 0 => waited'[u] = NoAdmissions
  BY <1>1, <1>4 DEF WaitInv
<1>6. \A u \in Backlogged' : waited'[u] = waited[u]
  BY <1>4 DEF Backlogged
<1> QED
  BY <1>1, <1>3, <1>5, <1>6 DEF WaitInv

\* Whoever is admitted waits, is not ahead of the others that wait, and pays.
LEMMA PopFacts ==
  ASSUME NEW t \in Tenant, QueueInv, Pop(t)
  PROVE  /\ t \in Backlogged
         /\ \A u \in Backlogged : vtime[t] <= vtime[u]
         /\ vtime'[t] = vtime[t] + Cost[t]
         /\ \A u \in Tenant \ {t} : vtime'[u] = vtime[u] /\ backlog'[u] = backlog[u]
         /\ Backlogged' \subseteq Backlogged
<1>1. t \in Backlogged /\ \A u \in Backlogged : vtime[t] <= vtime[u]
  BY DEF QueueInv, QueueTypeOK, Pop, IsNext, Before, Backlogged
<1>2. vtime \in [Tenant -> Nat] /\ backlog \in [Tenant -> Nat]
  BY DEF QueueInv, QueueTypeOK
<1>3. /\ vtime' = [vtime EXCEPT ![t] = vtime[t] + Cost[t]]
      /\ backlog' = [backlog EXCEPT ![t] = backlog[t] - 1]
  BY DEF Pop, Charged
<1>4. /\ vtime'[t] = vtime[t] + Cost[t]
      /\ \A u \in Tenant \ {t} : vtime'[u] = vtime[u] /\ backlog'[u] = backlog[u]
  BY <1>2, <1>3
<1>5. backlog'[t] = backlog[t] - 1 /\ backlog[t] > 0 /\ backlog[t] \in Nat
  BY <1>1, <1>2, <1>3 DEF Backlogged
<1>6. Backlogged' \subseteq Backlogged
  BY <1>1, <1>4 DEF Backlogged
<1> QED
  BY <1>1, <1>4, <1>6

\* An admission: it was not ahead of any tenant that waits.
LEMMA PopWait ==
  ASSUME NEW t \in Tenant, QueueInv, WaitInv, Pop(t),
         waited' = [u \in Tenant |-> IF u = t \/ backlog[u] = 0 THEN NoAdmissions
                                     ELSE [waited[u] EXCEPT ![t] = @ + 1]]
  PROVE  WaitInv'
<1>1. /\ t \in Backlogged
      /\ \A u \in Backlogged : vtime[t] <= vtime[u]
      /\ vtime'[t] = vtime[t] + Cost[t]
      /\ \A u \in Tenant \ {t} : vtime'[u] = vtime[u] /\ backlog'[u] = backlog[u]
      /\ Backlogged' \subseteq Backlogged
  BY PopFacts
<1>2. \A u \in Tenant : vtime[u] \in Nat /\ backlog[u] \in Nat /\ Cost[u] \in Nat \ {0}
  BY DEF QueueInv, QueueTypeOK
<1>3. waited \in [Tenant -> [Tenant -> Nat]] /\ NoAdmissions \in [Tenant -> Nat]
  BY DEF WaitInv, NoAdmissions
<1>4. \A u \in Tenant : [waited[u] EXCEPT ![t] = @ + 1] \in [Tenant -> Nat]
  BY <1>3
<1>5. waited' \in [Tenant -> [Tenant -> Nat]]
  BY <1>3, <1>4
<1>6. \A u \in Tenant : backlog'[u] = 0 => waited'[u] = NoAdmissions
  BY <1>1 DEF Backlogged
<1>7. ASSUME NEW v \in Backlogged', NEW u \in Tenant \ {v}
      PROVE  \/ waited'[v][u] = 0
             \/ /\ waited'[v][u] * Cost[u] + vtime'[v] <= vtime'[u] + MaxCost
                /\ waited'[v][u] * Cost[u] <= MaxCost + Cost[u]
  <2>1. v \in Backlogged /\ v \in Tenant /\ backlog[v] # 0
    BY <1>1, <1>2, <1>7 DEF Backlogged
  <2>2. PICK k \in Nat : k = waited[v][u]
    BY <1>3, <1>7, <2>1
  <2>3. /\ k * Cost[u] \in Nat /\ (k + 1) * Cost[u] = k * Cost[u] + Cost[u] /\ 0 * Cost[u] = 0
    BY <1>2, OneAdmissionMore
  <2>4. CASE v = t
    BY <1>3, <1>7, <2>4 DEF NoAdmissions
  <2>5. CASE v # t /\ u # t
    <3>1. waited'[v][u] = waited[v][u] /\ vtime'[u] = vtime[u] /\ vtime'[v] = vtime[v]
      BY <1>1, <1>3, <1>7, <2>1, <2>5
    <3> QED
      BY <2>1, <3>1 DEF WaitInv
  <2>6. CASE v # t /\ u = t
    <3>1. waited'[v][u] = k + 1 /\ vtime'[u] = vtime[u] + Cost[u] /\ vtime'[v] = vtime[v]
      BY <1>1, <1>3, <1>7, <2>1, <2>2, <2>6
    <3>2. vtime[u] <= vtime[v]
      BY <1>1, <2>1, <2>6
    <3>3. k * Cost[u] + vtime[v] <= vtime[u] + MaxCost
      <4>1. CASE k = 0
        <5>1. vtime[v] <= vtime[u] + MaxCost
          BY <1>1, <2>1, <2>6 DEF QueueInv, LagInv
        <5> QED
          BY <1>2, <2>1, <2>3, <4>1, <5>1
      <4>2. CASE k # 0
        BY <2>1, <2>2, <4>2 DEF WaitInv
      <4> QED
        BY <4>1, <4>2
    <3>4. vtime[u] \in Nat /\ vtime[v] \in Nat /\ Cost[u] \in Nat /\ MaxCost \in Nat
      BY <1>2, <2>1
    <3>5. /\ (k + 1) * Cost[u] + vtime[v] <= vtime[u] + Cost[u] + MaxCost
          /\ (k + 1) * Cost[u] <= MaxCost + Cost[u]
      BY <2>3, <3>2, <3>3, <3>4
    <3> QED
      BY <3>1, <3>5
  <2> QED
    BY <2>4, <2>5, <2>6
<1> QED
  BY <1>5, <1>6, <1>7 DEF WaitInv

\* clear() ends all waiting.
LEMMA ClearWait ==
  ASSUME Clear, waited' = [t \in Tenant |-> NoAdmissions]
  PROVE  WaitInv'
<1>1. NoAdmissions \in [Tenant -> Nat]
  BY DEF NoAdmissions
<1> QED
  BY <1>1 DEF Clear, WaitInv, Backlogged

\* With its history, too, the queue keeps the invariant.
LEMMA WaitNextInv == QueueInv /\ WaitInv /\ [WaitNext]_waitVars => QueueInv' /\ WaitInv'
<1> SUFFICES ASSUME QueueInv, WaitInv, [WaitNext]_waitVars PROVE QueueInv' /\ WaitInv'
  OBVIOUS
<1>1. CASE UNCHANGED waitVars
  BY <1>1 DEF waitVars, queueVars, QueueInv, QueueTypeOK, LagInv, WaitInv, Backlogged
<1>2. ASSUME NEW t \in Tenant, Push(t), UNCHANGED waited PROVE QueueInv' /\ WaitInv'
  BY <1>2, PushQueueInv, JoinWait
<1>3. ASSUME NEW t \in Tenant, AbortWaiting(t),
             waited' = IF backlog'[t] = 0 THEN [waited EXCEPT ![t] = NoAdmissions] ELSE waited
      PROVE  QueueInv' /\ WaitInv'
  BY <1>3, AbortQueueInv, AbortWait
<1>4. ASSUME NEW t \in Tenant, Pop(t),
             waited' = [u \in Tenant |-> IF u = t \/ backlog[u] = 0 THEN NoAdmissions
                                         ELSE [waited[u] EXCEPT ![t] = @ + 1]]
      PROVE  QueueInv' /\ WaitInv'
  BY <1>4, PopQueueInv, PopWait
<1>5. ASSUME Clear, waited' = [t \in Tenant |-> NoAdmissions] PROVE QueueInv' /\ WaitInv'
  BY <1>5, ClearQueueInv, ClearWait
<1> QED
  BY <1>1, <1>2, <1>3, <1>4, <1>5 DEF WaitNext

\* Division by a cost, as its definition has it.
LEMMA Quotient ==
  ASSUME NEW k \in Nat, NEW c \in Nat \ {0}, NEW m \in Nat, k * c <= m + c
  PROVE  k <= m \div c + 1
<1> DEFINE q == m \div c
           r == m % c
<1>1. q \in Nat /\ r \in 0 .. c - 1 /\ m = q * c + r
  BY SMT
<1> HIDE DEF q, r
<1>2. ASSUME q + 2 <= k PROVE FALSE
  <2>1. (q + 2) * c <= k * c
    BY <1>1, <1>2
  <2>2. (q + 2) * c = q * c + c + c
    BY <1>1
  <2>3. q * c \in Nat /\ k * c \in Nat
    BY <1>1
  <2> QED
    BY <1>1, <2>1, <2>2, <2>3
<1> QED
  BY <1>1, <1>2 DEF q

\* NoAdmissions starves, for any tenants and weights: while a tenant waits in _WaitQueue, another is
\* admitted no more often than it takes to use up the largest lag, and once more.
THEOREM NobodyStarves == WaitSpec => []WaitBounded
<1>1. WaitInv => WaitBounded
  <2> SUFFICES ASSUME WaitInv, NEW t \in Backlogged, NEW u \in Tenant \ {t}
               PROVE  waited[t][u] <= MaxCost \div Cost[u] + 1
    BY DEF WaitBounded
  <2>1. PICK k \in Nat : k = waited[t][u]
    BY DEF WaitInv, Backlogged
  <2>2. Cost[u] \in Nat \ {0} /\ MaxCost \in Nat
    OBVIOUS
  <2>3. k = 0 \/ k * Cost[u] <= MaxCost + Cost[u]
    BY <2>1 DEF WaitInv
  <2>4. k * Cost[u] <= MaxCost + Cost[u]
    BY <2>2, <2>3, OneAdmissionMore
  <2> QED
    BY <2>1, <2>2, <2>4, Quotient
<1>2. WaitInit => QueueInv /\ WaitInv
  BY QueueInitInv, WaitInitInv DEF WaitInit
<1> QED
  BY <1>1, <1>2, WaitNextInv, PTL DEF WaitSpec
=============================================================================
