---------------------------- MODULE EngineProofs ----------------------------
(***************************************************************************)
(* Theorems about Engine, for every pool, budget, batch size and set of    *)
(* requests.                                                               *)
(***************************************************************************)
EXTENDS Engine, FiniteSetTheorems, SequenceTheorems, WellFoundedInduction, TLAPS

----------------------------------------------------------------------------
(* Natural numbers, and the arithmetic of blocks                           *)

\* Every set of natural numbers has a least element.
LEMMA Least ==
  ASSUME NEW T \in SUBSET Nat, T # {}
  PROVE  \E x \in T : \A y \in T : x <= y
<1>1. \E x \in T : \A y \in T : ~ (<<y, x>> \in OpToRel(<, Nat))
  BY ONLY T \subseteq Nat, T # {}, NatLessThanWellFounded, WFMin
<1>2. ASSUME NEW x \in T, NEW y \in T, ~ (<<y, x>> \in OpToRel(<, Nat))
      PROVE  x <= y
  BY <1>2 DEF OpToRel
<1> QED
  BY <1>1, <1>2

\* A set of natural numbers with a bound has a greatest element, which is its Max.
LEMMA Greatest ==
  ASSUME NEW T \in SUBSET Nat, T # {}, NEW n \in Nat, \A x \in T : x <= n
  PROVE  Max(T) \in T /\ \A x \in T : x <= Max(T)
<1> DEFINE U == {n - x : x \in T}
<1>1. U \in SUBSET Nat /\ U # {}
  <2>1. \A x \in T : n - x \in Nat
    OBVIOUS
  <2> QED
    BY <2>1
<1>2. PICK u \in U : \A v \in U : u <= v
  BY <1>1, Least
<1>3. PICK x \in T : u = n - x
  OBVIOUS
<1>4. \A y \in T : y <= x
  BY <1>2, <1>3
<1> QED
  BY <1>4 DEF Max

\* The least element of a set of natural numbers is its Min.
LEMMA Smallest ==
  ASSUME NEW T \in SUBSET Nat, T # {}
  PROVE  Min(T) \in T /\ \A x \in T : Min(T) <= x
  BY Least DEF Min

\* Quotient and remainder, and what order does to multiples of a block.
LEMMA DivMod ==
  ASSUME NEW n \in Nat
  PROVE  /\ n \div BlockSize \in Nat /\ n % BlockSize \in Offset
         /\ n = (n \div BlockSize) * BlockSize + (n % BlockSize)
<1>1. BlockSize \in Nat /\ BlockSize > 0
  BY BlockSizeAssumption
<1>2. n \div BlockSize \in Int /\ n % BlockSize \in 0 .. BlockSize - 1
  BY <1>1
<1>3. n = (n \div BlockSize) * BlockSize + (n % BlockSize)
  BY <1>1, Z3
<1>4. n \div BlockSize >= 0
  BY <1>1, Z3
<1> QED
  BY <1>2, <1>3, <1>4 DEF Offset

LEMMA Multiples ==
  ASSUME NEW i \in Nat, NEW j \in Nat
  PROVE  /\ i * BlockSize \in Nat
         /\ i <= j <=> i * BlockSize <= j * BlockSize
         /\ i < j <=> i * BlockSize < j * BlockSize
         /\ i < j => i * BlockSize + BlockSize <= j * BlockSize
         /\ i = j <=> i * BlockSize = j * BlockSize
         /\ (i + 1) * BlockSize = i * BlockSize + BlockSize
         /\ i > 0 => (i - 1) * BlockSize = i * BlockSize - BlockSize
         /\ 0 * BlockSize = 0
<1>1. BlockSize \in Nat /\ BlockSize > 0
  BY BlockSizeAssumption
<1>2. i * BlockSize \in Nat /\ j * BlockSize \in Nat
  BY <1>1, Z3
<1>3. i < j => i * BlockSize + BlockSize <= j * BlockSize
  BY <1>1, Z3
<1>4. j < i => j * BlockSize + BlockSize <= i * BlockSize
  BY <1>1, Z3
<1>5. (i + 1) * BlockSize = i * BlockSize + BlockSize
  BY <1>1, Z3
<1>6. (i - 1) * BlockSize = i * BlockSize - BlockSize
  BY <1>1, Z3
<1>7. 0 * BlockSize = 0
  BY <1>1
<1> HIDE <1>5, <1>6
<1>8. i < j \/ i = j \/ j < i
  OBVIOUS
<1>9. /\ i <= j <=> i * BlockSize <= j * BlockSize
      /\ i < j <=> i * BlockSize < j * BlockSize
      /\ i = j <=> i * BlockSize = j * BlockSize
  BY <1>1, <1>2, <1>3, <1>4, <1>8
<1> QED
  BY <1>2, <1>3, <1>5, <1>6, <1>7, <1>9

\* A table of BlocksFor(c) blocks holds c tokens, and no table of one block less does.
LEMMA BlocksForFacts ==
  ASSUME NEW c \in Nat
  PROVE  /\ BlocksFor(c) \in Nat
         /\ c <= BlocksFor(c) * BlockSize
         /\ BlocksFor(c) * BlockSize < c + BlockSize
<1>1. BlockSize \in Nat /\ BlockSize > 0
  BY BlockSizeAssumption
<1> DEFINE n == c + BlockSize - 1
<1>2. n \in Nat
  BY <1>1
<1> HIDE DEF n
<1>3. /\ n \div BlockSize \in Nat /\ n % BlockSize \in Offset
      /\ n = (n \div BlockSize) * BlockSize + (n % BlockSize)
  BY <1>2, DivMod
<1>4. BlocksFor(c) = n \div BlockSize
  BY DEF BlocksFor, n
<1>5. n % BlockSize <= BlockSize - 1 /\ n % BlockSize >= 0 /\ n % BlockSize \in Int
  BY <1>1, <1>3 DEF Offset
<1> DEFINE q == n \div BlockSize
           r == n % BlockSize
           m == q * BlockSize
<1>6. m \in Nat /\ q \in Nat
  BY <1>3, Multiples
<1>7. n = m + r /\ r \in Int /\ r <= BlockSize - 1 /\ r >= 0
  BY <1>3, <1>5
<1>8. BlocksFor(c) = q /\ n = c + BlockSize - 1
  BY <1>4 DEF n
<1>9. c <= m /\ m < c + BlockSize
  <2> HIDE DEF m, r
  <2> QED
    BY <1>1, <1>6, <1>7, <1>8
<1> QED
  BY <1>6, <1>8, <1>9

\* BlocksFor is the number it is described to be.
LEMMA BlocksForUnique ==
  ASSUME NEW c \in Nat, NEW k \in Nat, c <= k * BlockSize, k * BlockSize < c + BlockSize
  PROVE  BlocksFor(c) = k
<1> DEFINE b == BlocksFor(c)
<1>1. b \in Nat /\ c <= b * BlockSize /\ b * BlockSize < c + BlockSize
  BY BlocksForFacts
<1> HIDE DEF b
<1>2. ~ (b < k) /\ ~ (k < b)
  <2>1. b < k => b * BlockSize + BlockSize <= k * BlockSize
    BY <1>1, Multiples
  <2>2. k < b => k * BlockSize + BlockSize <= b * BlockSize
    BY <1>1, Multiples
  <2>3. b * BlockSize \in Nat /\ k * BlockSize \in Nat /\ BlockSize \in Nat
    BY <1>1, Multiples, BlockSizeAssumption
  <2> QED
    BY <1>1, <2>1, <2>2, <2>3
<1> QED
  BY <1>1, <1>2 DEF b

LEMMA BlocksForMonotone ==
  ASSUME NEW c \in Nat, NEW d \in Nat, c <= d
  PROVE  BlocksFor(c) <= BlocksFor(d)
<1> DEFINE b == BlocksFor(c)
           k == BlocksFor(d)
<1>1. /\ b \in Nat /\ c <= b * BlockSize /\ b * BlockSize < c + BlockSize
      /\ k \in Nat /\ d <= k * BlockSize
  BY BlocksForFacts
<1> HIDE DEF b, k
<1>2. k < b => k * BlockSize + BlockSize <= b * BlockSize
  BY <1>1, Multiples
<1>3. b * BlockSize \in Nat /\ k * BlockSize \in Nat /\ BlockSize \in Nat
  BY <1>1, Multiples, BlockSizeAssumption
<1>4. b <= k
  BY <1>1, <1>2, <1>3
<1> QED
  BY <1>4 DEF b, k

\* The n-th token of a sequence lies in block i, between the first and the last token of
\* that block.
LEMMA SlotFacts ==
  ASSUME NEW n \in Nat \ {0}
  PROVE  LET i == (n - 1) \div BlockSize + 1
             o == (n - 1) % BlockSize
         IN  /\ i \in Nat \ {0} /\ o \in Offset
             /\ n = i * BlockSize - BlockSize + 1 + o
             /\ i * BlockSize \in Nat
             /\ i * BlockSize - BlockSize < n /\ n <= i * BlockSize
<1> DEFINE q == (n - 1) \div BlockSize
           o == (n - 1) % BlockSize
           m == (q + 1) * BlockSize
<1>1. n - 1 \in Nat
  OBVIOUS
<1>2. q \in Nat /\ o \in Offset /\ n - 1 = q * BlockSize + o
  BY <1>1, DivMod
<1>3. /\ m = q * BlockSize + BlockSize /\ q * BlockSize \in Nat
      /\ BlockSize \in Nat /\ o \in Nat /\ o < BlockSize
  BY <1>2, Multiples, BlockSizeAssumption DEF Offset
<1> HIDE DEF q, o
<1>4. n = m - BlockSize + 1 + o /\ m \in Nat /\ m - BlockSize < n /\ n <= m
  <2> HIDE DEF m
  <2> DEFINE k == q * BlockSize
  <2>1. k \in Nat /\ m = k + BlockSize /\ n - 1 = k + o
    BY <1>2, <1>3
  <2> HIDE DEF k
  <2> QED
    BY <1>3, <2>1
<1>5. q + 1 \in Nat \ {0}
  BY <1>2
<1> QED
  BY <1>2, <1>4, <1>5 DEF q, o

\* The blocks that are full after c tokens.
LEMMA FullBlocks ==
  ASSUME NEW c \in Nat, NEW i \in Nat
  PROVE  /\ c \div BlockSize \in Nat
         /\ i <= c \div BlockSize <=> i * BlockSize <= c
<1> DEFINE q == c \div BlockSize
           r == c % BlockSize
           k == q * BlockSize
           m == i * BlockSize
<1>1. q \in Nat /\ r \in Offset /\ c = k + r
  BY DivMod
<1>2. BlockSize \in Nat /\ r \in Nat /\ r < BlockSize
  BY <1>1, BlockSizeAssumption DEF Offset
<1> HIDE DEF q, r
<1>3. /\ m \in Nat /\ k \in Nat
      /\ i <= q <=> m <= k
      /\ q < i => k + BlockSize <= m
  BY <1>1, Multiples
<1> HIDE DEF k, m
<1>4. i <= q <=> m <= c
  <2>1. c = k + r
    BY <1>1 DEF k
  <2>2. CASE i <= q
    BY <1>1, <1>2, <1>3, <2>1, <2>2
  <2>3. CASE q < i
    BY <1>1, <1>2, <1>3, <2>1, <2>3
  <2> QED
    BY <1>1, <2>2, <2>3
<1> QED
  BY <1>1, <1>4 DEF q, m

----------------------------------------------------------------------------
(* Sequences                                                               *)

\* Removing an element that occurs at most once takes out that element and keeps the
\* order of the others.
LEMMA DropFacts ==
  ASSUME NEW S, NEW s \in Seq(S), NEW x, IsInjective(s)
  PROVE  /\ Drop(s, x) \in Seq(S)
         /\ IsInjective(Drop(s, x))
         /\ ToSet(Drop(s, x)) = ToSet(s) \ {x}
         /\ \A i, j \in DOMAIN Drop(s, x) :
              i < j => \E k, l \in DOMAIN s :
                         k < l /\ Drop(s, x)[i] = s[k] /\ Drop(s, x)[j] = s[l]
<1>1. CASE ~ \E i \in 1 .. Len(s) : s[i] = x
  <2>1. Drop(s, x) = s
    BY <1>1 DEF Drop, RemoveFirst
  <2> QED
    BY <1>1, <2>1 DEF ToSet
<1>2. CASE \E i \in 1 .. Len(s) : s[i] = x
  <2> DEFINE I == {i \in 1 .. Len(s) : s[i] = x}
             k == Min(I)
             t == Drop(s, x)
  <2>1. k \in 1 .. Len(s) /\ s[k] = x
    <3>1. I \in SUBSET Nat /\ I # {}
      BY <1>2
    <3>2. k \in I
      BY <3>1, Smallest
    <3> QED
      BY <3>2
  <2>2. t = SubSeq(s, 1, k - 1) \o SubSeq(s, k + 1, Len(s))
    BY <1>2 DEF Drop, RemoveFirst, RemoveAt, SelectInSeq
  <2> HIDE DEF k, t, I
  <2>3. /\ t \in Seq(S) /\ Len(t) = Len(s) - 1
        /\ \A i \in 1 .. Len(t) : t[i] = IF i < k THEN s[i] ELSE s[i + 1]
    <3>1. Len(s) \in Nat /\ k \in 1 .. Len(s)
      BY <2>1
    <3> DEFINE u == SubSeq(s, 1, k - 1)
               v == SubSeq(s, k + 1, Len(s))
    <3>2. u \in Seq(S) /\ Len(u) = k - 1 /\ \A i \in 1 .. k - 1 : u[i] = s[i]
      BY <3>1
    <3>3. /\ v \in Seq(S) /\ Len(v) = Len(s) - k
          /\ \A i \in 1 .. Len(s) - k : v[i] = s[k + i]
      BY <3>1
    <3> HIDE DEF u, v
    <3>4. /\ u \o v \in Seq(S) /\ Len(u \o v) = Len(u) + Len(v)
          /\ \A i \in 1 .. Len(u) + Len(v) :
               (u \o v)[i] = IF i <= Len(u) THEN u[i] ELSE v[i - Len(u)]
      BY <3>2, <3>3, ConcatProperties
    <3>5. t = u \o v
      BY <2>2 DEF u, v
    <3>6. Len(t) = Len(s) - 1
      BY <3>1, <3>2, <3>3, <3>4, <3>5
    <3>7. ASSUME NEW i \in 1 .. Len(t) PROVE t[i] = IF i < k THEN s[i] ELSE s[i + 1]
      <4>1. CASE i < k
        BY <3>1, <3>2, <3>3, <3>4, <3>5, <4>1
      <4>2. CASE ~(i < k)
        <5>1. t[i] = v[i - (k - 1)] /\ i - (k - 1) \in 1 .. Len(s) - k
          BY <3>1, <3>2, <3>3, <3>4, <3>5, <3>6, <4>2
        <5> QED
          BY <3>1, <3>3, <4>2, <5>1
      <4> QED
        BY <4>1, <4>2
    <3> QED
      BY <3>4, <3>5, <3>6, <3>7
  <2> DEFINE h(i) == IF i < k THEN i ELSE i + 1
  <2>4. /\ Len(s) \in Nat /\ Len(t) \in Nat /\ DOMAIN s = 1 .. Len(s) /\ DOMAIN t = 1 .. Len(t)
        /\ \A i \in DOMAIN t : h(i) \in DOMAIN s /\ h(i) # k /\ t[i] = s[h(i)]
        /\ \A i, j \in DOMAIN t : i < j => h(i) < h(j)
    BY <2>1, <2>3
  <2>5. \A l \in DOMAIN s : l # k => \E i \in DOMAIN t : h(i) = l
    <3> TAKE l \in DOMAIN s
    <3> HAVE l # k
    <3>1. CASE l < k
      BY <2>1, <2>3, <2>4, <3>1
    <3>2. CASE l > k
      <4>1. l - 1 \in DOMAIN t /\ h(l - 1) = l
        BY <2>1, <2>3, <2>4, <3>2
      <4> QED
        BY <4>1
    <3> QED
      BY <2>1, <2>4, <3>1, <3>2
  <2> HIDE DEF h
  <2>6. IsInjective(t)
    <3> SUFFICES ASSUME NEW i \in DOMAIN t, NEW j \in DOMAIN t, t[i] = t[j], i < j
                 PROVE  FALSE
      BY <2>4 DEF IsInjective
    <3>1. h(i) = h(j)
      BY <2>4 DEF IsInjective
    <3>2. h(i) < h(j) /\ h(i) \in Nat
      BY <2>4
    <3> QED
      BY <3>1, <3>2
  <2>7. ToSet(t) = ToSet(s) \ {x}
    <3>1. \A i \in DOMAIN t : t[i] # x
      BY <2>1, <2>4 DEF IsInjective
    <3> QED
      BY <2>1, <2>4, <2>5, <3>1 DEF ToSet
  <2> QED
    BY <2>3, <2>4, <2>6, <2>7 DEF t
<1> QED
  BY <1>1, <1>2

\* Append and Tail of a sequence without repetitions.
LEMMA AppendFacts ==
  ASSUME NEW S, NEW s \in Seq(S), NEW x \in S
  PROVE  /\ Append(s, x) \in Seq(S) /\ Len(Append(s, x)) = Len(s) + 1
         /\ DOMAIN s = 1 .. Len(s) /\ DOMAIN Append(s, x) = 1 .. Len(s) + 1 /\ Len(s) \in Nat
         /\ \A i \in DOMAIN s : Append(s, x)[i] = s[i]
         /\ Append(s, x)[Len(s) + 1] = x
         /\ ToSet(Append(s, x)) = ToSet(s) \cup {x}
         /\ IsInjective(s) /\ x \notin ToSet(s) => IsInjective(Append(s, x))
<1>1. /\ Append(s, x) \in Seq(S) /\ Len(Append(s, x)) = Len(s) + 1
      /\ DOMAIN s = 1 .. Len(s) /\ DOMAIN Append(s, x) = 1 .. Len(s) + 1 /\ Len(s) \in Nat
      /\ \A i \in DOMAIN s : Append(s, x)[i] = s[i]
      /\ Append(s, x)[Len(s) + 1] = x
  OBVIOUS
<1>2. ToSet(Append(s, x)) = ToSet(s) \cup {x}
  BY <1>1 DEF ToSet
<1>3. IsInjective(s) /\ x \notin ToSet(s) => IsInjective(Append(s, x))
  BY <1>1 DEF IsInjective, ToSet
<1> QED
  BY <1>1, <1>2, <1>3

LEMMA TailFacts ==
  ASSUME NEW S, NEW s \in Seq(S), s # << >>
  PROVE  /\ Tail(s) \in Seq(S) /\ Len(Tail(s)) = Len(s) - 1 /\ Len(s) \in Nat \ {0}
         /\ DOMAIN s = 1 .. Len(s) /\ DOMAIN Tail(s) = 1 .. Len(s) - 1
         /\ \A i \in DOMAIN Tail(s) : i + 1 \in DOMAIN s /\ Tail(s)[i] = s[i + 1]
         /\ Head(s) = s[1] /\ Head(s) \in S /\ Head(s) \in ToSet(s) /\ 1 \in DOMAIN s
         /\ ToSet(s) = ToSet(Tail(s)) \cup {Head(s)}
         /\ IsInjective(s) => IsInjective(Tail(s)) /\ Head(s) \notin ToSet(Tail(s))
<1>1. /\ Tail(s) \in Seq(S) /\ Len(Tail(s)) = Len(s) - 1 /\ Len(s) \in Nat \ {0}
      /\ DOMAIN s = 1 .. Len(s) /\ DOMAIN Tail(s) = 1 .. Len(s) - 1
      /\ \A i \in DOMAIN Tail(s) : i + 1 \in DOMAIN s /\ Tail(s)[i] = s[i + 1]
      /\ Head(s) = s[1] /\ Head(s) \in S /\ 1 \in DOMAIN s
  OBVIOUS
<1>2. ASSUME NEW x \in ToSet(s), x # Head(s) PROVE x \in ToSet(Tail(s))
  <2>1. PICK i \in 1 .. Len(s) : x = s[i]
    BY <1>1 DEF ToSet
  <2>2. i - 1 \in 1 .. Len(s) - 1 /\ Tail(s)[i - 1] = s[i]
    BY <1>1, <1>2, <2>1
  <2> QED
    BY <1>1, <2>1, <2>2 DEF ToSet
<1>3. ToSet(s) = ToSet(Tail(s)) \cup {Head(s)} /\ Head(s) \in ToSet(s)
  BY <1>1, <1>2 DEF ToSet
<1>4. ASSUME IsInjective(s) PROVE IsInjective(Tail(s)) /\ Head(s) \notin ToSet(Tail(s))
  BY <1>1, <1>4 DEF IsInjective, ToSet
<1> QED
  BY <1>1, <1>3, <1>4

\* The table of prefixes by which Among computes.
IsTable(kept, items, T) ==
  /\ kept[0] = << >>
  /\ \A n \in 1 .. Len(items) :
       kept[n] = IF items[n] \in T THEN Append(kept[n - 1], items[n]) ELSE kept[n - 1]

\* Among is the last entry of such a table.
LEMMA AmongTable ==
  ASSUME NEW S, NEW items \in Seq(S), NEW T
  PROVE  \E kept \in [0 .. Len(items) -> Seq(S)] :
           Among(items, T) = kept[Len(items)] /\ IsTable(kept, items, T)
<1> DEFINE G(f, n) == IF n = 0 THEN << >>
                      ELSE IF items[n] \in T THEN Append(f[n - 1], items[n]) ELSE f[n - 1]
           Good(n) == \E f \in [0 .. n -> Seq(S)] : \A m \in 0 .. n : f[m] = G(f, m)
           Bad == {n \in 0 .. Len(items) : ~ Good(n)}
<1>1. Len(items) \in Nat /\ \A n \in 1 .. Len(items) : items[n] \in S
  OBVIOUS
<1>2. Good(0)
  <2> DEFINE f == [n \in 0 .. 0 |-> << >>]
  <2>1. f \in [0 .. 0 -> Seq(S)] /\ \A m \in 0 .. 0 : f[m] = G(f, m)
    OBVIOUS
  <2> QED
    BY <2>1
<1>3. ASSUME NEW n \in 0 .. Len(items) - 1, Good(n) PROVE Good(n + 1)
  <2>1. PICK f \in [0 .. n -> Seq(S)] : \A m \in 0 .. n : f[m] = G(f, m)
    BY <1>3
  <2> DEFINE x == IF items[n + 1] \in T THEN Append(f[n], items[n + 1]) ELSE f[n]
             g == [m \in 0 .. n + 1 |-> IF m = n + 1 THEN x ELSE f[m]]
  <2>2. x \in Seq(S)
    BY <1>1
  <2> HIDE DEF x
  <2>3. g \in [0 .. n + 1 -> Seq(S)]
    BY <2>2
  <2>4. \A m \in 0 .. n : g[m] = f[m] /\ (m > 0 => g[m - 1] = f[m - 1])
    BY <1>1
  <2>5. \A m \in 0 .. n : g[m] = G(g, m)
    <3> TAKE m \in 0 .. n
    <3>1. g[m] = f[m] /\ (m # 0 => g[m - 1] = f[m - 1]) /\ f[m] = G(f, m)
      <4>1. f[m] = G(f, m)
        BY <2>1
      <4>2. m # 0 => m > 0
        BY <1>1
      <4> HIDE DEF g, G
      <4> QED
        BY <2>4, <4>1, <4>2
    <3> HIDE DEF g
    <3>2. CASE m = 0
      BY <3>1, <3>2
    <3>3. CASE m # 0
      BY <3>1, <3>3
    <3> QED
      BY <3>2, <3>3
  <2>6. g[n + 1] = G(g, n + 1)
    BY <1>1 DEF x
  <2>7. \A m \in 0 .. n + 1 : g[m] = G(g, m)
    <3> HIDE DEF g, G
    <3> QED
      BY <1>1, <2>5, <2>6
  <2> HIDE DEF g, G
  <2> QED
    BY <2>3, <2>7
<1>4. Good(Len(items))
  <2> HIDE DEF Good
  <2> SUFFICES ASSUME Len(items) \in Bad PROVE FALSE
    BY <1>1
  <2>0. Bad \in SUBSET Nat /\ Bad # {}
    BY <1>1
  <2>1. PICK n \in Bad : \A m \in Bad : n <= m
    BY <2>0, Least
  <2>2. n # 0 /\ n - 1 \in 0 .. Len(items) - 1 /\ ~ Good(n) /\ n - 1 \notin Bad
    BY <1>1, <1>2, <2>1
  <2>3. Good(n - 1)
    BY <1>1, <2>2
  <2> QED
    BY <1>3, <2>2, <2>3
<1>5. PICK f \in [0 .. Len(items) -> Seq(S)] : \A m \in 0 .. Len(items) : f[m] = G(f, m)
  BY <1>4
<1> DEFINE kept == CHOOSE kept : kept = [n \in 0 .. Len(items) |-> G(kept, n)]
<1>6. kept = [n \in 0 .. Len(items) |-> G(kept, n)]
  <2>1. f = [n \in 0 .. Len(items) |-> G(f, n)]
    <3> HIDE DEF G
    <3> QED
      BY <1>5
  <2> HIDE DEF G
  <2> QED
    BY <2>1
<1>7. Among(items, T) = kept[Len(items)]
  BY DEF Among
<1> HIDE DEF kept
<1>8. \A n \in 0 .. Len(items) : kept[n] = f[n]
  <2> DEFINE Diff == {n \in 0 .. Len(items) : kept[n] # f[n]}
  <2> SUFFICES ASSUME Diff # {} PROVE FALSE
    OBVIOUS
  <2>0. Diff \in SUBSET Nat
    BY <1>1
  <2>1. PICK n \in Diff : \A m \in Diff : n <= m
    BY <2>0, Least
  <2>2. n \in 0 .. Len(items) /\ kept[n] # f[n] /\ kept[n] = G(kept, n) /\ f[n] = G(f, n)
    BY <1>5, <1>6
  <2>3. n # 0 => n - 1 \in 0 .. Len(items) /\ kept[n - 1] = f[n - 1]
    BY <1>1, <2>1
  <2> QED
    BY <2>2, <2>3
<1>9. kept[0] = << >> /\ \A n \in 1 .. Len(items) : kept[n] = G(kept, n) /\ n # 0
  <2>1. 0 \in 0 .. Len(items) /\ G(kept, 0) = << >>
    BY <1>1
  <2>2. \A n \in 1 .. Len(items) : n \in 0 .. Len(items) /\ n # 0
    BY <1>1
  <2>3. \A n \in 0 .. Len(items) : kept[n] = G(kept, n)
    <3> HIDE DEF G
    <3> QED
      BY <1>6
  <2> HIDE DEF G
  <2> QED
    BY <2>1, <2>2, <2>3
<1>10. kept \in [0 .. Len(items) -> Seq(S)]
  BY <1>5, <1>6, <1>8
<1> QED
  BY <1>7, <1>9, <1>10 DEF IsTable

LEMMA AmongFacts ==
  ASSUME NEW S, NEW items \in Seq(S), NEW T
  PROVE  /\ Among(items, T) \in Seq(S)
         /\ ToSet(Among(items, T)) = ToSet(items) \cap T
         /\ \E h \in [DOMAIN Among(items, T) -> DOMAIN items] :
              /\ \A i \in DOMAIN Among(items, T) : Among(items, T)[i] = items[h[i]]
              /\ \A i, j \in DOMAIN Among(items, T) : i < j => h[i] < h[j]
<1>1. PICK kept \in [0 .. Len(items) -> Seq(S)] :
        Among(items, T) = kept[Len(items)] /\ IsTable(kept, items, T)
  BY AmongTable
<1>2. /\ Len(items) \in Nat /\ DOMAIN items = 1 .. Len(items)
      /\ \A n \in 1 .. Len(items) : items[n] \in S
  OBVIOUS
<1> DEFINE Maps(h, n) ==
             /\ \A i \in DOMAIN kept[n] : kept[n][i] = items[h[i]]
             /\ \A i, j \in DOMAIN kept[n] : i < j => h[i] < h[j]
           Good(n) ==
             /\ ToSet(kept[n]) = {items[j] : j \in 1 .. n} \cap T
             /\ \E h \in [DOMAIN kept[n] -> 1 .. n] : Maps(h, n)
           Bad == {n \in 0 .. Len(items) : ~ Good(n)}
<1>3. Good(0)
  <2>1. DOMAIN kept[0] = {} /\ ToSet(kept[0]) = {}
    BY <1>1 DEF ToSet, IsTable
  <2>2. [i \in {} |-> 0] \in [DOMAIN kept[0] -> 1 .. 0] /\ Maps([i \in {} |-> 0], 0)
    BY <2>1
  <2>3. {items[j] : j \in 1 .. 0} = {}
    OBVIOUS
  <2> HIDE DEF Maps
  <2> QED
    BY <2>1, <2>2, <2>3
<1>4. ASSUME NEW n \in 1 .. Len(items), Good(n - 1) PROVE Good(n)
  <2>1. kept[n - 1] \in Seq(S) /\ items[n] \in S
    BY <1>2
  <2>2. {items[j] : j \in 1 .. n} = {items[j] : j \in 1 .. n - 1} \cup {items[n]}
    BY <1>2
  <2>3. PICK h \in [DOMAIN kept[n - 1] -> 1 .. n - 1] : Maps(h, n - 1)
    BY <1>4
  <2>4. CASE items[n] \notin T
    <3>1. kept[n] = kept[n - 1]
      BY <1>1, <2>4 DEF IsTable
    <3>2. h \in [DOMAIN kept[n] -> 1 .. n] /\ Maps(h, n)
      BY <1>2, <2>3, <3>1
    <3>3. ToSet(kept[n]) = {items[j] : j \in 1 .. n} \cap T
      BY <1>4, <2>2, <2>4, <3>1
    <3> HIDE DEF Maps
    <3> QED
      BY <3>2, <3>3
  <2>5. CASE items[n] \in T
    <3> DEFINE L == Len(kept[n - 1])
               g == [i \in 1 .. L + 1 |-> IF i = L + 1 THEN n ELSE h[i]]
    <3>1. kept[n] = Append(kept[n - 1], items[n])
      BY <1>1, <2>5 DEF IsTable
    <3>2. /\ DOMAIN kept[n - 1] = 1 .. L /\ DOMAIN kept[n] = 1 .. L + 1 /\ L \in Nat
          /\ \A i \in 1 .. L : kept[n][i] = kept[n - 1][i]
          /\ kept[n][L + 1] = items[n]
          /\ ToSet(kept[n]) = ToSet(kept[n - 1]) \cup {items[n]}
      BY <2>1, <3>1, AppendFacts
    <3> HIDE DEF L
    <3>3. g \in [DOMAIN kept[n] -> 1 .. n]
      <4>1. \A i \in 1 .. L : h[i] \in 1 .. n - 1
        BY <2>3, <3>2
      <4> QED
        BY <1>2, <3>2, <4>1
    <3>4. /\ \A i \in 1 .. L : g[i] = h[i] /\ h[i] \in 1 .. n - 1
          /\ g[L + 1] = n
          /\ \A i \in 1 .. L + 1 : i \in 1 .. L \/ i = L + 1
      BY <2>3, <3>2
    <3> HIDE DEF g
    <3>5. \A i \in DOMAIN kept[n] : kept[n][i] = items[g[i]]
      BY <2>3, <3>2, <3>4
    <3>6. \A i, j \in DOMAIN kept[n] : i < j => g[i] < g[j]
      <4> TAKE i, j \in DOMAIN kept[n]
      <4> HAVE i < j
      <4>1. i \in 1 .. L
        BY <3>2
      <4>2. CASE j \in 1 .. L
        BY <2>3, <3>2, <3>4, <4>1, <4>2
      <4>3. CASE j = L + 1
        BY <1>2, <3>4, <4>1, <4>3
      <4> QED
        BY <3>2, <3>4, <4>2, <4>3
    <3>7. Maps(g, n)
      BY <3>5, <3>6
    <3>8. ToSet(kept[n]) = {items[j] : j \in 1 .. n} \cap T
      BY <1>4, <2>2, <2>5, <3>2
    <3> HIDE DEF Maps
    <3> QED
      BY <3>3, <3>7, <3>8
  <2> QED
    BY <2>4, <2>5
<1>5. Good(Len(items))
  <2> HIDE DEF Good
  <2> SUFFICES ASSUME Len(items) \in Bad PROVE FALSE
    BY <1>2
  <2>1. Bad \in SUBSET Nat /\ Bad # {}
    BY <1>2
  <2>2. PICK n \in Bad : \A m \in Bad : n <= m
    BY <2>1, Least
  <2>3. n # 0 /\ n \in 1 .. Len(items) /\ ~ Good(n) /\ n - 1 \notin Bad
    BY <1>2, <1>3, <2>2
  <2>4. Good(n - 1)
    BY <1>2, <2>3
  <2> QED
    BY <1>4, <2>3, <2>4
<1>6. {items[j] : j \in 1 .. Len(items)} = ToSet(items)
  BY <1>2 DEF ToSet
<1>7. kept[Len(items)] \in Seq(S)
  BY <1>2
<1> QED
  BY <1>1, <1>2, <1>5, <1>6, <1>7

\* What Load computes, by its table of prefix sums.
LEMMA LoadTable ==
  ASSUME NEW items \in Seq(Item)
  PROVE  \E sum \in [0 .. Len(items) -> Int] :
           /\ Load(items) = sum[Len(items)]
           /\ sum[0] = 0
           /\ \A n \in 1 .. Len(items) : sum[n] = sum[n - 1] + (items[n].end - items[n].start)
<1> DEFINE G(f, n) == IF n = 0 THEN 0 ELSE f[n - 1] + (items[n].end - items[n].start)
           Good(n) == \E f \in [0 .. n -> Int] : \A m \in 0 .. n : f[m] = G(f, m)
           Bad == {n \in 0 .. Len(items) : ~ Good(n)}
<1>1. Len(items) \in Nat /\ \A n \in 1 .. Len(items) : items[n].end - items[n].start \in Int
  <2>1. \A n \in 1 .. Len(items) : items[n] \in Item
    OBVIOUS
  <2>2. \A x \in Item : x.end - x.start \in Int
    BY DEF Item
  <2> QED
    BY <2>1, <2>2
<1>2. Good(0)
  <2> DEFINE f == [n \in 0 .. 0 |-> 0]
  <2>1. f \in [0 .. 0 -> Int] /\ \A m \in 0 .. 0 : f[m] = G(f, m)
    OBVIOUS
  <2> QED
    BY <2>1
<1>3. ASSUME NEW n \in 0 .. Len(items) - 1, Good(n) PROVE Good(n + 1)
  <2>1. PICK f \in [0 .. n -> Int] : \A m \in 0 .. n : f[m] = G(f, m)
    BY <1>3
  <2> DEFINE x == f[n] + (items[n + 1].end - items[n + 1].start)
             g == [m \in 0 .. n + 1 |-> IF m = n + 1 THEN x ELSE f[m]]
  <2>2. x \in Int
    BY <1>1
  <2> HIDE DEF x
  <2>3. g \in [0 .. n + 1 -> Int]
    BY <2>2
  <2>4. \A m \in 0 .. n : g[m] = f[m] /\ (m > 0 => g[m - 1] = f[m - 1])
    BY <1>1
  <2>5. \A m \in 0 .. n : g[m] = G(g, m)
    <3> TAKE m \in 0 .. n
    <3>1. g[m] = f[m] /\ (m # 0 => g[m - 1] = f[m - 1]) /\ f[m] = G(f, m)
      <4>1. f[m] = G(f, m)
        BY <2>1
      <4>2. m # 0 => m > 0
        BY <1>1
      <4> HIDE DEF g, G
      <4> QED
        BY <2>4, <4>1, <4>2
    <3> HIDE DEF g
    <3>2. CASE m = 0
      BY <3>1, <3>2
    <3>3. CASE m # 0
      BY <3>1, <3>3
    <3> QED
      BY <3>2, <3>3
  <2>6. g[n + 1] = G(g, n + 1)
    BY <1>1 DEF x
  <2>7. \A m \in 0 .. n + 1 : g[m] = G(g, m)
    <3> HIDE DEF g, G
    <3> QED
      BY <1>1, <2>5, <2>6
  <2> HIDE DEF g, G
  <2> QED
    BY <2>3, <2>7
<1>4. Good(Len(items))
  <2> HIDE DEF Good
  <2> SUFFICES ASSUME Len(items) \in Bad PROVE FALSE
    BY <1>1
  <2>0. Bad \in SUBSET Nat /\ Bad # {}
    BY <1>1
  <2>1. PICK n \in Bad : \A m \in Bad : n <= m
    BY <2>0, Least
  <2>2. n # 0 /\ n - 1 \in 0 .. Len(items) - 1 /\ ~ Good(n) /\ n - 1 \notin Bad
    BY <1>1, <1>2, <2>1
  <2>3. Good(n - 1)
    BY <1>1, <2>2
  <2> QED
    BY <1>3, <2>2, <2>3
<1>5. PICK f \in [0 .. Len(items) -> Int] : \A m \in 0 .. Len(items) : f[m] = G(f, m)
  BY <1>4
<1> DEFINE sum == CHOOSE sum : sum = [n \in 0 .. Len(items) |-> G(sum, n)]
<1>6. sum = [n \in 0 .. Len(items) |-> G(sum, n)]
  <2>1. f = [n \in 0 .. Len(items) |-> G(f, n)]
    <3> HIDE DEF G
    <3> QED
      BY <1>5
  <2> HIDE DEF G
  <2> QED
    BY <2>1
<1>7. Load(items) = sum[Len(items)]
  BY DEF Load
<1> HIDE DEF sum
<1>8. \A n \in 0 .. Len(items) : sum[n] = f[n]
  <2> DEFINE Diff == {n \in 0 .. Len(items) : sum[n] # f[n]}
  <2> SUFFICES ASSUME Diff # {} PROVE FALSE
    OBVIOUS
  <2>0. Diff \in SUBSET Nat
    BY <1>1
  <2>1. PICK n \in Diff : \A m \in Diff : n <= m
    BY <2>0, Least
  <2>2. n \in 0 .. Len(items) /\ sum[n] # f[n] /\ sum[n] = G(sum, n) /\ f[n] = G(f, n)
    BY <1>5, <1>6
  <2>3. n # 0 => n - 1 \in 0 .. Len(items) /\ sum[n - 1] = f[n - 1]
    BY <1>1, <2>1
  <2> QED
    BY <2>2, <2>3
<1>9. sum[0] = 0 /\ \A n \in 1 .. Len(items) : sum[n] = G(sum, n) /\ n # 0
  <2>1. 0 \in 0 .. Len(items) /\ G(sum, 0) = 0
    BY <1>1
  <2>2. \A n \in 1 .. Len(items) : n \in 0 .. Len(items) /\ n # 0
    BY <1>1
  <2>3. \A n \in 0 .. Len(items) : sum[n] = G(sum, n)
    <3> HIDE DEF G
    <3> QED
      BY <1>6
  <2> HIDE DEF G
  <2> QED
    BY <2>1, <2>2, <2>3
<1>10. sum \in [0 .. Len(items) -> Int]
  BY <1>5, <1>6, <1>8
<1> QED
  BY <1>7, <1>9, <1>10

\* The load of a batch grows with each item by what the item computes.
LEMMA LoadFacts ==
  ASSUME NEW items \in Seq(Item), NEW item \in Item
  PROVE  /\ Load(items) \in Int
         /\ items = << >> => Load(items) = 0
         /\ Load(Append(items, item)) = Load(items) + (item.end - item.start)
<1> DEFINE longer == Append(items, item)
<1>1. /\ longer \in Seq(Item) /\ Len(longer) = Len(items) + 1 /\ Len(items) \in Nat
      /\ \A i \in 1 .. Len(items) : longer[i] = items[i]
      /\ longer[Len(items) + 1] = item
  BY AppendFacts
<1> HIDE DEF longer
<1>2. PICK s \in [0 .. Len(items) -> Int] :
        /\ Load(items) = s[Len(items)]
        /\ s[0] = 0
        /\ \A n \in 1 .. Len(items) : s[n] = s[n - 1] + (items[n].end - items[n].start)
  BY LoadTable
<1>3. PICK t \in [0 .. Len(longer) -> Int] :
        /\ Load(longer) = t[Len(longer)]
        /\ t[0] = 0
        /\ \A n \in 1 .. Len(longer) : t[n] = t[n - 1] + (longer[n].end - longer[n].start)
  BY <1>1, LoadTable
<1>4. \A n \in 0 .. Len(items) : s[n] = t[n]
  <2> DEFINE Diff == {n \in 0 .. Len(items) : s[n] # t[n]}
  <2> SUFFICES ASSUME Diff # {} PROVE FALSE
    OBVIOUS
  <2>0. Diff \in SUBSET Nat
    BY <1>1
  <2>1. PICK n \in Diff : \A m \in Diff : n <= m
    BY <2>0, Least
  <2>2. n \in 1 .. Len(items) /\ s[n] # t[n] /\ n - 1 \in 0 .. Len(items) /\ n \in 1 .. Len(longer)
    BY <1>1, <1>2, <1>3, <2>1
  <2>3. s[n - 1] = t[n - 1]
    <3>1. n \in Nat /\ ~(n <= n - 1)
      BY <1>1, <2>2
    <3>2. n - 1 \notin Diff
      BY <2>1, <3>1
    <3> QED
      BY <2>2, <3>2
  <2>4. s[n] = s[n - 1] + (items[n].end - items[n].start) /\ longer[n] = items[n]
    BY <1>1, <1>2, <2>2
  <2>5. t[n] = t[n - 1] + (longer[n].end - longer[n].start)
    BY <1>3, <2>2
  <2> QED
    BY <2>2, <2>3, <2>4, <2>5
<1>5. t[Len(items) + 1] = t[Len(items)] + (item.end - item.start) /\ Load(longer) = t[Len(items) + 1]
  <2>1. Len(items) + 1 \in 1 .. Len(longer) /\ Len(items) + 1 - 1 = Len(items)
    BY <1>1
  <2> QED
    BY <1>1, <1>3, <2>1
<1>6. Load(items) \in Int /\ Load(longer) = Load(items) + (item.end - item.start)
  BY <1>1, <1>2, <1>4, <1>5
<1>7. items = << >> => Load(items) = 0
  BY <1>2
<1> QED
  BY <1>6, <1>7 DEF longer

----------------------------------------------------------------------------
(* The inductive invariant                                                 *)

\* A table has each block once and as many as its tokens with K/V need.
TablesTidy ==
  \A id \in SeqId :
    /\ IsInjective(seqs[id].table)
    /\ Len(seqs[id].table) >= BlocksFor(seqs[id].computed)
    /\ seqs[id].computed <= NumTokens(id)

\* A block that is not full yet is in one table only, and the cache does not offer it.
OpenPrivate ==
  \A id \in SeqId : \A i \in DOMAIN seqs[id].table :
    i * BlockSize > seqs[id].computed =>
      refs[seqs[id].table[i]] = 1 /\ seqs[id].table[i] \notin DOMAIN index

MemoryInv == ManagerTypeOK /\ BlocksAccounted /\ TablesTidy /\ OpenPrivate

\* What the loops of step() carry from one visit to the next.
LoopInv ==
  /\ phase \in {"idle", "publish", "closed"} => batch = << >>
  /\ phase = "process" => batch # << >>
  /\ phase \in {"publish", "running", "admit", "emit", "execute"} =>
       /\ Load(batch) + budget.tokens = MaxBatchedTokens
       /\ Len(batch) + budget.seqs = MaxNumSeqs
  /\ IsInjective(todo)
  /\ phase = "running" => ToSet(todo) \cap Scheduled = {}
  /\ phase = "emit" =>
       \E id \in SeqId :
         /\ todo = <<id>> /\ id \notin Scheduled
         /\ seqs[id].status = "running" /\ Uncomputed(id) > 0
         /\ ~ Exhausted
  /\ \A i, j \in DOMAIN batch : batch[i].id = batch[j].id => i = j
  /\ \A i \in DOMAIN batch : seqs[batch[i].id].status # "absent"
  /\ Pending => \A i \in DOMAIN batch : batch[i].end = seqs[batch[i].id].computed
  /\ \A id \in SeqId : InFlight(id) => seqs[id].tokens # << >>

IInv == /\ MemoryInv /\ StepTypeOK /\ phase \in Phase /\ QueuesConsistent
        /\ LoopInv /\ WritesPrivate /\ AdmissionFunded

\* fcfs keeps the arrivals in line, and ids are given out in order.
InLine ==
  /\ \A i, j \in DOMAIN waiting : i < j => waiting[i] < waiting[j]
  /\ \A early, late \in SeqId :
       early < late /\ seqs[early].status = "absent" => seqs[late].status = "absent"

\* Without chunks, whatever is scheduled is scheduled to the end.
WholeInv ==
  /\ \A i \in DOMAIN batch : batch[i].end = NumTokens(batch[i].id)
  /\ phase = "emit" => ~ MustNotSplit(Uncomputed(Head(todo)))

----------------------------------------------------------------------------
(* The block manager: what one call does to blocks and tables              *)

\* The sequences whose table has a block; its reference count, by BlocksAccounted.
Holders(b) == {id \in SeqId : b \in ToSet(seqs[id].table)}

\* What a call for one sequence leaves alone: blocks in use by others only.
Untouched(id) ==
  \A b \in Block :
    refs[b] > 0 /\ b \notin ToSet(seqs[id].table) =>
      /\ kv'[b] = kv[b]
      /\ b \notin DOMAIN index => refs'[b] = refs[b] /\ b \notin DOMAIN index'

\* A block has a reference exactly when a table has it, and one reference exactly when
\* one table has it.
LEMMA Counting ==
  ASSUME MemoryInv, NEW b \in Block
  PROVE  /\ refs[b] \in Nat /\ IsFiniteSet(Holders(b)) /\ refs[b] = Cardinality(Holders(b))
         /\ \A id \in SeqId : b \in ToSet(seqs[id].table) => refs[b] > 0
         /\ \A id, other \in SeqId :
              refs[b] = 1 /\ b \in ToSet(seqs[id].table) /\ b \in ToSet(seqs[other].table)
                => id = other
         /\ refs[b] = 0 <=> b \in Pool!Allocatable
         /\ refs[b] = 0 => Holders(b) = {}
<1>1. IsFiniteSet(SeqId) /\ Holders(b) \subseteq SeqId
  BY RequestsAssumption, FS_Interval DEF SeqId, Holders
<1>2. IsFiniteSet(Holders(b)) /\ Cardinality(Holders(b)) \in Nat
  BY <1>1, FS_Subset, FS_CardinalityType
<1>3. refs[b] = Cardinality(Holders(b))
  BY DEF MemoryInv, BlocksAccounted, Holders
<1>4. refs[b] = 0 <=> Holders(b) = {}
  BY <1>2, <1>3, FS_EmptySet
<1>5. refs[b] = 0 <=> b \in Pool!Allocatable
  BY DEF MemoryInv, BlocksAccounted, Pool!ThreeStates, Pool!Allocatable
<1>6. ASSUME NEW id \in SeqId, NEW other \in SeqId, refs[b] = 1,
             b \in ToSet(seqs[id].table), b \in ToSet(seqs[other].table)
      PROVE  id = other
  <2>1. PICK x : Holders(b) = {x}
    BY <1>2, <1>3, <1>6, FS_Singleton
  <2>2. id \in Holders(b) /\ other \in Holders(b)
    BY <1>6 DEF Holders
  <2> QED
    BY <2>1, <2>2
<1>7. \A id \in SeqId : b \in ToSet(seqs[id].table) => refs[b] > 0
  BY <1>2, <1>3, <1>4 DEF Holders
<1> QED
  BY <1>2, <1>3, <1>4, <1>5, <1>6, <1>7

\* When one sequence changes, so does its part in the holders of a block, and no other.
LEMMA HoldersChange ==
  ASSUME seqs \in [SeqId -> Sequence], NEW id \in SeqId, NEW s \in Sequence,
         seqs' = [seqs EXCEPT ![id] = s], NEW b \in Block
  PROVE  /\ seqs' \in [SeqId -> Sequence]
         /\ seqs'[id] = s /\ \A other \in SeqId \ {id} : seqs'[other] = seqs[other]
         /\ Holders(b)' = IF b \in ToSet(s.table) THEN Holders(b) \cup {id} ELSE Holders(b) \ {id}
<1>1. /\ seqs' \in [SeqId -> Sequence]
      /\ seqs'[id] = s /\ \A other \in SeqId \ {id} : seqs'[other] = seqs[other]
  OBVIOUS
<1>2. Holders(b)' = {other \in SeqId : b \in ToSet(seqs'[other].table)}
  BY DEF Holders
<1> QED
  BY <1>1, <1>2 DEF Holders

\* What a table lists are blocks.
LEMMA TableBlock ==
  ASSUME NEW s \in Sequence, NEW i \in DOMAIN s.table
  PROVE  s.table[i] \in Block /\ s.table[i] \in ToSet(s.table)
<1>1. s.table \in Seq(Block)
  BY DEF Sequence
<1> QED
  BY <1>1 DEF ToSet

\* The parts of MemoryInv that speak of tables, when one sequence changes.
LEMMA TablesChange ==
  ASSUME MemoryInv, NEW id \in SeqId, NEW s \in Sequence,
         seqs' = [seqs EXCEPT ![id] = s],
         IsInjective(s.table), Len(s.table) >= BlocksFor(s.computed), s.computed <= Len(s.tokens),
         Untouched(id),
         \A i \in DOMAIN s.table :
           i * BlockSize > s.computed => refs'[s.table[i]] = 1 /\ s.table[i] \notin DOMAIN index'
  PROVE  TablesTidy' /\ OpenPrivate'
<1>1. seqs \in [SeqId -> Sequence]
  BY DEF MemoryInv, ManagerTypeOK
<1>2. seqs'[id] = s /\ \A other \in SeqId \ {id} : seqs'[other] = seqs[other]
  BY <1>1
<1>3. TablesTidy'
  <2> SUFFICES ASSUME NEW other \in SeqId
               PROVE  /\ IsInjective(seqs'[other].table)
                      /\ Len(seqs'[other].table) >= BlocksFor(seqs'[other].computed)
                      /\ seqs'[other].computed <= Len(seqs'[other].tokens)
    BY DEF TablesTidy, NumTokens, BlocksFor
  <2>1. CASE other = id
    BY <1>2, <2>1
  <2>2. CASE other # id
    BY <1>2, <2>2 DEF MemoryInv, TablesTidy, NumTokens
  <2> QED
    BY <2>1, <2>2
<1>4. OpenPrivate'
  <2> SUFFICES ASSUME NEW other \in SeqId, NEW i \in DOMAIN seqs'[other].table,
                      i * BlockSize > seqs'[other].computed
               PROVE  /\ refs'[seqs'[other].table[i]] = 1
                      /\ seqs'[other].table[i] \notin DOMAIN index'
    BY DEF OpenPrivate
  <2>1. CASE other = id
    BY <1>2, <2>1
  <2>2. CASE other # id
    <3> DEFINE b == seqs[other].table[i]
    <3>1. seqs'[other] = seqs[other] /\ seqs[other] \in Sequence
      BY <1>1, <1>2, <2>2
    <3>2. b \in Block /\ b \in ToSet(seqs[other].table)
      BY <3>1, TableBlock
    <3>3. refs[b] = 1 /\ b \notin DOMAIN index
      BY <3>1 DEF MemoryInv, OpenPrivate
    <3>4. b \notin ToSet(seqs[id].table)
      BY <2>2, <3>2, <3>3, Counting
    <3>5. refs'[b] = refs[b] /\ b \notin DOMAIN index'
      BY <3>2, <3>3, <3>4 DEF Untouched
    <3> QED
      BY <3>1, <3>3, <3>5
  <2> QED
    BY <2>1, <2>2
<1> QED
  BY <1>3, <1>4

\* The entries a sequence offers the cache are hashes of its full, computed blocks.
LEMMA EntriesFacts ==
  ASSUME MemoryInv, NEW id \in SeqId
  PROVE  /\ NumFull(id) \in Nat
         /\ DOMAIN NewEntries(id) \subseteq ToSet(seqs[id].table)
         /\ \A b \in DOMAIN NewEntries(id) :
              \E i \in DOMAIN seqs[id].table :
                /\ i * BlockSize <= seqs[id].computed
                /\ b = seqs[id].table[i] /\ NewEntries(id)[b] = BlockHash(id, i)
                /\ BlockHash(id, i) \in Context
<1> DEFINE s == seqs[id]
           new == s.published + 1 .. NumFull(id)
<1>1. s \in Sequence /\ s.computed <= Len(s.tokens)
  BY DEF MemoryInv, ManagerTypeOK, TablesTidy, NumTokens
<1>2. /\ s.table \in Seq(Block) /\ s.computed \in Nat /\ s.published \in Nat
      /\ s.tokens \in Seq(Token) /\ s.lora \in Lora
      /\ DOMAIN s.table = 1 .. Len(s.table) /\ Len(s.table) \in Nat
  BY <1>1 DEF Sequence
<1>3. /\ NumFull(id) \in Nat /\ NumFull(id) <= Len(s.table)
      /\ NumFull(id) <= s.computed \div BlockSize
  <2> DEFINE q == s.computed \div BlockSize
             T == {q, Len(s.table)}
  <2>1. q \in Nat
    BY <1>2, FullBlocks
  <2> HIDE DEF q
  <2>2. T \in SUBSET Nat /\ T # {}
    BY <1>2, <2>1
  <2>3. Min(T) \in T /\ \A x \in T : Min(T) <= x
    BY <2>2, Smallest
  <2>4. NumFull(id) = Min(T)
    BY DEF NumFull, q
  <2> QED
    BY <1>2, <2>1, <2>3, <2>4 DEF q
<1>4. DOMAIN NewEntries(id) = {s.table[i] : i \in new}
  BY DEF NewEntries
<1>5. \A i \in new : i \in DOMAIN s.table /\ i \in Nat /\ i <= s.computed \div BlockSize
  <2>1. \A i \in new : i \in Int /\ i >= 1 /\ i <= NumFull(id)
    BY <1>2, <1>3
  <2>2. s.computed \div BlockSize \in Nat
    BY <1>2, FullBlocks
  <2> QED
    BY <1>2, <1>3, <2>1, <2>2
<1>6. ASSUME NEW b \in DOMAIN NewEntries(id)
      PROVE  \E i \in DOMAIN s.table :
                /\ i * BlockSize <= s.computed
                /\ b = s.table[i] /\ NewEntries(id)[b] = BlockHash(id, i)
                /\ BlockHash(id, i) \in Context
  <2> DEFINE i == CHOOSE k \in new : s.table[k] = b
  <2>1. i \in new /\ s.table[i] = b
    BY <1>4
  <2>2. NewEntries(id)[b] = BlockHash(id, i)
    BY <1>4 DEF NewEntries
  <2> HIDE DEF i, new
  <2>3. i \in DOMAIN s.table /\ i \in Nat /\ i * BlockSize <= s.computed
    BY <1>2, <1>5, <2>1, FullBlocks
  <2>4. i * BlockSize \in Nat /\ i * BlockSize <= Len(s.tokens)
    <3>1. i * BlockSize \in Nat
      BY <2>3, Multiples
    <3>2. Len(s.tokens) \in Nat
      BY <1>2
    <3> QED
      BY <1>1, <1>2, <2>3, <3>1, <3>2
  <2>5. SubSeq(s.tokens, 1, i * BlockSize) \in Seq(Token)
    <3> DEFINE k == i * BlockSize
    <3>1. k \in Nat /\ k <= Len(s.tokens)
      BY <2>4
    <3> HIDE DEF k
    <3>2. SubSeq(s.tokens, 1, k) \in Seq(Token)
      BY <1>2, <3>1
    <3> QED
      BY <3>2 DEF k
  <2>6. BlockHash(id, i) \in Context
    BY <1>2, <2>5 DEF BlockHash, ContextAt, Context
  <2> QED
    BY <2>1, <2>2, <2>3, <2>6
<1> QED
  BY <1>2, <1>3, <1>4, <1>5, <1>6 DEF ToSet

\* Inserting entries with different hashes keeps what the cache has, adds some of the
\* entries, and never two blocks for one hash.
LEMMA InsertedFacts ==
  ASSUME MemoryInv, NEW id \in SeqId, Pool!IsInjective(NewEntries(id)),
         NEW f, f = IF PrefixCaching THEN Pool!Inserted(NewEntries(id)) ELSE index
  PROVE  /\ DOMAIN f \in SUBSET Block /\ f \in [DOMAIN f -> Context]
         /\ DOMAIN index \subseteq DOMAIN f
         /\ \A b \in DOMAIN index : f[b] = index[b]
         /\ \A b \in DOMAIN f \ DOMAIN index :
              b \in DOMAIN NewEntries(id) /\ f[b] = NewEntries(id)[b]
         /\ \A b, c \in DOMAIN f : f[b] = f[c] => b = c
<1> DEFINE e == NewEntries(id)
<1>1. /\ DOMAIN index \in SUBSET Block /\ index \in [DOMAIN index -> Context]
      /\ \A b, c \in DOMAIN index : index[b] = index[c] => b = c
  BY DEF MemoryInv, ManagerTypeOK, BlocksAccounted, Pool!PoolTypeOK, Pool!CacheAgrees
<1>2. DOMAIN e \in SUBSET Block /\ \A b \in DOMAIN e : e[b] \in Context
  <2>1. seqs[id].table \in Seq(Block)
    BY DEF MemoryInv, ManagerTypeOK, Sequence
  <2>2. ToSet(seqs[id].table) \subseteq Block
    BY <2>1 DEF ToSet
  <2> QED
    BY <2>2, EntriesFacts
<1>3. \A b, c \in DOMAIN e : e[b] = e[c] => b = c
  BY DEF Pool!IsInjective
<1>4. CASE ~ PrefixCaching
  BY <1>1, <1>4
<1>5. CASE PrefixCaching
  <2> HIDE DEF e
  <2> DEFINE new == {b \in DOMAIN e : b \notin DOMAIN index /\ e[b] \notin Pool!CachedHashes}
  <2>1. f = [b \in DOMAIN index \cup new |-> IF b \in new THEN e[b] ELSE index[b]]
    BY <1>5 DEF Pool!Inserted, e
  <2>2. \A b \in new : \A c \in DOMAIN index : e[b] # index[c]
    BY DEF Pool!CachedHashes
  <2>3. DOMAIN f = DOMAIN index \cup new
    BY <2>1
  <2>4. \A b \in DOMAIN index : b \notin new /\ f[b] = index[b]
    BY <2>1
  <2>5. \A b \in new : f[b] = e[b] /\ b \in DOMAIN e /\ b \notin DOMAIN index
    BY <2>1
  <2> HIDE DEF new
  <2>6. \A b, c \in DOMAIN f : f[b] = f[c] => b = c
    BY <1>1, <1>3, <2>2, <2>3, <2>4, <2>5
  <2>7. f \in [DOMAIN f -> Context]
    BY <1>1, <1>2, <2>1, <2>3, <2>4, <2>5
  <2> QED
    BY <1>1, <1>2, <2>3, <2>4, <2>5, <2>6, <2>7 DEF e
<1> QED
  BY <1>4, <1>5, CachingAssumption

\* publish_computed_blocks: the cache may offer more, and that is all.
LEMMA PublishStep ==
  ASSUME MemoryInv, NEW id \in SeqId, PublishComputed(id)
  PROVE  /\ MemoryInv' /\ Untouched(id) /\ refs' = refs
         /\ \E s \in Sequence :
              /\ seqs' = [seqs EXCEPT ![id] = s]
              /\ s.status = seqs[id].status /\ s.tokens = seqs[id].tokens /\ s.table = seqs[id].table
              /\ s.lora = seqs[id].lora /\ s.computed = seqs[id].computed
<1> DEFINE p == IF PrefixCaching THEN Max({seqs[id].published, NumFull(id)}) ELSE seqs[id].published
           s == [seqs[id] EXCEPT !.published = p]
<1>1. /\ seqs \in [SeqId -> Sequence] /\ seqs[id] \in Sequence
      /\ IsInjective(seqs[id].table)
      /\ Len(seqs[id].table) >= BlocksFor(seqs[id].computed)
      /\ seqs[id].computed <= Len(seqs[id].tokens)
  BY DEF MemoryInv, ManagerTypeOK, TablesTidy, NumTokens
<1>2. p \in Nat
  <2> DEFINE T == {seqs[id].published, NumFull(id)}
  <2>1. seqs[id].published \in Nat /\ NumFull(id) \in Nat
    BY <1>1, EntriesFacts DEF Sequence
  <2>2. \E n \in Nat : \A x \in T : x <= n
    <3>1. seqs[id].published + NumFull(id) \in Nat
      BY <2>1
    <3> QED
      BY <2>1, <3>1
  <2>3. T \in SUBSET Nat /\ T # {}
    BY <2>1
  <2> HIDE DEF T
  <2>4. Max(T) \in Nat
    BY <2>2, <2>3, Greatest
  <2> QED
    BY <2>1, <2>4 DEF T
<1> HIDE DEF p
<1>3. s \in Sequence /\ s.table = seqs[id].table /\ s.computed = seqs[id].computed
      /\ s.tokens = seqs[id].tokens /\ s.status = seqs[id].status /\ s.lora = seqs[id].lora
  BY <1>1, <1>2 DEF Sequence
<1>4. /\ seqs' = [seqs EXCEPT ![id] = s]
      /\ kv' = kv /\ refs' = refs /\ free' = free /\ retained' = retained
      /\ Pool!IsInjective(NewEntries(id))
      /\ index' = IF PrefixCaching THEN Pool!Inserted(NewEntries(id)) ELSE index
      /\ \A b \in DOMAIN NewEntries(id) : refs[b] > 0
  BY <1>1 DEF PublishComputed, Pool!Publish, p
<1> HIDE DEF s
<1>5. /\ DOMAIN index' \in SUBSET Block /\ index' \in [DOMAIN index' -> Context]
      /\ DOMAIN index \subseteq DOMAIN index'
      /\ \A b \in DOMAIN index' \ DOMAIN index : b \in DOMAIN NewEntries(id)
      /\ \A b, c \in DOMAIN index' : index'[b] = index'[c] => b = c
  BY <1>4, InsertedFacts
<1>6. /\ seqs' \in [SeqId -> Sequence]
      /\ \A b \in Block : Holders(b)' = Holders(b)
  <2>1. \A b \in Block : b \in ToSet(s.table) <=> id \in Holders(b)
    BY <1>3 DEF Holders
  <2>2. seqs' \in [SeqId -> Sequence]
    BY <1>1, <1>3, <1>4, HoldersChange
  <2> SUFFICES ASSUME NEW b \in Block PROVE Holders(b)' = Holders(b)
    BY <2>2
  <2>3. Holders(b)' = IF b \in ToSet(s.table) THEN Holders(b) \cup {id} ELSE Holders(b) \ {id}
    BY <1>1, <1>3, <1>4, HoldersChange
  <2> QED
    BY <2>1, <2>3
<1>7. ManagerTypeOK'
  BY <1>4, <1>5, <1>6 DEF MemoryInv, ManagerTypeOK, Pool!PoolTypeOK
<1>8. BlocksAccounted'
  <2>1. Pool!ThreeStates'
    BY <1>4 DEF MemoryInv, BlocksAccounted, Pool!ThreeStates
  <2>2. Pool!CacheAgrees'
    <3>1. retained' \subseteq DOMAIN index'
      BY <1>4, <1>5 DEF MemoryInv, BlocksAccounted, Pool!CacheAgrees
    <3>2. free' \cap DOMAIN index' = {}
      <4>1. free \cap DOMAIN index = {} /\ free \subseteq Block
        BY DEF MemoryInv, BlocksAccounted, Pool!CacheAgrees, ManagerTypeOK, Pool!PoolTypeOK
      <4>2. \A b \in free : refs[b] = 0
        BY <4>1 DEF MemoryInv, BlocksAccounted, Pool!ThreeStates
      <4> QED
        BY <1>4, <1>5, <4>1, <4>2
    <3> QED
      BY <1>5, <3>1, <3>2 DEF Pool!CacheAgrees
  <2>3. \A b \in Block : refs'[b] = Cardinality(Holders(b)')
    BY <1>4, <1>6, Counting
  <2> QED
    BY <2>1, <2>2, <2>3 DEF BlocksAccounted, Holders
<1>9. Untouched(id)
  <2> SUFFICES ASSUME NEW b \in Block, b \notin ToSet(seqs[id].table), b \notin DOMAIN index
               PROVE  b \notin DOMAIN index'
    BY <1>4 DEF Untouched
  <2> QED
    BY <1>5, EntriesFacts
<1>10. \A i \in DOMAIN s.table :
         i * BlockSize > s.computed => refs'[s.table[i]] = 1 /\ s.table[i] \notin DOMAIN index'
  <2> SUFFICES ASSUME NEW i \in DOMAIN s.table, i * BlockSize > s.computed
               PROVE  refs[s.table[i]] = 1 /\ s.table[i] \notin DOMAIN index'
    BY <1>4
  <2>1. refs[s.table[i]] = 1 /\ s.table[i] \notin DOMAIN index
    BY <1>3 DEF MemoryInv, OpenPrivate
  <2>2. \A j \in DOMAIN s.table : s.table[j] = s.table[i] => ~ (j * BlockSize <= s.computed)
    <3>1. s.table \in Seq(Block) /\ IsInjective(s.table) /\ s.computed \in Nat
      BY <1>1, <1>3 DEF Sequence
    <3>2. \A j \in DOMAIN s.table : s.table[j] = s.table[i] => j = i
      BY <3>1 DEF IsInjective
    <3>3. i * BlockSize \in Nat
      <4>1. i \in Nat
        BY <3>1
      <4> QED
        BY <4>1, Multiples
    <3>4. ~ (i * BlockSize <= s.computed)
      BY <3>1, <3>3
    <3> QED
      BY <3>2, <3>4
  <2> QED
    BY <1>3, <1>5, <2>1, <2>2, EntriesFacts
<1>11. TablesTidy' /\ OpenPrivate'
  BY <1>1, <1>3, <1>4, <1>9, <1>10, TablesChange
<1> QED
  BY <1>3, <1>4, <1>7, <1>8, <1>9, <1>11 DEF MemoryInv

\* A prefix match: different cached blocks for the leading blocks of the sequence, and at
\* least one token is left to compute.
LEMMA HitsFacts ==
  ASSUME MemoryInv, NEW id \in SeqId, seqs[id].tokens # << >>
  PROVE  /\ Hits(id) \in Seq(Block) /\ IsInjective(Hits(id)) /\ Len(Hits(id)) \in Nat
         /\ DOMAIN Hits(id) = 1 .. Len(Hits(id))
         /\ Len(Hits(id)) * BlockSize \in Nat /\ Len(Hits(id)) * BlockSize < NumTokens(id)
         /\ ToSet(Hits(id)) \subseteq DOMAIN index
         /\ \A i \in DOMAIN Hits(id) : index[Hits(id)[i]] = BlockHash(id, i)
<1> DEFINE T == {n \in 0 .. MaxHitBlocks(id) : \A i \in 1 .. n : AnswersFor(id, i) # {}}
           m == MatchLength(id)
           h == Hits(id)
<1>1. /\ seqs[id].tokens \in Seq(Token) /\ NumTokens(id) \in Nat \ {0}
      /\ DOMAIN index \in SUBSET Block
      /\ \A b, c \in DOMAIN index : index[b] = index[c] => b = c
  BY DEF MemoryInv, ManagerTypeOK, BlocksAccounted, Pool!PoolTypeOK, Pool!CacheAgrees, Sequence, NumTokens
<1>2. MaxHitBlocks(id) \in Nat
  <2>1. NumTokens(id) - 1 \in Nat
    BY <1>1
  <2> QED
    BY <2>1, FullBlocks DEF MaxHitBlocks
<1>3. m \in T
  <2>1. T \in SUBSET Nat /\ 0 \in T /\ \A x \in T : x <= MaxHitBlocks(id)
    BY <1>2
  <2>2. m = Max(T)
    BY DEF MatchLength
  <2> HIDE DEF T, m
  <2> QED
    BY <1>2, <2>1, <2>2, Greatest
<1>4. m \in Nat /\ m <= MaxHitBlocks(id) /\ \A i \in 1 .. m : AnswersFor(id, i) # {}
  BY <1>2, <1>3
<1> HIDE DEF m, T
<1>5. h = [i \in 1 .. m |-> CHOOSE blk \in AnswersFor(id, i) : TRUE]
  BY DEF Hits, m
<1>6. \A i \in 1 .. m : h[i] \in AnswersFor(id, i)
  BY <1>4, <1>5
<1>7. \A i \in 1 .. m : h[i] \in DOMAIN index /\ h[i] \in Block /\ index[h[i]] = BlockHash(id, i)
  BY <1>1, <1>6 DEF AnswersFor
<1>8. DOMAIN h = 1 .. m
  BY <1>5
<1> HIDE DEF h
<1>9. h \in Seq(Block) /\ Len(h) = m
  BY <1>4, <1>5, <1>7, <1>8, IsASeq
<1>10. m * BlockSize \in Nat /\ m * BlockSize < NumTokens(id)
  <2>1. NumTokens(id) - 1 \in Nat /\ MaxHitBlocks(id) = (NumTokens(id) - 1) \div BlockSize
    BY <1>1 DEF MaxHitBlocks
  <2>2. m * BlockSize <= NumTokens(id) - 1
    BY <1>4, <2>1, FullBlocks
  <2>3. m * BlockSize \in Nat
    BY <1>4, Multiples
  <2> QED
    BY <1>1, <2>2, <2>3
<1>11. IsInjective(h)
  <2> SUFFICES ASSUME NEW i \in 1 .. m, NEW j \in 1 .. m, h[i] = h[j] PROVE i = j
    BY <1>8 DEF IsInjective
  <2>1. BlockHash(id, i) = BlockHash(id, j)
    BY <1>7
  <2> DEFINE k == i * BlockSize
             l == j * BlockSize
  <2>2. /\ i \in Nat /\ j \in Nat /\ k \in Nat /\ l \in Nat
        /\ k <= m * BlockSize /\ l <= m * BlockSize
        /\ k = l => i = j
    BY <1>4, Multiples
  <2>3. SubSeq(seqs[id].tokens, 1, k) = SubSeq(seqs[id].tokens, 1, l)
    BY <2>1 DEF BlockHash, ContextAt
  <2> HIDE DEF k, l
  <2>4. k \in 0 .. Len(seqs[id].tokens) /\ l \in 0 .. Len(seqs[id].tokens)
    BY <1>1, <1>10, <2>2 DEF NumTokens
  <2>5. Len(SubSeq(seqs[id].tokens, 1, k)) = k /\ Len(SubSeq(seqs[id].tokens, 1, l)) = l
    BY <1>1, <2>4
  <2> QED
    BY <2>2, <2>3, <2>5
<1>12. ToSet(h) \subseteq DOMAIN index
  BY <1>7, <1>8 DEF ToSet
<1> QED
  BY <1>4, <1>7, <1>8, <1>9, <1>10, <1>11, <1>12 DEF h

\* allocate, for a sequence that has no blocks: its hits are shared, and credited.
LEMMA AllocateStep ==
  ASSUME MemoryInv, NEW id \in SeqId, NEW status \in Status, AllocateHits(id, status),
         seqs[id].tokens # << >>, seqs[id].table = << >>
  PROVE  /\ MemoryInv' /\ Untouched(id) /\ index' = index /\ kv' = kv /\ free' = free
         /\ retained' = retained \ ToSet(Hits(id))
         /\ \E s \in Sequence :
              /\ seqs' = [seqs EXCEPT ![id] = s]
              /\ s.status = status /\ s.tokens = seqs[id].tokens /\ s.lora = seqs[id].lora
              /\ s.table = Hits(id) /\ s.computed = Len(Hits(id)) * BlockSize
<1> DEFINE h == Hits(id)
           s == [seqs[id] EXCEPT !.status = status, !.table = h, !.published = Len(h),
                                 !.computed = Len(h) * BlockSize]
<1>1. /\ seqs \in [SeqId -> Sequence] /\ seqs[id] \in Sequence
      /\ refs \in [Block -> Nat] /\ DOMAIN index \in SUBSET Block
  BY DEF MemoryInv, ManagerTypeOK, Pool!PoolTypeOK
<1>2. /\ h \in Seq(Block) /\ IsInjective(h) /\ Len(h) \in Nat /\ DOMAIN h = 1 .. Len(h)
      /\ Len(h) * BlockSize \in Nat /\ Len(h) * BlockSize < NumTokens(id)
      /\ ToSet(h) \subseteq DOMAIN index
  BY HitsFacts
<1>3. /\ refs' = [b \in Block |-> IF b \in ToSet(h) THEN refs[b] + 1 ELSE refs[b]]
      /\ retained' = retained \ ToSet(h) /\ free' = free /\ index' = index /\ kv' = kv
      /\ seqs' = [seqs EXCEPT ![id] = s]
  BY <1>1 DEF AllocateHits, Pool!Share
<1> HIDE DEF h
<1>4. /\ s \in Sequence /\ s.table = h /\ s.computed = Len(h) * BlockSize
      /\ s.tokens = seqs[id].tokens /\ s.status = status /\ s.lora = seqs[id].lora
  BY <1>1, <1>2 DEF Sequence
<1> HIDE DEF s
<1>5. seqs' \in [SeqId -> Sequence]
  BY <1>1, <1>3, <1>4, HoldersChange
<1>6. ManagerTypeOK'
  <2>1. refs' \in [Block -> Nat]
    BY <1>1, <1>3
  <2> QED
    BY <1>3, <1>5, <2>1 DEF MemoryInv, ManagerTypeOK, Pool!PoolTypeOK
<1>7. ASSUME NEW b \in Block PROVE refs'[b] = Cardinality(Holders(b)')
  <2>1. Holders(b)' = IF b \in ToSet(h) THEN Holders(b) \cup {id} ELSE Holders(b) \ {id}
    BY <1>1, <1>3, <1>4, HoldersChange
  <2>2. id \notin Holders(b)
    <3>1. ToSet(seqs[id].table) = {}
      BY DEF ToSet
    <3> QED
      BY <3>1 DEF Holders
  <2>3. IsFiniteSet(Holders(b)) /\ refs[b] = Cardinality(Holders(b))
    BY Counting
  <2>4. Cardinality(Holders(b) \cup {id}) = Cardinality(Holders(b)) + 1
    BY <2>2, <2>3, FS_AddElement
  <2>5. Holders(b) \ {id} = Holders(b)
    BY <2>2
  <2> QED
    BY <1>3, <2>1, <2>3, <2>4, <2>5
<1>8. BlocksAccounted'
  <2>1. /\ retained \subseteq DOMAIN index /\ free \cap DOMAIN index = {}
        /\ \A b, c \in DOMAIN index : index[b] = index[c] => b = c
    BY DEF MemoryInv, BlocksAccounted, Pool!CacheAgrees
  <2>2. Pool!CacheAgrees'
    BY <1>3, <2>1 DEF Pool!CacheAgrees
  <2>3. \A b \in Block : /\ b \in free => refs[b] = 0 /\ b \notin retained
                         /\ b \in retained => refs[b] = 0
                         /\ refs[b] = 0 => b \in free \/ b \in retained
    BY DEF MemoryInv, BlocksAccounted, Pool!ThreeStates
  <2>4. Pool!ThreeStates'
    <3> SUFFICES ASSUME NEW b \in Block
                 PROVE  /\ b \in free' => refs'[b] = 0 /\ b \notin retained'
                        /\ b \in retained' => refs'[b] = 0
                        /\ refs'[b] = 0 => b \in free' \/ b \in retained'
      BY DEF Pool!ThreeStates
    <3>1. CASE b \in ToSet(h)
      <4>1. refs[b] \in Nat /\ refs'[b] = refs[b] + 1 /\ b \notin free /\ b \notin retained'
        BY <1>1, <1>2, <1>3, <2>1, <3>1
      <4> QED
        BY <1>3, <4>1
    <3>2. CASE b \notin ToSet(h)
      BY <1>3, <2>3, <3>2
    <3> QED
      BY <3>1, <3>2
  <2> QED
    BY <1>7, <2>2, <2>4 DEF BlocksAccounted, Holders
<1>9. Untouched(id)
  BY <1>2, <1>3 DEF Untouched
<1>10. Len(s.table) >= BlocksFor(s.computed)
  <2> DEFINE k == Len(h)
             c == k * BlockSize
  <2>1. c < c + BlockSize /\ c <= c
    BY <1>2, BlockSizeAssumption
  <2>2. BlocksFor(c) = k
    BY <1>2, <2>1, BlocksForUnique
  <2> QED
    BY <1>4, <2>2
<1>11. \A i \in DOMAIN s.table : ~ (i * BlockSize > s.computed)
  <2> SUFFICES ASSUME NEW i \in 1 .. Len(h) PROVE ~ (i * BlockSize > Len(h) * BlockSize)
    BY <1>2, <1>4
  <2>1. i \in Nat /\ i <= Len(h)
    BY <1>2
  <2>2. i * BlockSize <= Len(h) * BlockSize /\ i * BlockSize \in Nat
    BY <1>2, <2>1, Multiples
  <2> QED
    BY <1>2, <2>2
<1>12. TablesTidy' /\ OpenPrivate'
  <2>1. IsInjective(s.table) /\ s.computed <= Len(s.tokens)
    <3>1. Len(s.tokens) \in Nat /\ Len(s.tokens) = NumTokens(id)
      BY <1>1, <1>4 DEF NumTokens, Sequence
    <3> QED
      BY <1>2, <1>4, <3>1
  <2> QED
    BY <1>3, <1>4, <1>9, <1>10, <1>11, <2>1, TablesChange
<1> QED
  BY <1>3, <1>4, <1>6, <1>8, <1>9, <1>12 DEF MemoryInv, h

\* What a sequence is after n more slots for it: a longer table, whose blocks behind what was
\* computed nobody else has.
Grown(id, n, tokens, s) ==
  /\ seqs' = [seqs EXCEPT ![id] = s]
  /\ s.status = seqs[id].status /\ s.tokens = tokens /\ s.lora = seqs[id].lora
  /\ s.prompt = seqs[id].prompt /\ s.max = seqs[id].max
  /\ s.published = seqs[id].published
  /\ s.computed = seqs[id].computed + n
  /\ Len(seqs[id].table) <= Len(s.table) /\ BlocksFor(s.computed) <= Len(s.table)
  /\ \A i \in DOMAIN seqs[id].table : s.table[i] = seqs[id].table[i]
  /\ \A i \in DOMAIN s.table :
       i * BlockSize > seqs[id].computed =>
         refs'[s.table[i]] = 1 /\ s.table[i] \notin DOMAIN index'

\* append_slots, for a sequence that may get tokens with them: its blocks are fresh, and
\* nobody else's contents change.
LEMMA GrowStep ==
  ASSUME MemoryInv, NEW id \in SeqId, NEW n \in Nat, NEW tokens \in Seq(Token),
         NEW ext \in Extensions(id, n), Pool!Allocate(ToSet(ext)),
         seqs' = [seqs EXCEPT ![id] = [seqs[id] EXCEPT !.tokens = tokens,
                                                       !.table = seqs[id].table \o ext,
                                                       !.computed = seqs[id].computed + n]],
         kv' = [b \in Block |-> IF b \in ToSet(ext) THEN Unwritten ELSE kv[b]],
         seqs[id].computed + n <= Len(tokens)
  PROVE  /\ MemoryInv' /\ Untouched(id)
         /\ \A b \in Block : refs[b] > 0 => kv'[b] = kv[b]
         /\ \A b \in DOMAIN index' : b \in DOMAIN index /\ index'[b] = index[b] /\ kv'[b] = kv[b]
         /\ \E s \in Sequence : Grown(id, n, tokens, s)
<1>1. /\ seqs \in [SeqId -> Sequence] /\ seqs[id] \in Sequence
      /\ refs \in [Block -> Nat] /\ DOMAIN index \in SUBSET Block
      /\ index \in [DOMAIN index -> Context]
      /\ free \subseteq Block /\ retained \subseteq Block
      /\ kv \in [Block -> [Offset -> Context \cup {NoKV}]]
  BY DEF MemoryInv, ManagerTypeOK, Pool!PoolTypeOK
<1> DEFINE c == seqs[id].computed
           t == seqs[id].table
           g == Growth(id, n)
<1>2. /\ c \in Nat /\ t \in Seq(Block) /\ IsInjective(t) /\ Len(t) >= BlocksFor(c)
      /\ Len(t) \in Nat /\ DOMAIN t = 1 .. Len(t) /\ c + n \in Nat /\ c <= c + n
  BY <1>1 DEF MemoryInv, TablesTidy, Sequence
<1>3. g = BlocksFor(c + n) - Len(t) /\ g \in Int /\ BlocksFor(c + n) \in Nat
  BY <1>2, BlocksForFacts DEF Growth
<1> DEFINE m == Len(ext)
<1>4. /\ ext \in [1 .. g -> Pool!Allocatable] /\ IsInjective(ext)
      /\ ext \in [1 .. (IF g > 0 THEN g ELSE 0) -> Pool!Allocatable]
  <2>1. ext \in [1 .. g -> Pool!Allocatable] /\ IsInjective(ext)
    BY DEF Extensions
  <2>2. 1 .. g = 1 .. (IF g > 0 THEN g ELSE 0)
    <3> HIDE DEF g
    <3> QED
      BY <1>3
  <2> HIDE DEF g
  <2> QED
    BY <2>1, <2>2
<1> DEFINE S == ToSet(ext)
           u == t \o ext
           s == [seqs[id] EXCEPT !.tokens = tokens, !.table = u, !.computed = c + n]
<1>5. /\ ext \in Seq(Block) /\ m \in Nat /\ g <= m /\ DOMAIN ext = 1 .. m
      /\ S \subseteq Pool!Allocatable /\ S \subseteq Block
  <2>1. Pool!Allocatable \subseteq Block
    BY <1>1 DEF Pool!Allocatable
  <2> DEFINE l == IF g > 0 THEN g ELSE 0
  <2>2. ext \in [1 .. l -> Block] /\ DOMAIN ext = 1 .. l
    BY <1>4, <2>1
  <2>3. l \in Nat /\ g <= l
    <3> HIDE DEF g
    <3> QED
      BY <1>3
  <2>4. ext \in Seq(Block) /\ Len(ext) = l
    BY <2>2, <2>3, IsASeq
  <2>5. S \subseteq Pool!Allocatable
    BY <1>4 DEF ToSet
  <2> HIDE DEF g, l
  <2> QED
    BY <2>1, <2>2, <2>3, <2>4, <2>5
<1> HIDE DEF m
<1> HIDE DEF g
<1>6. /\ u \in Seq(Block) /\ Len(u) = Len(t) + m
      /\ DOMAIN u = 1 .. Len(t) + m
      /\ \A i \in 1 .. Len(t) : u[i] = t[i]
      /\ \A i \in DOMAIN u : i > Len(t) => i - Len(t) \in 1 .. m /\ u[i] = ext[i - Len(t)]
  <2>1. /\ u \in Seq(Block) /\ Len(u) = Len(t) + m
        /\ \A i \in 1 .. Len(t) + m :
             u[i] = IF i <= Len(t) THEN t[i] ELSE ext[i - Len(t)]
    BY <1>2, <1>5, ConcatProperties DEF m
  <2> HIDE DEF u, t
  <2>2. DOMAIN u = 1 .. Len(t) + m
    BY <1>2, <1>3, <1>5, <2>1
  <2>3. Len(t) \in Nat /\ m \in Nat
    BY <1>2, <1>5
  <2>4. \A i \in 1 .. Len(t) : u[i] = t[i]
    <3> SUFFICES ASSUME NEW i \in 1 .. Len(t) PROVE u[i] = t[i]
      OBVIOUS
    <3>1. i \in 1 .. Len(t) + m /\ i <= Len(t)
      BY <2>3
    <3> QED
      BY <2>1, <3>1
  <2>5. ASSUME NEW i \in DOMAIN u, i > Len(t)
        PROVE  i - Len(t) \in 1 .. m /\ u[i] = ext[i - Len(t)]
    <3>1. i \in 1 .. Len(t) + m /\ ~(i <= Len(t)) /\ i - Len(t) \in 1 .. m
      BY <2>2, <2>3, <2>5
    <3> QED
      BY <2>1, <3>1
  <2> QED
    BY <2>1, <2>2, <2>4, <2>5
<1>26. Len(t) <= Len(u) /\ BlocksFor(c + n) <= Len(u)
  <2>1. Len(u) = Len(t) + m
    BY <1>6
  <2>2. Len(t) \in Nat /\ m \in Nat /\ g <= m
    BY <1>2, <1>5
  <2> QED
    BY <1>3, <2>1, <2>2
<1>7. seqs' = [seqs EXCEPT ![id] = s]
  BY <1>1
<1> HIDE DEF u
<1>8. /\ s \in Sequence /\ s.table = u /\ s.computed = c + n
      /\ s.tokens = tokens /\ s.status = seqs[id].status /\ s.lora = seqs[id].lora
      /\ s.prompt = seqs[id].prompt /\ s.max = seqs[id].max /\ s.published = seqs[id].published
  BY <1>1, <1>2, <1>6 DEF Sequence
<1> HIDE DEF s
<1>9. /\ S \subseteq free \/ (free \subseteq S /\ S \subseteq Pool!Allocatable)
      /\ refs' = [b \in Block |-> IF b \in S THEN 1 ELSE refs[b]]
      /\ free' = free \ S /\ retained' = retained \ S
      /\ index' = [b \in DOMAIN index \ S |-> index[b]]
  <2>1. index' = Pool!Restrict(index, DOMAIN index \ S)
    BY DEF Pool!Allocate
  <2>2. index' = [b \in DOMAIN index \ S |-> index[b]]
    BY <2>1 DEF Pool!Restrict
  <2> QED
    BY <2>2 DEF Pool!Allocate
<1>10. \A b \in S : b \in Block /\ refs[b] = 0 /\ Holders(b) = {} /\ b \notin ToSet(t)
  <2> SUFFICES ASSUME NEW b \in S PROVE refs[b] = 0 /\ Holders(b) = {} /\ b \notin ToSet(t)
    BY <1>5
  <2>1. b \in Block /\ refs[b] = 0 /\ Holders(b) = {}
    BY <1>5, Counting
  <2> QED
    BY <2>1 DEF Holders
<1> HIDE DEF S
<1>11. ToSet(u) = ToSet(t) \cup S
  <2>1. \A x \in ToSet(u) : x \in ToSet(t) \cup S
    <3> SUFFICES ASSUME NEW i \in DOMAIN u PROVE u[i] \in ToSet(t) \cup S
      BY DEF ToSet
    <3>1. CASE i <= Len(t)
      BY <1>2, <1>6, <3>1 DEF ToSet
    <3>2. CASE i > Len(t)
      BY <1>5, <1>6, <3>2 DEF ToSet, S
    <3> QED
      BY <1>2, <1>6, <3>1, <3>2
  <2>2. ToSet(t) \subseteq ToSet(u)
    BY <1>2, <1>5, <1>6 DEF ToSet
  <2>3. S \subseteq ToSet(u)
    <3> SUFFICES ASSUME NEW j \in 1 .. m PROVE ext[j] \in ToSet(u)
      BY <1>5 DEF S, ToSet
    <3>1. j + Len(t) \in DOMAIN u /\ j + Len(t) > Len(t) /\ j + Len(t) - Len(t) = j
      <4> PICK l \in Nat : l = Len(t)
        BY <1>2
      <4>1. DOMAIN u = 1 .. l + m /\ m \in Nat
        BY <1>5, <1>6
      <4>3. j \in Nat /\ 1 <= j /\ j <= m
        BY <4>1
      <4>4. \A a, i, k \in Nat : 1 <= i /\ i <= k => i + a \in 1 .. a + k /\ i + a > a /\ i + a - a = i
        OBVIOUS
      <4>2. j + l \in 1 .. l + m /\ j + l > l /\ j + l - l = j
        BY <4>1, <4>3, <4>4
      <4> QED
        BY <4>1, <4>2
    <3>2. u[j + Len(t)] = ext[j]
      BY <1>6, <3>1
    <3> QED
      BY <3>1, <3>2 DEF ToSet
  <2> QED
    BY <2>1, <2>2, <2>3
<1>12. IsInjective(u)
  <2>0. \A i \in DOMAIN u : i \in Nat
    BY <1>6
  <2> SUFFICES ASSUME NEW i \in DOMAIN u, NEW j \in DOMAIN u, u[i] = u[j], i < j PROVE FALSE
    BY <2>0 DEF IsInjective
  <2>1. CASE j <= Len(t)
    <3>1. i \in DOMAIN t /\ j \in DOMAIN t /\ u[i] = t[i] /\ u[j] = t[j]
      BY <1>2, <1>6, <2>1
    <3>2. i = j
      BY <1>2, <3>1 DEF IsInjective
    <3> QED
      BY <2>0, <3>2
  <2>2. CASE i > Len(t)
    <3>1. ext[i - Len(t)] = ext[j - Len(t)] /\ i - Len(t) \in 1 .. m /\ j - Len(t) \in 1 .. m
      BY <1>2, <1>6, <2>2
    <3>2. i - Len(t) = j - Len(t)
      BY <1>4, <1>5, <3>1 DEF IsInjective
    <3> QED
      BY <1>2, <1>6, <3>2
  <2>3. CASE i <= Len(t) /\ j > Len(t)
    <3>0. i \in 1 .. Len(t)
      BY <1>2, <1>6, <2>3
    <3>1. u[i] \in ToSet(t)
      BY <1>2, <1>6, <3>0 DEF ToSet
    <3>2. u[j] \in S
      BY <1>5, <1>6, <2>3 DEF ToSet, S
    <3> QED
      BY <1>10, <3>1, <3>2
  <2> QED
    BY <1>2, <1>6, <2>1, <2>2, <2>3
<1>13. /\ refs' \in [Block -> Nat] /\ DOMAIN index' \subseteq DOMAIN index
       /\ index' \in [DOMAIN index' -> Context]
       /\ kv' \in [Block -> [Offset -> Context \cup {NoKV}]]
  <2>1. Unwritten \in [Offset -> Context \cup {NoKV}]
    BY DEF Unwritten
  <2> QED
    BY <1>1, <1>9, <2>1 DEF S
<1>14. seqs' \in [SeqId -> Sequence]
  BY <1>1, <1>7, <1>8, HoldersChange
<1>15. ManagerTypeOK'
  BY <1>1, <1>9, <1>13, <1>14 DEF ManagerTypeOK, Pool!PoolTypeOK
<1>16. ASSUME NEW b \in Block PROVE refs'[b] = Cardinality(Holders(b)')
  <2>1. Holders(b)' = IF b \in ToSet(u) THEN Holders(b) \cup {id} ELSE Holders(b) \ {id}
    BY <1>1, <1>7, <1>8, HoldersChange
  <2>2. CASE b \in S
    <3>1. Holders(b)' = {id}
      BY <1>10, <1>11, <2>1, <2>2
    <3> QED
      BY <1>9, <2>2, <3>1, FS_Singleton
  <2>3. CASE b \notin S
    <3>1. Holders(b)' = Holders(b)
      BY <1>11, <2>1, <2>3 DEF Holders
    <3> QED
      BY <1>9, <2>3, <3>1, Counting
  <2> QED
    BY <2>2, <2>3
<1>17. BlocksAccounted'
  <2>1. /\ retained \subseteq DOMAIN index /\ free \cap DOMAIN index = {}
        /\ \A b, x \in DOMAIN index : index[b] = index[x] => b = x
    BY DEF MemoryInv, BlocksAccounted, Pool!CacheAgrees
  <2>2. Pool!CacheAgrees'
    BY <1>9, <2>1 DEF Pool!CacheAgrees
  <2>3. \A b \in Block : /\ b \in free => refs[b] = 0 /\ b \notin retained
                         /\ b \in retained => refs[b] = 0
                         /\ refs[b] = 0 => b \in free \/ b \in retained
    BY DEF MemoryInv, BlocksAccounted, Pool!ThreeStates
  <2>4. Pool!ThreeStates'
    BY <1>9, <2>3 DEF Pool!ThreeStates
  <2> QED
    BY <1>16, <2>2, <2>4 DEF BlocksAccounted, Holders
<1>18. Untouched(id) /\ \A b \in Block : refs[b] > 0 => kv'[b] = kv[b]
  BY <1>1, <1>9, <1>10 DEF Untouched, S
<1>19. ASSUME NEW i \in DOMAIN u, i * BlockSize > c
       PROVE  refs'[u[i]] = 1 /\ u[i] \notin DOMAIN index'
  <2>1. CASE i <= Len(t)
    <3>1. i \in DOMAIN t /\ u[i] = t[i] /\ t[i] \in Block /\ t[i] \in ToSet(t)
      BY <1>2, <1>6, <2>1 DEF ToSet
    <3>2. refs[t[i]] = 1 /\ t[i] \notin DOMAIN index
      BY <1>19, <3>1 DEF MemoryInv, OpenPrivate
    <3> QED
      BY <1>9, <3>1, <3>2
  <2>2. CASE i > Len(t)
    <3>1. u[i] \in S
      BY <1>5, <1>6, <2>2 DEF ToSet, S
    <3> QED
      BY <1>9, <1>10, <3>1
  <2> QED
    BY <1>2, <1>6, <2>1, <2>2
<1>20. TablesTidy' /\ OpenPrivate'
  <2>1. Len(s.table) >= BlocksFor(s.computed)
    <3>1. BlocksFor(c + n) <= Len(u) /\ BlocksFor(c + n) \in Nat /\ Len(u) \in Nat
      BY <1>3, <1>6, <1>26
    <3> QED
      BY <1>8, <3>1
  <2>2. s.computed <= Len(s.tokens) /\ IsInjective(s.table)
    BY <1>8, <1>12
  <2>3. ASSUME NEW i \in DOMAIN s.table, i * BlockSize > s.computed
        PROVE  refs'[s.table[i]] = 1 /\ s.table[i] \notin DOMAIN index'
    <3>1. i \in Nat
      BY <1>6, <1>8
    <3>2. i * BlockSize \in Nat
      BY <3>1, Multiples
    <3>3. i * BlockSize > c
      BY <1>2, <1>8, <2>3, <3>2
    <3> QED
      BY <1>8, <1>19, <3>3
  <2> QED
    BY <1>7, <1>8, <1>18, <2>1, <2>2, <2>3, TablesChange
<1>21. \A b \in DOMAIN index' : b \in DOMAIN index /\ index'[b] = index[b] /\ kv'[b] = kv[b]
  BY <1>1, <1>9 DEF S
<1>22. /\ Len(t) <= Len(s.table) /\ BlocksFor(s.computed) <= Len(s.table) /\ \A i \in DOMAIN t : s.table[i] = t[i]
       /\ \A i \in DOMAIN s.table :
            i * BlockSize > c => refs'[s.table[i]] = 1 /\ s.table[i] \notin DOMAIN index'
  <2>1. \A i \in DOMAIN t : u[i] = t[i]
    BY <1>2, <1>6
  <2> QED
    BY <1>8, <1>19, <1>26, <2>1
<1>23. MemoryInv'
  BY <1>15, <1>17, <1>20 DEF MemoryInv
<1>24. s \in Sequence /\ Grown(id, n, tokens, s)
  BY <1>7, <1>8, <1>22 DEF Grown
<1> HIDE DEF s
<1>25. \E q \in Sequence : Grown(id, n, tokens, q)
  BY <1>24
<1> QED
  BY <1>18, <1>21, <1>23, <1>25

\* append_slots and advance_computed: the table grows by blocks nobody had, and every block
\* the new tokens go to is this sequence's alone.
LEMMA AppendStep ==
  ASSUME MemoryInv, NEW id \in SeqId, NEW n \in Nat, AppendSlots(id, n),
         seqs[id].computed + n <= NumTokens(id)
  PROVE  /\ MemoryInv' /\ Untouched(id)
         /\ \A b \in Block : refs[b] > 0 => kv'[b] = kv[b]
         /\ \A b \in DOMAIN index' : b \in DOMAIN index /\ index'[b] = index[b] /\ kv'[b] = kv[b]
         /\ \E s \in Sequence :
              /\ seqs' = [seqs EXCEPT ![id] = s]
              /\ s.status = seqs[id].status /\ s.tokens = seqs[id].tokens /\ s.lora = seqs[id].lora
              /\ s.computed = seqs[id].computed + n
              /\ Len(seqs[id].table) <= Len(s.table)
              /\ \A i \in DOMAIN seqs[id].table : s.table[i] = seqs[id].table[i]
              /\ \A i \in DOMAIN s.table :
                   i * BlockSize > seqs[id].computed =>
                     refs'[s.table[i]] = 1 /\ s.table[i] \notin DOMAIN index'
<1>1. seqs \in [SeqId -> Sequence] /\ seqs[id] \in Sequence
  BY DEF MemoryInv, ManagerTypeOK
<1>2. PICK ext \in Extensions(id, n) :
        /\ Pool!Allocate(ToSet(ext))
        /\ seqs' = [seqs EXCEPT ![id].table = @ \o ext, ![id].computed = @ + n]
        /\ kv' = [b \in Block |-> IF b \in ToSet(ext) THEN Unwritten ELSE kv[b]]
  BY DEF AppendSlots
<1>3. PICK tokens \in Seq(Token) : tokens = seqs[id].tokens
  BY <1>1 DEF Sequence
<1>4. seqs' = [seqs EXCEPT ![id] = [seqs[id] EXCEPT !.tokens = tokens,
                                                    !.table = seqs[id].table \o ext,
                                                    !.computed = seqs[id].computed + n]]
  BY <1>1, <1>2, <1>3 DEF Sequence
<1>5. seqs[id].computed + n <= Len(tokens)
  BY <1>3 DEF NumTokens
<1>6. Pool!Allocate(ToSet(ext)) /\ kv' = [b \in Block |-> IF b \in ToSet(ext) THEN Unwritten ELSE kv[b]]
  BY <1>2
<1>7. /\ MemoryInv' /\ Untouched(id)
      /\ \A b \in Block : refs[b] > 0 => kv'[b] = kv[b]
      /\ \A b \in DOMAIN index' : b \in DOMAIN index /\ index'[b] = index[b] /\ kv'[b] = kv[b]
  BY <1>4, <1>5, <1>6, GrowStep
<1>8. \E s \in Sequence : Grown(id, n, tokens, s)
  BY <1>4, <1>5, <1>6, GrowStep
<1> QED
  BY <1>3, <1>7, <1>8 DEF Grown

\* An empty table fits a sequence with nothing computed, and no other.
LEMMA EmptyTable ==
  /\ BlocksFor(0) = 0
  /\ \A c \in Nat : BlocksFor(c) <= 0 => c = 0
<1>1. BlockSize \in Nat /\ BlockSize > 0
  BY BlockSizeAssumption
<1>2. 0 * BlockSize = 0
  BY <1>1
<1>3. BlocksFor(0) = 0
  BY <1>1, <1>2, BlocksForUnique
<1>4. ASSUME NEW c \in Nat, BlocksFor(c) <= 0 PROVE c = 0
  BY <1>2, <1>4, BlocksForFacts
<1> QED
  BY <1>3, <1>4

\* free: the sequence lets go of its blocks; what others hold stays, what nobody holds any
\* more is retained if the cache has it and free otherwise.
LEMMA ReleaseStep ==
  ASSUME MemoryInv, NEW id \in SeqId, NEW after \in Sequence, FreeBlocks(id, after),
         after.table = << >>, after.computed = 0
  PROVE  /\ MemoryInv' /\ Untouched(id)
         /\ seqs' = [seqs EXCEPT ![id] = after]
         /\ \A b \in DOMAIN index' :
              /\ kv'[b] = kv[b]
              /\ \/ b \in DOMAIN index /\ index'[b] = index[b]
                 \/ b \in DOMAIN NewEntries(id) /\ index'[b] = NewEntries(id)[b]
<1>1. /\ seqs \in [SeqId -> Sequence] /\ seqs[id] \in Sequence
      /\ refs \in [Block -> Nat] /\ free \subseteq Block /\ retained \subseteq Block
      /\ kv \in [Block -> [Offset -> Context \cup {NoKV}]]
  BY DEF MemoryInv, ManagerTypeOK, Pool!PoolTypeOK
<1> DEFINE S == ToSet(seqs[id].table)
           zero == {b \in S : refs[b] = 1}
<1>2. /\ seqs' = [seqs EXCEPT ![id] = after]
      /\ \A b \in S : refs[b] > 0
      /\ Pool!IsInjective(NewEntries(id)) /\ DOMAIN NewEntries(id) \subseteq S
      /\ index' = IF PrefixCaching THEN Pool!Inserted(NewEntries(id)) ELSE index
      /\ refs' = [b \in Block |-> IF b \in S THEN refs[b] - 1 ELSE refs[b]]
      /\ retained' = retained \cup (zero \cap DOMAIN index')
      /\ free' = free \cup (zero \ DOMAIN index')
      /\ kv' = [b \in Block |-> IF b \in free' THEN Unwritten ELSE kv[b]]
  BY DEF FreeBlocks, Pool!Release
<1>3. S \subseteq Block
  <2>1. seqs[id].table \in Seq(Block)
    BY <1>1 DEF Sequence
  <2> QED
    BY <2>1 DEF ToSet
<1> HIDE DEF S
<1>4. /\ DOMAIN index' \in SUBSET Block /\ index' \in [DOMAIN index' -> Context]
      /\ DOMAIN index \subseteq DOMAIN index'
      /\ \A b \in DOMAIN index : index'[b] = index[b]
      /\ \A b \in DOMAIN index' \ DOMAIN index :
           b \in DOMAIN NewEntries(id) /\ index'[b] = NewEntries(id)[b]
      /\ \A b, c \in DOMAIN index' : index'[b] = index'[c] => b = c
  <2>1. index' = IF PrefixCaching THEN Pool!Inserted(NewEntries(id)) ELSE index
    BY <1>2
  <2>2. Pool!IsInjective(NewEntries(id))
    BY <1>2
  <2>3. /\ DOMAIN index' \in SUBSET Block /\ index' \in [DOMAIN index' -> Context]
        /\ DOMAIN index \subseteq DOMAIN index'
    BY <2>1, <2>2, InsertedFacts
  <2>4. \A b \in DOMAIN index : index'[b] = index[b]
    BY <2>1, <2>2, InsertedFacts
  <2>5. \A b \in DOMAIN index' \ DOMAIN index :
          b \in DOMAIN NewEntries(id) /\ index'[b] = NewEntries(id)[b]
    BY <2>1, <2>2, InsertedFacts
  <2>6. ASSUME NEW b \in DOMAIN index', NEW c \in DOMAIN index', index'[b] = index'[c] PROVE b = c
    BY <2>1, <2>2, <2>6, InsertedFacts
  <2> QED
    BY <2>3, <2>4, <2>5, <2>6
<1>5. /\ seqs' \in [SeqId -> Sequence] /\ ToSet(after.table) = {}
      /\ \A b \in Block : Holders(b)' = Holders(b) \ {id}
  <2>1. ToSet(after.table) = {}
    BY DEF ToSet
  <2> QED
    BY <1>1, <1>2, <2>1, HoldersChange
<1>6. ASSUME NEW b \in Block PROVE refs'[b] = Cardinality(Holders(b)') /\ refs'[b] \in Nat
  <2>1. IsFiniteSet(Holders(b)) /\ refs[b] = Cardinality(Holders(b)) /\ refs[b] \in Nat
    BY Counting
  <2>2. b \in S <=> id \in Holders(b)
    BY DEF S, Holders
  <2>3. CASE b \in S
    <3>1. Cardinality(Holders(b) \ {id}) = Cardinality(Holders(b)) - 1
      BY <2>1, <2>2, <2>3, FS_RemoveElement
    <3>2. refs[b] > 0 /\ refs'[b] = refs[b] - 1
      BY <1>2, <2>3
    <3>3. Holders(b)' = Holders(b) \ {id}
      BY <1>5
    <3>4. Cardinality(Holders(b)') = refs[b] - 1
      BY <2>1, <3>1, <3>3
    <3> QED
      BY <2>1, <3>2, <3>4
  <2>4. CASE b \notin S
    <3>1. Holders(b)' = Holders(b)
      BY <1>5, <2>2, <2>4
    <3> QED
      BY <1>2, <2>1, <2>4, <3>1
  <2> QED
    BY <2>3, <2>4
<1>7. /\ \A b \in S : b \notin free /\ b \notin retained
      /\ free \cap DOMAIN index = {} /\ retained \subseteq DOMAIN index
      /\ \A b \in Block : /\ b \in free => refs[b] = 0 /\ b \notin retained
                          /\ b \in retained => refs[b] = 0
                          /\ refs[b] = 0 => b \in free \/ b \in retained
  BY <1>2, <1>3 DEF MemoryInv, BlocksAccounted, Pool!CacheAgrees, Pool!ThreeStates
<1>8. Pool!CacheAgrees'
  <2>1. retained' \subseteq DOMAIN index'
    BY <1>2, <1>4, <1>7
  <2>2. free' \cap DOMAIN index' = {}
    BY <1>2, <1>4, <1>7
  <2> QED
    BY <1>4, <2>1, <2>2 DEF Pool!CacheAgrees
<1>9. Pool!ThreeStates'
  <2> SUFFICES ASSUME NEW b \in Block
               PROVE  /\ b \in free' => refs'[b] = 0 /\ b \notin retained'
                      /\ b \in retained' => refs'[b] = 0
                      /\ refs'[b] = 0 => b \in free' \/ b \in retained'
    BY DEF Pool!ThreeStates
  <2>1. CASE b \in S
    <3>1. refs[b] \in Nat /\ refs'[b] = refs[b] - 1 /\ b \notin free /\ b \notin retained
      BY <1>1, <1>2, <1>7, <2>1
    <3>2. refs'[b] = 0 <=> b \in zero
      BY <2>1, <3>1
    <3> HIDE DEF zero
    <3> QED
      BY <1>2, <3>1, <3>2
  <2>2. CASE b \notin S
    BY <1>2, <1>7, <2>2
  <2> QED
    BY <2>1, <2>2
<1>10. /\ free' \subseteq Block /\ retained' \subseteq Block /\ refs' \in [Block -> Nat]
       /\ kv' \in [Block -> [Offset -> Context \cup {NoKV}]]
  <2>1. Unwritten \in [Offset -> Context \cup {NoKV}]
    BY DEF Unwritten
  <2>2. free' \subseteq Block /\ retained' \subseteq Block
    BY <1>1, <1>2, <1>3
  <2>3. refs' \in [Block -> Nat]
    BY <1>2, <1>6
  <2>4. kv' \in [Block -> [Offset -> Context \cup {NoKV}]]
    BY <1>1, <1>2, <2>1
  <2> QED
    BY <2>2, <2>3, <2>4
<1>11. ManagerTypeOK' /\ BlocksAccounted'
  BY <1>4, <1>5, <1>6, <1>8, <1>9, <1>10 DEF ManagerTypeOK, Pool!PoolTypeOK, BlocksAccounted, Holders
<1>12. Untouched(id)
  <2> SUFFICES ASSUME NEW b \in Block, refs[b] > 0, b \notin S
               PROVE  /\ kv'[b] = kv[b]
                      /\ b \notin DOMAIN index => refs'[b] = refs[b] /\ b \notin DOMAIN index'
    BY DEF Untouched, S
  <2>1. b \notin free'
    BY <1>1, <1>2, <1>7
  <2> QED
    BY <1>2, <1>4, <2>1
<1>13. TablesTidy' /\ OpenPrivate'
  <2>1. /\ IsInjective(after.table) /\ Len(after.table) >= BlocksFor(after.computed)
        /\ after.computed <= Len(after.tokens) /\ DOMAIN after.table = {}
    <3>1. Len(after.tokens) \in Nat
      BY DEF Sequence
    <3> QED
      BY <3>1, EmptyTable DEF IsInjective
  <2> QED
    BY <1>2, <1>12, <2>1, TablesChange
<1>14. \A b \in DOMAIN index' : kv'[b] = kv[b]
  BY <1>2, <1>4, <1>8 DEF Pool!CacheAgrees
<1> QED
  BY <1>2, <1>4, <1>11, <1>12, <1>13, <1>14 DEF MemoryInv

\* A sequence that changes and keeps its blocks, which hold what is computed of it.
LEMMA SameTableStep ==
  ASSUME MemoryInv, NEW id \in SeqId, NEW s \in Sequence, seqs' = [seqs EXCEPT ![id] = s],
         UNCHANGED <<refs, free, retained, index, kv>>,
         s.table = seqs[id].table, BlocksFor(s.computed) <= Len(s.table),
         s.computed <= Len(s.tokens),
         \A i \in DOMAIN s.table :
           i * BlockSize > s.computed => refs[s.table[i]] = 1 /\ s.table[i] \notin DOMAIN index
  PROVE  MemoryInv' /\ Untouched(id)
<1>1. seqs \in [SeqId -> Sequence]
  BY DEF MemoryInv, ManagerTypeOK
<1>2. seqs' \in [SeqId -> Sequence]
  BY <1>1
<1>7. ASSUME NEW b \in Block PROVE Holders(b)' = Holders(b)
  <2>1. Holders(b)' = IF b \in ToSet(s.table) THEN Holders(b) \cup {id} ELSE Holders(b) \ {id}
    BY <1>1, HoldersChange
  <2>2. b \in ToSet(s.table) <=> id \in Holders(b)
    BY DEF Holders
  <2> QED
    BY <2>1, <2>2
<1>3. ManagerTypeOK'
  BY <1>2 DEF MemoryInv, ManagerTypeOK, Pool!PoolTypeOK
<1>4. BlocksAccounted'
  <2>1. \A b \in Block : refs'[b] = Cardinality(Holders(b)')
    BY <1>7, Counting
  <2>2. Pool!ThreeStates' /\ Pool!CacheAgrees'
    BY DEF MemoryInv, BlocksAccounted, Pool!ThreeStates, Pool!CacheAgrees
  <2> QED
    BY <2>1, <2>2 DEF BlocksAccounted, Holders
<1>5. Untouched(id)
  BY DEF Untouched
<1>6. TablesTidy' /\ OpenPrivate'
  <2>1. IsInjective(s.table) /\ Len(s.table) >= BlocksFor(s.computed)
    <3>0. s.computed \in Nat /\ Len(s.table) \in Nat
      BY DEF Sequence
    <3>1. BlocksFor(s.computed) \in Nat /\ Len(s.table) \in Nat
      BY <3>0, BlocksForFacts
    <3> QED
      BY <3>1 DEF MemoryInv, TablesTidy
  <2>2. \A i \in DOMAIN s.table :
          i * BlockSize > s.computed => refs'[s.table[i]] = 1 /\ s.table[i] \notin DOMAIN index'
    OBVIOUS
  <2> QED
    BY <1>5, <2>1, <2>2, TablesChange
<1> QED
  BY <1>3, <1>4, <1>5, <1>6 DEF MemoryInv

\* A sequence that changes without its blocks: it arrives, or gets a token.
LEMMA TokensStep ==
  ASSUME MemoryInv, NEW id \in SeqId, NEW s \in Sequence, seqs' = [seqs EXCEPT ![id] = s],
         UNCHANGED <<refs, free, retained, index, kv>>,
         s.table = seqs[id].table, s.computed = seqs[id].computed, s.computed <= Len(s.tokens)
  PROVE  MemoryInv' /\ Untouched(id)
<1>0. s.computed \in Nat /\ Len(s.table) \in Nat
  BY DEF Sequence
<1>1. BlocksFor(s.computed) \in Nat /\ Len(s.table) \in Nat
  BY <1>0, BlocksForFacts
<1>2. BlocksFor(s.computed) <= Len(s.table)
  BY <1>1 DEF MemoryInv, TablesTidy
<1>3. \A i \in DOMAIN s.table :
        i * BlockSize > s.computed => refs[s.table[i]] = 1 /\ s.table[i] \notin DOMAIN index
  BY DEF MemoryInv, OpenPrivate
<1> QED
  BY <1>2, <1>3, SameTableStep

\* The pool is emptied, and nobody holds a block.
LEMMA ResetStep ==
  ASSUME seqs' \in [SeqId -> Sequence], Pool!Reset, kv' = [b \in Block |-> Unwritten],
         \A id \in SeqId : seqs'[id].table = << >> /\ seqs'[id].computed = 0
  PROVE  MemoryInv'
<1>1. /\ refs' = [b \in Block |-> 0] /\ free' = Block /\ retained' = {}
      /\ DOMAIN index' = {} /\ index' \in [DOMAIN index' -> Context]
  BY DEF Pool!Reset, Pool!NoEntries
<1>2. Unwritten \in [Offset -> Context \cup {NoKV}]
  BY DEF Unwritten
<1>3. ManagerTypeOK'
  BY <1>1, <1>2 DEF ManagerTypeOK, Pool!PoolTypeOK
<1>4. Pool!ThreeStates' /\ Pool!CacheAgrees'
  BY <1>1 DEF Pool!ThreeStates, Pool!CacheAgrees
<1>5. \A b \in Block : refs'[b] = Cardinality(Holders(b)')
  <2> SUFFICES ASSUME NEW b \in Block PROVE Holders(b)' = {}
    BY <1>1, FS_EmptySet
  <2>1. \A id \in SeqId : ToSet(seqs'[id].table) = {}
    BY DEF ToSet
  <2> QED
    BY <2>1 DEF Holders
<1>6. TablesTidy' /\ OpenPrivate'
  <2> SUFFICES ASSUME NEW id \in SeqId
               PROVE  /\ IsInjective(seqs'[id].table)
                      /\ Len(seqs'[id].table) >= BlocksFor(seqs'[id].computed)
                      /\ seqs'[id].computed <= Len(seqs'[id].tokens)
                      /\ DOMAIN seqs'[id].table = {}
    BY DEF TablesTidy, OpenPrivate, NumTokens, BlocksFor
  <2>1. Len(seqs'[id].tokens) \in Nat
    BY DEF Sequence
  <2> QED
    BY <2>1, EmptyTable DEF IsInjective
<1> QED
  BY <1>3, <1>4, <1>5, <1>6 DEF MemoryInv, BlocksAccounted, Holders

----------------------------------------------------------------------------
(* What the engine's steps have in common                                  *)

\* Three sequences in a row repeat nothing exactly when none of them does and no two share
\* an element.
LEMMA Concat ==
  ASSUME NEW S, NEW s \in Seq(S), NEW t \in Seq(S)
  PROVE  /\ s \o t \in Seq(S) /\ ToSet(s \o t) = ToSet(s) \cup ToSet(t)
         /\ IsInjective(s \o t)
              <=> IsInjective(s) /\ IsInjective(t) /\ ToSet(s) \cap ToSet(t) = {}
<1> DEFINE u == s \o t
<1>1. /\ u \in Seq(S) /\ Len(u) = Len(s) + Len(t) /\ Len(s) \in Nat /\ Len(t) \in Nat
      /\ \A i \in 1 .. Len(s) + Len(t) : u[i] = IF i <= Len(s) THEN s[i] ELSE t[i - Len(s)]
      /\ DOMAIN s = 1 .. Len(s) /\ DOMAIN t = 1 .. Len(t) /\ DOMAIN u = 1 .. Len(s) + Len(t)
  BY ConcatProperties
<1> HIDE DEF u
<1>2. /\ \A i \in 1 .. Len(s) : i \in DOMAIN u /\ u[i] = s[i]
      /\ \A i \in 1 .. Len(t) : i + Len(s) \in DOMAIN u /\ u[i + Len(s)] = t[i]
  <2>1. ASSUME NEW i \in 1 .. Len(t) PROVE i + Len(s) \in DOMAIN u /\ u[i + Len(s)] = t[i]
    <3>1. i + Len(s) \in 1 .. Len(s) + Len(t) /\ ~ (i + Len(s) <= Len(s)) /\ i + Len(s) - Len(s) = i
      BY <1>1
    <3> QED
      BY <1>1, <3>1
  <2> QED
    BY <1>1, <2>1
<1>3. ASSUME NEW i \in DOMAIN u
      PROVE  \/ i \in 1 .. Len(s) /\ u[i] = s[i]
             \/ i - Len(s) \in 1 .. Len(t) /\ i > Len(s) /\ u[i] = t[i - Len(s)]
  BY <1>1
<1>4. ToSet(u) = ToSet(s) \cup ToSet(t)
  <2>1. \A x \in ToSet(u) : x \in ToSet(s) \cup ToSet(t)
    BY <1>1, <1>3 DEF ToSet
  <2>2. \A i \in DOMAIN u : u[i] \in ToSet(u)
    BY DEF ToSet
  <2>3. ToSet(s) \subseteq ToSet(u)
    BY <1>1, <1>2, <2>2 DEF ToSet
  <2>4. ToSet(t) \subseteq ToSet(u)
    <3> SUFFICES ASSUME NEW i \in 1 .. Len(t) PROVE t[i] \in ToSet(u)
      BY <1>1 DEF ToSet
    <3> QED
      BY <1>2, <2>2
  <2> QED
    BY <2>1, <2>3, <2>4
<1>5. ASSUME IsInjective(u)
      PROVE  IsInjective(s) /\ IsInjective(t) /\ ToSet(s) \cap ToSet(t) = {}
  <2>1. IsInjective(s)
    BY <1>1, <1>2, <1>5 DEF IsInjective
  <2>2. IsInjective(t)
    <3> SUFFICES ASSUME NEW i \in 1 .. Len(t), NEW j \in 1 .. Len(t), t[i] = t[j] PROVE i = j
      BY <1>1 DEF IsInjective
    <3>1. i + Len(s) = j + Len(s)
      BY <1>2, <1>5 DEF IsInjective
    <3> QED
      BY <1>1, <3>1
  <2>3. ASSUME NEW i \in 1 .. Len(s), NEW j \in 1 .. Len(t), s[i] = t[j] PROVE FALSE
    <3>1. i = j + Len(s)
      BY <1>2, <1>5, <2>3 DEF IsInjective
    <3> QED
      BY <1>1, <3>1
  <2> QED
    BY <1>1, <2>1, <2>2, <2>3 DEF ToSet
<1>6. ASSUME IsInjective(s), IsInjective(t), ToSet(s) \cap ToSet(t) = {}
      PROVE  IsInjective(u)
  <2> SUFFICES ASSUME NEW i \in DOMAIN u, NEW j \in DOMAIN u, u[i] = u[j] PROVE i = j
    BY DEF IsInjective
  <2>1. CASE i \in 1 .. Len(s) /\ j \in 1 .. Len(s)
    BY <1>1, <1>2, <1>6, <2>1 DEF IsInjective
  <2>2. CASE i > Len(s) /\ j > Len(s)
    <3>1. i - Len(s) = j - Len(s)
      BY <1>1, <1>3, <1>6, <2>2 DEF IsInjective
    <3> QED
      BY <1>1, <3>1
  <2>3. ASSUME NEW k \in 1 .. Len(s), NEW l \in 1 .. Len(t), s[k] = t[l] PROVE FALSE
    <3>1. s[k] \in ToSet(s) /\ t[l] \in ToSet(t)
      BY <1>1 DEF ToSet
    <3> QED
      BY <1>6, <2>3, <3>1
  <2>4. CASE i \in 1 .. Len(s) /\ j > Len(s)
    <3>1. u[i] = s[i] /\ j - Len(s) \in 1 .. Len(t) /\ u[j] = t[j - Len(s)]
      BY <1>1, <1>2, <1>3, <2>4
    <3> QED
      BY <2>3, <2>4, <3>1
  <2>5. CASE j \in 1 .. Len(s) /\ i > Len(s)
    <3>1. u[j] = s[j] /\ i - Len(s) \in 1 .. Len(t) /\ u[i] = t[i - Len(s)]
      BY <1>1, <1>2, <1>3, <2>5
    <3> QED
      BY <2>3, <2>5, <3>1
  <2> QED
    BY <1>1, <2>1, <2>2, <2>4, <2>5
<1> QED
  BY <1>1, <1>4, <1>5, <1>6 DEF u

LEMMA ThreeQueues ==
  ASSUME NEW w \in Seq(SeqId), NEW p \in Seq(SeqId), NEW r \in Seq(SeqId)
  PROVE  IsInjective(w \o p \o r)
           <=> /\ IsInjective(w) /\ IsInjective(p) /\ IsInjective(r)
               /\ ToSet(w) \cap ToSet(p) = {} /\ ToSet(w) \cap ToSet(r) = {}
               /\ ToSet(p) \cap ToSet(r) = {}
<1>1. /\ w \o p \in Seq(SeqId) /\ ToSet(w \o p) = ToSet(w) \cup ToSet(p)
      /\ IsInjective(w \o p)
           <=> IsInjective(w) /\ IsInjective(p) /\ ToSet(w) \cap ToSet(p) = {}
  BY Concat
<1>2. IsInjective((w \o p) \o r)
        <=> IsInjective(w \o p) /\ IsInjective(r) /\ ToSet(w \o p) \cap ToSet(r) = {}
  BY <1>1, Concat
<1> QED
  BY <1>1, <1>2

\* What the queues say of the sequences, part by part.
LEMMA QueueFacts ==
  ASSUME StepTypeOK, QueuesConsistent
  PROVE  /\ IsInjective(waiting) /\ IsInjective(preempted) /\ IsInjective(running)
         /\ ToSet(waiting) \subseteq SeqId /\ ToSet(preempted) \subseteq SeqId
         /\ ToSet(running) \subseteq SeqId
         /\ \A id \in SeqId :
              /\ seqs[id].status = "waiting" <=> id \in ToSet(waiting)
              /\ seqs[id].status = "preempted" <=> id \in ToSet(preempted)
              /\ seqs[id].status = "running" <=> id \in ToSet(running)
              /\ id \notin ToSet(running) => seqs[id].table = << >>
              /\ seqs[id].computed <= NumTokens(id)
<1>1. waiting \in Seq(SeqId) /\ preempted \in Seq(SeqId) /\ running \in Seq(SeqId)
  BY DEF StepTypeOK
<1>2. IsInjective(waiting) /\ IsInjective(preempted) /\ IsInjective(running)
  BY <1>1, ThreeQueues DEF QueuesConsistent
<1>3. /\ ToSet(waiting) \subseteq SeqId /\ ToSet(preempted) \subseteq SeqId
      /\ ToSet(running) \subseteq SeqId
  BY <1>1 DEF ToSet
<1>4. ASSUME NEW id \in SeqId
      PROVE  /\ seqs[id].status = "waiting" <=> id \in ToSet(waiting)
             /\ seqs[id].status = "preempted" <=> id \in ToSet(preempted)
             /\ seqs[id].status = "running" <=> id \in ToSet(running)
             /\ id \notin ToSet(running) => seqs[id].table = << >>
             /\ seqs[id].computed <= NumTokens(id)
  BY DEF QueuesConsistent
<1> QED
  BY <1>2, <1>3, <1>4

\* The queues stay consistent when one sequence moves, and is found where its status says.
LEMMA QueuesChange ==
  ASSUME StepTypeOK, QueuesConsistent, NEW id \in SeqId, NEW s \in Sequence,
         seqs' = [seqs EXCEPT ![id] = s],
         waiting' \in Seq(SeqId), preempted' \in Seq(SeqId), running' \in Seq(SeqId),
         IsInjective(waiting'), IsInjective(preempted'), IsInjective(running'),
         ToSet(waiting') \ {id} = ToSet(waiting) \ {id},
         ToSet(preempted') \ {id} = ToSet(preempted) \ {id},
         ToSet(running') \ {id} = ToSet(running) \ {id},
         s.status = "waiting" <=> id \in ToSet(waiting'),
         s.status = "preempted" <=> id \in ToSet(preempted'),
         s.status = "running" <=> id \in ToSet(running'),
         s.status # "running" => s.table = << >>,
         s.computed <= Len(s.tokens)
  PROVE  QueuesConsistent'
<1>1. seqs \in [SeqId -> Sequence]
  BY DEF StepTypeOK, ManagerTypeOK
<1>2. seqs'[id] = s /\ \A other \in SeqId \ {id} : seqs'[other] = seqs[other]
  BY <1>1
<1>3. ASSUME NEW other \in SeqId
      PROVE  /\ seqs'[other].status = "waiting" <=> other \in ToSet(waiting')
             /\ seqs'[other].status = "preempted" <=> other \in ToSet(preempted')
             /\ seqs'[other].status = "running" <=> other \in ToSet(running')
             /\ other \notin ToSet(running') => seqs'[other].table = << >>
             /\ seqs'[other].computed <= Len(seqs'[other].tokens)
  <2>1. CASE other = id
    BY <1>2, <2>1
  <2>2. CASE other # id
    <3>1. /\ other \in ToSet(waiting') <=> other \in ToSet(waiting)
          /\ other \in ToSet(preempted') <=> other \in ToSet(preempted)
          /\ other \in ToSet(running') <=> other \in ToSet(running)
      BY <2>2
    <3> QED
      BY <1>2, <2>2, <3>1, QueueFacts DEF NumTokens
  <2> QED
    BY <2>1, <2>2
<1>4. /\ ToSet(waiting') \subseteq SeqId /\ ToSet(preempted') \subseteq SeqId
      /\ ToSet(running') \subseteq SeqId
  BY DEF ToSet
<1>5. IsInjective(waiting' \o preempted' \o running')
  <2>1. /\ ToSet(waiting') \cap ToSet(preempted') = {} /\ ToSet(waiting') \cap ToSet(running') = {}
        /\ ToSet(preempted') \cap ToSet(running') = {}
    BY <1>3, <1>4
  <2> QED
    BY <2>1, ThreeQueues
<1> QED
  BY <1>3, <1>5 DEF QueuesConsistent, NumTokens

\* A sequence that is absent or finished has nothing.
LEMMA BlankFacts ==
  ASSUME NEW status \in Status
  PROVE  /\ Blank(status) \in Sequence /\ Blank(status).status = status
         /\ Blank(status).table = << >> /\ Blank(status).computed = 0
         /\ Blank(status).tokens = << >>
<1>1. (CHOOSE l \in Lora : TRUE) \in Lora
  BY LoraAssumption
<1> QED
  BY <1>1 DEF Blank, Sequence

\* A preempted sequence keeps its tokens and nothing else.
LEMMA RecomputeFacts ==
  ASSUME NEW s \in Sequence
  PROVE  /\ ForRecompute(s) \in Sequence /\ ForRecompute(s).status = "preempted"
         /\ ForRecompute(s).table = << >> /\ ForRecompute(s).computed = 0
         /\ ForRecompute(s).tokens = s.tokens
<1>1. "preempted" \in Status /\ << >> \in Seq(Block) /\ 0 \in Nat
  BY DEF Status
<1>2. /\ ForRecompute(s).status = "preempted" /\ ForRecompute(s).table = << >>
      /\ ForRecompute(s).computed = 0 /\ ForRecompute(s).tokens = s.tokens
  BY DEF ForRecompute, Sequence
<1>3. ForRecompute(s) \in Sequence
  BY <1>1 DEF ForRecompute, Sequence
<1> QED
  BY <1>2, <1>3

LEMMA EmptyLoad == Load(<< >>) = 0
<1>1. << >> \in Seq(Item) /\ Len(<< >>) = 0
  OBVIOUS
<1>2. \E sum \in [0 .. Len(<< >>) -> Int] : Load(<< >>) = sum[Len(<< >>)] /\ sum[0] = 0
  BY <1>1, LoadTable
<1> QED
  BY <1>1, <1>2

\* The items that sample are items of the batch, none of them twice.
LEMMA SampledFacts ==
  ASSUME batch \in Seq(Item), \A i, j \in DOMAIN batch : batch[i].id = batch[j].id => i = j
  PROVE  /\ Sampled \in Seq(Item) /\ ToSet(Sampled) \subseteq ToSet(batch)
         /\ \A item \in ToSet(Sampled) : ~ (item.prefill /\ item.chunk)
         /\ \A i, j \in DOMAIN Sampled : Sampled[i].id = Sampled[j].id => i = j
<1> DEFINE T == {item \in ToSet(batch) : item.prefill /\ ~item.chunk}
           U == {item \in ToSet(batch) : ~item.prefill}
           s == Among(batch, T)
           t == Among(batch, U)
<1> HIDE DEF T, U
<1>1. /\ s \in Seq(Item) /\ ToSet(s) = ToSet(batch) \cap T
      /\ \E h \in [DOMAIN s -> DOMAIN batch] :
           /\ \A i \in DOMAIN s : s[i] = batch[h[i]]
           /\ \A i, j \in DOMAIN s : i < j => h[i] < h[j]
  BY AmongFacts
<1>2. /\ t \in Seq(Item) /\ ToSet(t) = ToSet(batch) \cap U
      /\ \E h \in [DOMAIN t -> DOMAIN batch] :
           /\ \A i \in DOMAIN t : t[i] = batch[h[i]]
           /\ \A i, j \in DOMAIN t : i < j => h[i] < h[j]
  BY AmongFacts
<1>3. Sampled = s \o t
  BY DEF Sampled, T, U
<1>4. ToSet(s) \cap ToSet(t) = {}
  BY <1>1, <1>2 DEF T, U
<1> HIDE DEF s, t
<1>5. /\ DOMAIN batch \subseteq Int /\ DOMAIN s = 1 .. Len(s) /\ DOMAIN t = 1 .. Len(t)
      /\ Len(s) \in Nat /\ Len(t) \in Nat
  BY <1>1, <1>2
<1>6. IsInjective(s)
  <2>1. PICK h \in [DOMAIN s -> DOMAIN batch] :
           /\ \A i \in DOMAIN s : s[i] = batch[h[i]]
           /\ \A i, j \in DOMAIN s : i < j => h[i] < h[j]
    BY <1>1
  <2> SUFFICES ASSUME NEW i \in DOMAIN s, NEW j \in DOMAIN s, i < j, s[i] = s[j] PROVE FALSE
    BY <1>5 DEF IsInjective
  <2>2. h[i] = h[j] /\ h[i] < h[j] /\ h[i] \in Int
    BY <1>5, <2>1
  <2> QED
    BY <2>2
<1>7. IsInjective(t)
  <2>1. PICK h \in [DOMAIN t -> DOMAIN batch] :
           /\ \A i \in DOMAIN t : t[i] = batch[h[i]]
           /\ \A i, j \in DOMAIN t : i < j => h[i] < h[j]
    BY <1>2
  <2> SUFFICES ASSUME NEW i \in DOMAIN t, NEW j \in DOMAIN t, i < j, t[i] = t[j] PROVE FALSE
    BY <1>5 DEF IsInjective
  <2>2. h[i] = h[j] /\ h[i] < h[j] /\ h[i] \in Int
    BY <1>5, <2>1
  <2> QED
    BY <2>2
<1>8. Sampled \in Seq(Item) /\ IsInjective(Sampled) /\ ToSet(Sampled) = ToSet(s) \cup ToSet(t)
  BY <1>1, <1>2, <1>3, <1>4, <1>6, <1>7, Concat
<1>9. ASSUME NEW i \in DOMAIN Sampled, NEW j \in DOMAIN Sampled, Sampled[i].id = Sampled[j].id
      PROVE  i = j
  <2>1. Sampled[i] \in ToSet(Sampled) /\ Sampled[j] \in ToSet(Sampled)
    BY DEF ToSet
  <2>2. Sampled[i] \in ToSet(batch) /\ Sampled[j] \in ToSet(batch)
    BY <1>1, <1>2, <1>8, <2>1
  <2>3. Sampled[i] = Sampled[j]
    BY <1>9, <2>2 DEF ToSet
  <2> QED
    BY <1>8, <2>3 DEF IsInjective
<1>10. \A item \in ToSet(Sampled) : ~ (item.prefill /\ item.chunk)
  BY <1>1, <1>2, <1>8 DEF T, U
<1> QED
  BY <1>1, <1>2, <1>8, <1>9, <1>10

\* There is a victim whenever there is a candidate.
LEMMA VictimFacts ==
  ASSUME StepTypeOK, NEW id \in SeqId, Candidates(id) # {}
  PROVE  Victim(id) \in Candidates(id)
<1> DEFINE C == Candidates(id)
           Before(v, u) == \/ seqs[v].priority < seqs[u].priority
                           \/ seqs[v].priority = seqs[u].priority /\ v >= u
           Best(n) == \E v \in C : v <= n /\ \A u \in C : u <= n => Before(v, u)
           Bad == {n \in Nat : ~ Best(n) /\ \E v \in C : v <= n}
<1>1. /\ \A v \in C : v \in Nat /\ v <= MaxRequests /\ seqs[v].priority \in Int
      /\ MaxRequests \in Nat
  <2>1. running \in Seq(SeqId) /\ seqs \in [SeqId -> Sequence]
    BY DEF StepTypeOK, ManagerTypeOK
  <2>2. C \subseteq SeqId
    BY <2>1 DEF Candidates, ToSet
  <2> HIDE DEF C
  <2>3. \A v \in C : v \in 1 .. MaxRequests /\ seqs[v] \in Sequence
    BY <2>1, <2>2 DEF SeqId
  <2>4. \A x \in Sequence : x.priority \in Int
    BY DEF Sequence
  <2> QED
    BY <2>3, <2>4, RequestsAssumption
<1> HIDE DEF C
<1>2. Bad = {}
  <2> SUFFICES ASSUME Bad # {} PROVE FALSE
    OBVIOUS
  <2>1. Bad \in SUBSET Nat
    OBVIOUS
  <2>2. PICK n \in Bad : \A m \in Bad : n <= m
    <3> HIDE DEF Bad
    <3> QED
      BY <2>1, Least
  <2>3. PICK w \in C : w <= n
    BY <2>2
  <2>4. CASE \A v \in C : v <= n => v = n
    <3>1. w = n /\ \A u \in C : u <= n => Before(w, u)
      BY <1>1, <2>3, <2>4
    <3> QED
      BY <2>2, <2>3, <3>1
  <2>5. CASE \E v \in C : v <= n /\ v # n
    <3>1. n - 1 \in Nat /\ \E v \in C : v <= n - 1
      BY <1>1, <2>2, <2>5
    <3>2. n - 1 \notin Bad
      <4> HIDE DEF Bad
      <4>1. n \in Nat /\ ~ (n <= n - 1)
        BY <2>1, <2>2
      <4> QED
        BY <2>2, <4>1
    <3>3. Best(n - 1)
      BY <3>1, <3>2
    <3>4. PICK v \in C : v <= n - 1 /\ \A u \in C : u <= n - 1 => Before(v, u)
      BY <3>3
    <3>5. n \in Nat /\ \A u \in C : u <= n => u <= n - 1 \/ u = n
      <4>1. n \in Nat
        OBVIOUS
      <4> HIDE DEF Bad
      <4> QED
        BY <1>1, <4>1
    <3>6. CASE n \notin C
      <4>1. v <= n /\ \A u \in C : u <= n => Before(v, u)
        BY <1>1, <3>1, <3>4, <3>5, <3>6
      <4> QED
        BY <2>2, <4>1
    <3>7. CASE n \in C /\ seqs[v].priority < seqs[n].priority
      <4>1. v <= n /\ \A u \in C : u <= n => Before(v, u)
        BY <1>1, <3>1, <3>4, <3>5, <3>7
      <4> QED
        BY <2>2, <4>1
    <3>8. CASE n \in C /\ ~ (seqs[v].priority < seqs[n].priority)
      <4>1. \A u \in C : u <= n => Before(n, u)
        BY <1>1, <3>1, <3>4, <3>5, <3>8
      <4> QED
        BY <1>1, <2>2, <3>8, <4>1
    <3> QED
      BY <3>6, <3>7, <3>8
  <2> QED
    BY <2>4, <2>5
<1>3. Best(MaxRequests)
  BY <1>1, <1>2 DEF C
<1>4. \E v \in C : \A u \in C : Before(v, u)
  BY <1>1, <1>3
<1> QED
  BY <1>4 DEF Victim, C

\* A table long enough for c tokens has the slots of all of them.
LEMMA TableSlot ==
  ASSUME NEW t \in Seq(Block), NEW c \in Nat, Len(t) >= BlocksFor(c), NEW n \in 1 .. c
  PROVE  LET k == (n - 1) \div BlockSize + 1
         IN  /\ k \in DOMAIN t /\ k \in Nat /\ (n - 1) % BlockSize \in Offset
             /\ SlotOf(t, n) = <<t[k], (n - 1) % BlockSize>>
             /\ t[k] \in Block /\ t[k] \in ToSet(t)
             /\ n <= k * BlockSize /\ k * BlockSize \in Nat
             /\ n = k * BlockSize - BlockSize + 1 + ((n - 1) % BlockSize)
<1> DEFINE k == (n - 1) \div BlockSize + 1
<1>2. n \in Nat \ {0} /\ n <= c
  OBVIOUS
<1>3. /\ k \in Nat \ {0} /\ (n - 1) % BlockSize \in Offset /\ k * BlockSize \in Nat
      /\ k * BlockSize - BlockSize < n /\ n <= k * BlockSize
      /\ n = k * BlockSize - BlockSize + 1 + ((n - 1) % BlockSize)
  BY <1>2, SlotFacts
<1> HIDE DEF k
<1>4. k <= Len(t)
  <2> DEFINE b == BlocksFor(c)
             m == b * BlockSize
             l == k * BlockSize
  <2>1. b \in Nat /\ c <= m /\ m \in Nat
    BY BlocksForFacts, Multiples
  <2>2. b < k => m + BlockSize <= l
    BY <1>3, <2>1, Multiples DEF l
  <2>3. BlockSize \in Nat /\ l \in Nat /\ l - BlockSize < n
    BY <1>3, BlockSizeAssumption
  <2> HIDE DEF b, m, l
  <2>4. ~ (b < k)
    BY <1>2, <2>1, <2>2, <2>3
  <2> QED
    BY <1>3, <2>1, <2>4 DEF b
<1>5. k \in DOMAIN t
  BY <1>3, <1>4
<1>6. SlotOf(t, n) = <<t[k], (n - 1) % BlockSize>>
  BY DEF SlotOf, k
<1> QED
  BY <1>3, <1>5, <1>6 DEF k, ToSet

\* The slot of a token that has K/V is in the table of its sequence.
LEMMA SlotInTable ==
  ASSUME MemoryInv, NEW id \in SeqId, NEW n \in 1 .. seqs[id].computed
  PROVE  LET k == (n - 1) \div BlockSize + 1
             t == seqs[id].table
         IN  /\ k \in DOMAIN t /\ k \in Nat /\ (n - 1) % BlockSize \in Offset
             /\ SlotOf(t, n) = <<t[k], (n - 1) % BlockSize>>
             /\ t[k] \in Block /\ t[k] \in ToSet(t)
             /\ n <= k * BlockSize /\ k * BlockSize \in Nat
             /\ n = k * BlockSize - BlockSize + 1 + ((n - 1) % BlockSize)
<1>1. /\ seqs[id].table \in Seq(Block) /\ seqs[id].computed \in Nat
      /\ Len(seqs[id].table) >= BlocksFor(seqs[id].computed)
  BY DEF MemoryInv, ManagerTypeOK, TablesTidy, Sequence
<1> QED
  BY <1>1, TableSlot

----------------------------------------------------------------------------
(* The steps preserve the inductive invariant                              *)

\* While a batch is pending, a step for one sequence leaves the items of the others as they
\* are: still running, with their tables, their blocks private.
LEMMA OthersPrivate ==
  ASSUME IInv, Pending, NEW id \in SeqId, NEW s \in Sequence, seqs' = [seqs EXCEPT ![id] = s],
         Untouched(id), NEW i \in DOMAIN batch, batch[i].id # id
  PROVE  /\ seqs'[batch[i].id].status = "running"
         /\ seqs'[batch[i].id].table = batch[i].table
         /\ batch[i].end = seqs'[batch[i].id].computed
         /\ \A n \in Positions(batch[i]) :
              LET b == SlotOf(batch[i].table, n)[1] IN refs'[b] = 1 /\ b \notin DOMAIN index'
<1> DEFINE item == batch[i]
           other == item.id
<1>1. batch \in Seq(Item) /\ seqs \in [SeqId -> Sequence] /\ MemoryInv
  BY DEF IInv, StepTypeOK, MemoryInv, ManagerTypeOK
<1>2. item \in Item /\ other \in SeqId /\ item.start \in Nat /\ item.end \in Nat
  <2>1. item \in Item
    BY <1>1
  <2> QED
    BY <2>1 DEF Item
<1>3. seqs'[other] = seqs[other]
  BY <1>1, <1>2
<1>4. seqs[other].status = "running" /\ seqs[other].table = item.table /\ item.end = seqs[other].computed
  BY DEF IInv, WritesPrivate, LoopInv
<1>5. ASSUME NEW n \in Positions(item)
      PROVE  LET b == SlotOf(item.table, n)[1] IN refs'[b] = 1 /\ b \notin DOMAIN index'
  <2> DEFINE b == SlotOf(item.table, n)[1]
  <2>1. refs[b] = 1 /\ b \notin DOMAIN index
    BY DEF IInv, WritesPrivate
  <2>2. n \in 1 .. seqs[other].computed
    BY <1>2, <1>4 DEF Positions
  <2>3. b \in Block /\ b \in ToSet(seqs[other].table)
    BY <1>1, <1>2, <1>4, <2>2, SlotInTable
  <2> HIDE DEF b
  <2>4. b \notin ToSet(seqs[id].table)
    BY <1>1, <1>2, <2>1, <2>3, Counting
  <2>5. refs'[b] = refs[b] /\ b \notin DOMAIN index'
    BY <2>1, <2>3, <2>4 DEF Untouched
  <2> QED
    BY <2>1, <2>5 DEF b
<1> QED
  BY <1>3, <1>4, <1>5

\* So when that sequence is not in the batch, the batch stays as good as it was.
LEMMA BatchKept ==
  ASSUME IInv, Pending, NEW id \in SeqId, NEW s \in Sequence, seqs' = [seqs EXCEPT ![id] = s],
         Untouched(id), id \notin Scheduled, batch' = batch
  PROVE  /\ WritesPrivate'
         /\ \A i \in DOMAIN batch' :
              seqs'[batch'[i].id].status = "running" /\ batch'[i].end = seqs'[batch'[i].id].computed
         /\ Scheduled' = Scheduled
<1>1. \A i \in DOMAIN batch : batch[i].id # id
  BY DEF Scheduled
<1>2. Scheduled' = Scheduled
  BY DEF Scheduled
<1>3. \A i \in DOMAIN batch :
         /\ seqs'[batch[i].id].status = "running"
         /\ seqs'[batch[i].id].table = batch[i].table
         /\ batch[i].end = seqs'[batch[i].id].computed
         /\ \A n \in Positions(batch[i]) :
              LET b == SlotOf(batch[i].table, n)[1] IN refs'[b] = 1 /\ b \notin DOMAIN index'
  BY <1>1, OthersPrivate
<1>4. WritesPrivate'
  BY <1>3 DEF WritesPrivate, Positions, SlotOf
<1> QED
  BY <1>2, <1>3, <1>4

\* A request arrives.
LEMMA AddRequestKeeps ==
  ASSUME IInv, NEW shape \in Shape, AddRequest(shape), UNCHANGED faulty
  PROVE  IInv'
<1>1. /\ phase = "idle" /\ phase' = phase /\ todo' = todo /\ budget' = budget /\ batch' = batch
      /\ bumped' = bumped /\ preempted' = preempted /\ running' = running
      /\ refs' = refs /\ free' = free /\ retained' = retained /\ index' = index /\ kv' = kv
      /\ shape.tokens # << >>
  BY DEF AddRequest, Accepts, stepVars
<1>2. PICK id \in SeqId :
        /\ seqs[id].status = "absent"
        /\ seqs' = [seqs EXCEPT ![id] =
                     [Blank("waiting") EXCEPT
                        !.tokens = shape.tokens, !.prompt = Len(shape.tokens),
                        !.max = shape.max, !.lora = shape.lora,
                        !.priority = shape.priority]]
        /\ waiting' = Append(waiting, id)
  BY DEF AddRequest, Push
<1> DEFINE s == [Blank("waiting") EXCEPT
                   !.tokens = shape.tokens, !.prompt = Len(shape.tokens),
                   !.max = shape.max, !.lora = shape.lora, !.priority = shape.priority]
<1>3. /\ s \in Sequence /\ s.status = "waiting" /\ s.table = << >> /\ s.computed = 0
      /\ s.tokens = shape.tokens /\ Len(s.tokens) \in Nat
  <2>1. "waiting" \in Status
    BY DEF Status
  <2>2. /\ Blank("waiting") \in Sequence /\ Blank("waiting").status = "waiting"
        /\ Blank("waiting").table = << >> /\ Blank("waiting").computed = 0
    BY <2>1, BlankFacts
  <2>3. /\ shape.tokens \in Seq(Token) /\ shape.lora \in Lora /\ shape.priority \in Int
        /\ shape.max \in Nat /\ Len(shape.tokens) \in Nat
    BY ShapeAssumption
  <2> HIDE DEF Blank
  <2> QED
    BY <2>2, <2>3 DEF Sequence
<1>4. seqs' = [seqs EXCEPT ![id] = s]
  BY <1>2
<1> HIDE DEF s
<1>5. MemoryInv /\ StepTypeOK /\ QueuesConsistent /\ LoopInv
  BY DEF IInv
<1>6. /\ seqs \in [SeqId -> Sequence] /\ seqs[id] \in Sequence
      /\ waiting \in Seq(SeqId) /\ running \in Seq(SeqId) /\ preempted \in Seq(SeqId)
  BY <1>5 DEF StepTypeOK, ManagerTypeOK
<1>7. /\ id \notin ToSet(waiting) /\ id \notin ToSet(preempted) /\ id \notin ToSet(running)
      /\ seqs[id].table = << >>
  BY <1>2, <1>5, QueueFacts
<1>8. seqs[id].computed = 0
  <2>1. seqs[id].computed \in Nat /\ BlocksFor(seqs[id].computed) <= Len(seqs[id].table)
    BY <1>5, <1>6 DEF MemoryInv, TablesTidy, Sequence
  <2>2. BlocksFor(seqs[id].computed) <= 0
    BY <1>7, <2>1
  <2> QED
    BY <2>1, <2>2, EmptyTable
<1>9. MemoryInv'
  <2>1. s.table = seqs[id].table /\ s.computed = seqs[id].computed /\ s.computed <= Len(s.tokens)
    BY <1>3, <1>7, <1>8
  <2> QED
    BY <1>1, <1>3, <1>4, <1>5, <2>1, TokensStep
<1>10. /\ waiting' \in Seq(SeqId) /\ ToSet(waiting') = ToSet(waiting) \cup {id}
       /\ IsInjective(waiting')
  <2>1. IsInjective(waiting)
    BY <1>5, QueueFacts
  <2> QED
    BY <1>2, <1>6, <1>7, <2>1, AppendFacts
<1>11. QueuesConsistent'
  <2>1. /\ preempted' \in Seq(SeqId) /\ IsInjective(preempted')
        /\ running' \in Seq(SeqId) /\ IsInjective(running')
    BY <1>1, <1>5, <1>6, QueueFacts
  <2>2. /\ ToSet(waiting') \ {id} = ToSet(waiting) \ {id}
        /\ ToSet(preempted') = ToSet(preempted) /\ ToSet(running') = ToSet(running)
        /\ id \in ToSet(waiting') /\ id \notin ToSet(preempted') /\ id \notin ToSet(running')
    BY <1>1, <1>7, <1>10
  <2>3. s.computed <= Len(s.tokens)
    BY <1>3
  <2> QED
    BY <1>3, <1>4, <1>5, <1>10, <2>1, <2>2, <2>3, QueuesChange
<1>12. StepTypeOK'
  <2>1. ManagerTypeOK'
    BY <1>9 DEF MemoryInv
  <2> QED
    BY <1>1, <1>5, <1>10, <2>1 DEF StepTypeOK
<1>13. LoopInv'
  <2>1. batch = << >> /\ IsInjective(todo) /\ \A other \in SeqId : InFlight(other) => seqs[other].tokens # << >>
    BY <1>1, <1>5 DEF LoopInv
  <2>2. \A other \in SeqId : InFlight(other)' => seqs'[other].tokens # << >>
    <3> SUFFICES ASSUME NEW other \in SeqId, InFlight(other)' PROVE seqs'[other].tokens # << >>
      OBVIOUS
    <3>1. CASE other = id
      BY <1>1, <1>3, <1>4, <1>6, <3>1
    <3>2. CASE other # id
      BY <1>4, <1>6, <2>1, <3>2 DEF InFlight
    <3> QED
      BY <3>1, <3>2
  <2>3. batch' = << >> /\ phase' = "idle" /\ todo' = todo
    BY <1>1, <2>1
  <2> QED
    BY <2>1, <2>2, <2>3 DEF LoopInv, Pending
<1> QED
  BY <1>1, <1>9, <1>11, <1>12, <1>13 DEF IInv, WritesPrivate, AdmissionFunded, Pending, Phase

\* Scheduler.finish, whoever calls it.
LEMMA RetireStep ==
  ASSUME IInv, NEW id \in SeqId, Retire(id)
  PROVE  /\ MemoryInv' /\ Untouched(id) /\ QueuesConsistent'
         /\ seqs' = [seqs EXCEPT ![id] = Blank("finished")]
         /\ waiting' \in Seq(SeqId) /\ preempted' \in Seq(SeqId) /\ running' \in Seq(SeqId)
<1> DEFINE s == Blank("finished")
<1>1. /\ s \in Sequence /\ s.status = "finished" /\ s.table = << >> /\ s.computed = 0
      /\ s.tokens = << >> /\ s.computed <= Len(s.tokens)
  <2>1. "finished" \in Status
    BY DEF Status
  <2>2. /\ s \in Sequence /\ s.status = "finished" /\ s.table = << >> /\ s.computed = 0
        /\ s.tokens = << >>
    BY <2>1, BlankFacts
  <2>3. s.computed <= Len(s.tokens)
    BY <2>2
  <2> QED
    BY <2>2, <2>3
<1>2. FreeBlocks(id, s) /\ waiting' = Drop(waiting, id) /\ preempted' = Drop(preempted, id)
      /\ running' = Drop(running, id)
  BY DEF Retire
<1> HIDE DEF s
<1>3. MemoryInv /\ StepTypeOK /\ QueuesConsistent
  BY DEF IInv
<1>4. MemoryInv' /\ Untouched(id) /\ seqs' = [seqs EXCEPT ![id] = s]
  BY <1>1, <1>2, <1>3, ReleaseStep
<1>5. waiting \in Seq(SeqId) /\ preempted \in Seq(SeqId) /\ running \in Seq(SeqId)
  BY <1>3 DEF StepTypeOK
<1>6. IsInjective(waiting) /\ IsInjective(preempted) /\ IsInjective(running)
  BY <1>3, QueueFacts
<1>7. /\ waiting' \in Seq(SeqId) /\ IsInjective(waiting') /\ ToSet(waiting') = ToSet(waiting) \ {id}
      /\ preempted' \in Seq(SeqId) /\ IsInjective(preempted')
      /\ ToSet(preempted') = ToSet(preempted) \ {id}
      /\ running' \in Seq(SeqId) /\ IsInjective(running') /\ ToSet(running') = ToSet(running) \ {id}
  BY <1>2, <1>5, <1>6, DropFacts
<1>8. QueuesConsistent'
  <2>1. /\ ToSet(waiting') \ {id} = ToSet(waiting) \ {id} /\ id \notin ToSet(waiting')
        /\ ToSet(preempted') \ {id} = ToSet(preempted) \ {id} /\ id \notin ToSet(preempted')
        /\ ToSet(running') \ {id} = ToSet(running) \ {id} /\ id \notin ToSet(running')
    BY <1>7
  <2> QED
    BY <1>1, <1>3, <1>4, <1>7, <2>1, QueuesChange
<1> QED
  BY <1>4, <1>7, <1>8 DEF s

\* A finished sequence is not in flight, the others are what they were.
LEMMA RetireKeepsTokens ==
  ASSUME IInv, NEW id \in SeqId, seqs' = [seqs EXCEPT ![id] = Blank("finished")],
         NEW other \in SeqId, InFlight(other)'
  PROVE  other # id /\ seqs'[other] = seqs[other] /\ seqs'[other].tokens # << >>
<1>1. seqs \in [SeqId -> Sequence]
  BY DEF IInv, StepTypeOK, ManagerTypeOK
<1>2. "finished" \in Status
  BY DEF Status
<1>3. Blank("finished").status = "finished"
  BY <1>2, BlankFacts
<1>4. other # id
  <2> SUFFICES ASSUME other = id PROVE FALSE
    OBVIOUS
  <2>1. seqs'[other].status = "finished"
    BY <1>1, <1>3
  <2> QED
    BY <2>1 DEF InFlight
<1>5. seqs'[other] = seqs[other]
  BY <1>1, <1>4
<1>6. InFlight(other)
  BY <1>5 DEF InFlight
<1>7. seqs[other].tokens # << >>
  BY <1>6 DEF IInv, LoopInv
<1> QED
  BY <1>4, <1>5, <1>7

LEMMA AbortKeeps ==
  ASSUME IInv, NEW id \in SeqId, Abort(id), UNCHANGED faulty
  PROVE  IInv'
<1>1. /\ phase = "idle" /\ Retire(id) /\ phase' = phase /\ todo' = todo /\ budget' = budget
      /\ batch' = batch /\ bumped' = bumped
  BY DEF Abort, stepVars
<1>2. /\ MemoryInv' /\ QueuesConsistent' /\ seqs' = [seqs EXCEPT ![id] = Blank("finished")]
      /\ waiting' \in Seq(SeqId) /\ preempted' \in Seq(SeqId) /\ running' \in Seq(SeqId)
  BY <1>1, RetireStep
<1>3. StepTypeOK'
  <2>1. ManagerTypeOK' /\ StepTypeOK
    BY <1>2 DEF MemoryInv, IInv
  <2> QED
    BY <1>1, <1>2, <2>1 DEF StepTypeOK
<1>4. LoopInv'
  <2>1. batch = << >> /\ IsInjective(todo)
    BY <1>1 DEF IInv, LoopInv
  <2>2. \A other \in SeqId : InFlight(other)' => seqs'[other].tokens # << >>
    BY <1>2, RetireKeepsTokens
  <2>3. batch' = << >> /\ phase' = "idle" /\ todo' = todo
    BY <1>1, <2>1
  <2> QED
    BY <2>1, <2>2, <2>3 DEF LoopInv, Pending
<1> QED
  BY <1>1, <1>2, <1>3, <1>4 DEF IInv, WritesPrivate, AdmissionFunded, Pending, Phase

\* The engine is closed.
LEMMA CloseKeeps ==
  ASSUME IInv, Close, UNCHANGED faulty
  PROVE  IInv'
<1>1. /\ phase = "idle" /\ Pool!Reset /\ kv' = [b \in Block |-> Unwritten]
      /\ seqs' = [id \in SeqId |-> IF InFlight(id) THEN Blank("finished") ELSE seqs[id]]
      /\ waiting' = << >> /\ preempted' = << >> /\ running' = << >> /\ phase' = "closed"
      /\ todo' = todo /\ budget' = budget /\ batch' = batch /\ bumped' = bumped
  BY DEF Close
<1>2. MemoryInv /\ StepTypeOK /\ QueuesConsistent /\ LoopInv
  BY DEF IInv
<1>3. seqs \in [SeqId -> Sequence]
  BY <1>2 DEF StepTypeOK, ManagerTypeOK
<1>4. ASSUME NEW id \in SeqId
      PROVE  /\ seqs'[id] \in Sequence /\ seqs'[id].table = << >> /\ seqs'[id].computed = 0
             /\ seqs'[id].status \notin {"waiting", "preempted", "running"}
             /\ seqs'[id].computed <= Len(seqs'[id].tokens)
  <2>1. CASE InFlight(id)
    <3>1. "finished" \in Status
      BY DEF Status
    <3>2. seqs'[id] = Blank("finished")
      BY <1>1, <2>1
    <3>3. /\ seqs'[id] \in Sequence /\ seqs'[id].table = << >> /\ seqs'[id].computed = 0
          /\ seqs'[id].status = "finished" /\ seqs'[id].tokens = << >>
      BY <3>1, <3>2, BlankFacts
    <3> QED
      BY <3>3
  <2>2. CASE ~ InFlight(id)
    <3>1. seqs'[id] = seqs[id] /\ seqs[id] \in Sequence
      BY <1>1, <1>3, <2>2
    <3>2. seqs[id].status \notin {"waiting", "preempted", "running"}
      BY <2>2 DEF InFlight
    <3>3. seqs[id].table = << >>
      BY <1>2, <3>2, QueueFacts
    <3>4. /\ seqs[id].computed \in Nat /\ seqs[id].computed <= Len(seqs[id].tokens)
          /\ Len(seqs[id].table) >= BlocksFor(seqs[id].computed)
      BY <1>2, <3>1 DEF MemoryInv, TablesTidy, NumTokens, Sequence
    <3>5. BlocksFor(seqs[id].computed) <= 0
      BY <3>3, <3>4
    <3> QED
      BY <3>1, <3>2, <3>3, <3>4, <3>5, EmptyTable
  <2> QED
    BY <2>1, <2>2
<1>5. seqs' \in [SeqId -> Sequence]
  BY <1>1, <1>4
<1>6. MemoryInv'
  BY <1>1, <1>4, <1>5, ResetStep
<1>7. QueuesConsistent'
  <2>1. /\ waiting' \in Seq(SeqId) /\ preempted' \in Seq(SeqId) /\ running' \in Seq(SeqId)
        /\ ToSet(waiting') = {} /\ ToSet(preempted') = {} /\ ToSet(running') = {}
        /\ IsInjective(waiting') /\ IsInjective(preempted') /\ IsInjective(running')
    BY <1>1 DEF ToSet, IsInjective
  <2>2. IsInjective(waiting' \o preempted' \o running')
    BY <2>1, ThreeQueues
  <2> QED
    BY <1>4, <2>1, <2>2 DEF QueuesConsistent, NumTokens
<1>8. StepTypeOK'
  <2>1. ManagerTypeOK'
    BY <1>6 DEF MemoryInv
  <2> QED
    BY <1>1, <1>2, <2>1 DEF StepTypeOK
<1>9. LoopInv'
  <2>1. batch' = << >> /\ IsInjective(todo')
    BY <1>1, <1>2 DEF LoopInv
  <2>2. \A id \in SeqId : ~ InFlight(id)'
    BY <1>4 DEF InFlight
  <2> QED
    BY <1>1, <2>1, <2>2 DEF LoopInv, Pending
<1> QED
  BY <1>1, <1>6, <1>7, <1>8, <1>9 DEF IInv, WritesPrivate, AdmissionFunded, Pending, Phase

\* step() begins.
LEMMA BeginStepKeeps ==
  ASSUME IInv, BeginStep, UNCHANGED faulty
  PROVE  IInv'
<1>1. /\ phase' = "publish" /\ todo' = running /\ budget' = FullBudget /\ batch' = << >>
      /\ bumped' = {} /\ UNCHANGED <<managerVars, queues>>
  BY DEF BeginStep
<1>2. /\ refs' = refs /\ free' = free /\ retained' = retained /\ index' = index /\ kv' = kv
      /\ seqs' = seqs /\ waiting' = waiting /\ preempted' = preempted /\ running' = running
  BY <1>1 DEF managerVars, queues
<1>3. MemoryInv' /\ QueuesConsistent'
  BY <1>2 DEF IInv, MemoryInv, ManagerTypeOK, Pool!PoolTypeOK, BlocksAccounted, Pool!ThreeStates,
              Pool!CacheAgrees, TablesTidy, OpenPrivate, NumTokens, BlocksFor, QueuesConsistent
<1>4. StepTypeOK'
  <2>1. ManagerTypeOK' /\ StepTypeOK
    BY <1>3 DEF MemoryInv, IInv
  <2>2. budget' \in [tokens : Nat, seqs : Nat]
    BY <1>1, BudgetAssumption DEF FullBudget, SchedulerConfigValid
  <2> QED
    BY <1>1, <1>2, <2>1, <2>2 DEF StepTypeOK
<1>5. LoopInv'
  <2>1. Load(batch') = 0 /\ Len(batch') = 0
    BY <1>1, EmptyLoad
  <2>2. /\ Load(batch') + budget'.tokens = MaxBatchedTokens
        /\ Len(batch') + budget'.seqs = MaxNumSeqs
    <3>1. MaxBatchedTokens \in Nat /\ MaxNumSeqs \in Nat
      BY BudgetAssumption DEF SchedulerConfigValid
    <3> QED
      BY <1>1, <2>1, <3>1 DEF FullBudget
  <2>3. Load(batch)' = Load(batch')
    BY DEF Load
  <2>4. IsInjective(todo')
    BY <1>1, QueueFacts DEF IInv
  <2>5. \A id \in SeqId : InFlight(id)' => seqs'[id].tokens # << >>
    BY <1>2 DEF IInv, LoopInv, InFlight
  <2> QED
    BY <1>1, <2>2, <2>3, <2>4, <2>5 DEF LoopInv, Pending
<1> QED
  BY <1>1, <1>3, <1>4, <1>5 DEF IInv, WritesPrivate, AdmissionFunded, Pending, Phase

\* A step that only moves on.
LEMMA MoveOn ==
  ASSUME IInv, UNCHANGED <<managerVars, queues, budget, batch, faulty>>, bumped' \in SUBSET SeqId,
         todo' \in Seq(SeqId), IsInjective(todo'),
         phase \in {"publish", "running", "admit", "emit", "execute"},
         phase' \in {"running", "admit", "execute", "idle"},
         phase' = "idle" => batch = << >>,
         phase' = "running" => ToSet(todo') \cap Scheduled = {}
  PROVE  IInv'
<1>1. /\ refs' = refs /\ free' = free /\ retained' = retained /\ index' = index /\ kv' = kv
      /\ seqs' = seqs /\ waiting' = waiting /\ preempted' = preempted /\ running' = running
      /\ budget' = budget /\ batch' = batch /\ faulty' = faulty
  BY DEF managerVars, queues
<1>2. MemoryInv' /\ QueuesConsistent'
  BY <1>1 DEF IInv, MemoryInv, ManagerTypeOK, Pool!PoolTypeOK, BlocksAccounted, Pool!ThreeStates,
              Pool!CacheAgrees, TablesTidy, OpenPrivate, NumTokens, BlocksFor, QueuesConsistent
<1>3. StepTypeOK'
  <2>1. ManagerTypeOK' /\ StepTypeOK
    BY <1>2 DEF MemoryInv, IInv
  <2> QED
    BY <1>1, <2>1 DEF StepTypeOK
<1>4. WritesPrivate'
  <2>1. Pending \/ batch = << >>
    BY DEF IInv, LoopInv, Pending
  <2>2. batch = << >> => WritesPrivate'
    BY <1>1 DEF WritesPrivate
  <2>3. Pending => WritesPrivate'
    BY <1>1 DEF WritesPrivate, IInv, Positions, SlotOf
  <2> QED
    BY <2>1, <2>2, <2>3 DEF WritesPrivate
<1>5. LoopInv'
  <2>1. phase' \in {"publish", "running", "admit", "emit", "execute"}
          => /\ Load(batch)' + budget'.tokens = MaxBatchedTokens
             /\ Len(batch') + budget'.seqs = MaxNumSeqs
    <3>1. Load(batch)' = Load(batch)
      BY <1>1 DEF Load
    <3> QED
      BY <1>1, <3>1 DEF IInv, LoopInv
  <2>2. Scheduled' = Scheduled
    BY <1>1 DEF Scheduled
  <2>3. /\ \A i, j \in DOMAIN batch' : batch'[i].id = batch'[j].id => i = j
        /\ \A i \in DOMAIN batch' : seqs'[batch'[i].id].status # "absent"
    BY <1>1 DEF IInv, LoopInv
  <2>4. \A i \in DOMAIN batch' : batch'[i].end = seqs'[batch'[i].id].computed
    <3>1. CASE Pending
      BY <1>1, <3>1 DEF IInv, LoopInv
    <3>2. CASE batch = << >>
      BY <1>1, <3>2
    <3> QED
      BY <3>1, <3>2 DEF IInv, LoopInv, Pending
  <2>5. \A id \in SeqId : InFlight(id)' => seqs'[id].tokens # << >>
    BY <1>1 DEF IInv, LoopInv, InFlight
  <2> QED
    BY <1>1, <2>1, <2>2, <2>3, <2>4, <2>5 DEF LoopInv
<1> QED
  BY <1>2, <1>3, <1>4, <1>5 DEF IInv, AdmissionFunded, Phase

LEMMA PublishNextKeeps ==
  ASSUME IInv, PublishNext, UNCHANGED faulty
  PROVE  IInv'
<1>1. /\ phase = "publish" /\ todo # << >> /\ PublishComputed(Head(todo)) /\ todo' = Tail(todo)
      /\ waiting' = waiting /\ preempted' = preempted /\ running' = running
      /\ phase' = phase /\ budget' = budget /\ batch' = batch /\ bumped' = bumped
  BY DEF PublishNext, queues
<1>2. MemoryInv /\ StepTypeOK /\ QueuesConsistent /\ LoopInv
  BY DEF IInv
<1>3. /\ todo \in Seq(SeqId) /\ IsInjective(todo) /\ seqs \in [SeqId -> Sequence]
      /\ waiting \in Seq(SeqId) /\ preempted \in Seq(SeqId) /\ running \in Seq(SeqId)
  BY <1>2 DEF StepTypeOK, ManagerTypeOK, LoopInv
<1> DEFINE id == Head(todo)
<1>4. id \in SeqId /\ todo' \in Seq(SeqId) /\ IsInjective(todo')
  BY <1>1, <1>3, TailFacts
<1> HIDE DEF id
<1>5. /\ MemoryInv'
      /\ \E s \in Sequence :
           /\ seqs' = [seqs EXCEPT ![id] = s]
           /\ s.status = seqs[id].status /\ s.tokens = seqs[id].tokens /\ s.table = seqs[id].table
           /\ s.lora = seqs[id].lora /\ s.computed = seqs[id].computed
  BY <1>1, <1>2, <1>4, PublishStep DEF id
<1>6. PICK s \in Sequence :
           /\ seqs' = [seqs EXCEPT ![id] = s]
           /\ s.status = seqs[id].status /\ s.tokens = seqs[id].tokens /\ s.table = seqs[id].table
           /\ s.lora = seqs[id].lora /\ s.computed = seqs[id].computed
  BY <1>5
<1>7. QueuesConsistent'
  <2>1. /\ IsInjective(waiting') /\ IsInjective(preempted') /\ IsInjective(running')
        /\ s.status = "waiting" <=> id \in ToSet(waiting')
    BY <1>1, <1>2, <1>4, <1>6, QueueFacts
  <2>2. s.status = "preempted" <=> id \in ToSet(preempted')
    BY <1>1, <1>2, <1>4, <1>6, QueueFacts
  <2>3. s.status = "running" <=> id \in ToSet(running')
    BY <1>1, <1>2, <1>4, <1>6, QueueFacts
  <2>4. s.status # "running" => s.table = << >>
    BY <1>2, <1>4, <1>6, QueueFacts
  <2>5. s.computed <= Len(s.tokens)
    BY <1>2, <1>4, <1>6, QueueFacts DEF NumTokens
  <2> QED
    BY <1>1, <1>2, <1>3, <1>4, <1>6, <2>1, <2>2, <2>3, <2>4, <2>5, QueuesChange
<1>8. StepTypeOK'
  <2>1. ManagerTypeOK'
    BY <1>5 DEF MemoryInv
  <2> QED
    BY <1>1, <1>2, <1>4, <2>1 DEF StepTypeOK
<1>9. LoopInv'
  <2>1. /\ batch' = << >> /\ batch = << >>
        /\ Load(batch) + budget.tokens = MaxBatchedTokens /\ Len(batch) + budget.seqs = MaxNumSeqs
        /\ \A other \in SeqId : InFlight(other) => seqs[other].tokens # << >>
    BY <1>1, <1>2 DEF LoopInv
  <2>2. Load(batch)' = Load(batch)
    BY <1>1 DEF Load
  <2>3. \A other \in SeqId : InFlight(other)' => seqs'[other].tokens # << >>
    <3> SUFFICES ASSUME NEW other \in SeqId, InFlight(other)' PROVE seqs'[other].tokens # << >>
      OBVIOUS
    <3>1. seqs'[other].status = seqs[other].status /\ seqs'[other].tokens = seqs[other].tokens
      BY <1>3, <1>4, <1>6
    <3>2. InFlight(other)
      BY <3>1 DEF InFlight
    <3> QED
      BY <2>1, <3>1, <3>2
  <2> QED
    BY <1>1, <1>4, <2>1, <2>2, <2>3 DEF LoopInv, Pending
<1> QED
  BY <1>1, <1>5, <1>7, <1>8, <1>9 DEF IInv, WritesPrivate, AdmissionFunded, Pending, Phase

LEMMA EndPublishKeeps ==
  ASSUME IInv, EndPublish, UNCHANGED faulty
  PROVE  IInv'
<1>1. /\ phase = "publish" /\ phase' = "running" /\ todo' = running /\ bumped' = bumped
      /\ UNCHANGED <<managerVars, queues, budget, batch, faulty>>
  BY DEF EndPublish
<1>2. batch = << >> /\ running \in Seq(SeqId) /\ IsInjective(running) /\ bumped \in SUBSET SeqId
  BY <1>1, QueueFacts DEF IInv, LoopInv, StepTypeOK
<1>3. Scheduled = {}
  BY <1>2 DEF Scheduled
<1> QED
  BY <1>1, <1>2, <1>3, MoveOn

LEMMA SkipRunningKeeps ==
  ASSUME IInv, NEW id \in SeqId, SkipRunning(id), UNCHANGED faulty
  PROVE  IInv'
<1>1. /\ phase = "running" /\ phase' = phase /\ todo # << >> /\ todo' = Tail(todo)
      /\ bumped' = bumped /\ UNCHANGED <<managerVars, queues, budget, batch, faulty>>
  BY DEF SkipRunning, Visiting
<1>2. todo \in Seq(SeqId) /\ IsInjective(todo) /\ bumped \in SUBSET SeqId
  BY DEF IInv, LoopInv, StepTypeOK
<1>3. todo' \in Seq(SeqId) /\ IsInjective(todo') /\ ToSet(todo') \subseteq ToSet(todo)
  BY <1>1, <1>2, TailFacts
<1>4. ToSet(todo') \cap Scheduled = {}
  BY <1>1, <1>3 DEF IInv, LoopInv
<1> QED
  BY <1>1, <1>2, <1>3, <1>4, MoveOn

LEMMA EndRunningKeeps ==
  ASSUME IInv, EndRunning, UNCHANGED faulty
  PROVE  IInv'
<1>1. /\ phase = "running" /\ phase' = "admit" /\ todo' = << >> /\ bumped' = bumped
      /\ UNCHANGED <<managerVars, queues, budget, batch, faulty>>
  BY DEF EndRunning
<1>2. todo' \in Seq(SeqId) /\ IsInjective(todo') /\ bumped \in SUBSET SeqId
  BY <1>1 DEF IInv, StepTypeOK, IsInjective
<1> QED
  BY <1>1, <1>2, MoveOn

LEMMA EndScheduleKeeps ==
  ASSUME IInv, EndSchedule, UNCHANGED faulty
  PROVE  IInv'
<1>1. /\ phase = "admit" /\ phase' = (IF batch = << >> THEN "idle" ELSE "execute")
      /\ todo' = todo /\ bumped' = bumped /\ batch' = batch
      /\ UNCHANGED <<managerVars, queues, budget, batch, faulty>>
  BY DEF EndSchedule
<1>2. todo' \in Seq(SeqId) /\ IsInjective(todo') /\ bumped \in SUBSET SeqId
  BY <1>1 DEF IInv, StepTypeOK, LoopInv
<1> QED
  BY <1>1, <1>2, MoveOn

\* _preempt of a sequence that is running and not in the batch.
LEMMA PreemptStep ==
  ASSUME IInv, phase = "running", NEW v \in SeqId, seqs[v].status = "running", v \notin Scheduled,
         Preempt(v), UNCHANGED <<phase, budget, batch, faulty>>,
         todo' \in Seq(SeqId), IsInjective(todo'), ToSet(todo') \subseteq ToSet(todo)
  PROVE  IInv'
<1> DEFINE s == ForRecompute(seqs[v])
<1>1. MemoryInv /\ StepTypeOK /\ QueuesConsistent /\ LoopInv
  BY DEF IInv
<1>2. /\ seqs \in [SeqId -> Sequence] /\ seqs[v] \in Sequence
      /\ waiting \in Seq(SeqId) /\ preempted \in Seq(SeqId) /\ running \in Seq(SeqId)
      /\ bumped \in SUBSET SeqId
  BY <1>1 DEF StepTypeOK, ManagerTypeOK
<1>3. /\ FreeBlocks(v, s) /\ running' = Drop(running, v) /\ preempted' = Append(preempted, v)
      /\ bumped' = bumped \cup {v} /\ waiting' = waiting
  BY DEF Preempt
<1>4. /\ s \in Sequence /\ s.status = "preempted" /\ s.table = << >> /\ s.computed = 0
      /\ s.tokens = seqs[v].tokens
  BY <1>2, RecomputeFacts
<1> HIDE DEF s
<1>5. MemoryInv' /\ Untouched(v) /\ seqs' = [seqs EXCEPT ![v] = s]
  BY <1>1, <1>3, <1>4, ReleaseStep
<1>6. /\ IsInjective(waiting) /\ IsInjective(preempted) /\ IsInjective(running)
      /\ v \notin ToSet(waiting) /\ v \notin ToSet(preempted) /\ v \in ToSet(running)
  BY <1>1, QueueFacts
<1>7. /\ running' \in Seq(SeqId) /\ IsInjective(running') /\ ToSet(running') = ToSet(running) \ {v}
  BY <1>2, <1>3, <1>6, DropFacts
<1>8. /\ preempted' \in Seq(SeqId) /\ IsInjective(preempted')
      /\ ToSet(preempted') = ToSet(preempted) \cup {v}
  BY <1>2, <1>3, <1>6, AppendFacts
<1>9. QueuesConsistent'
  <2>1. /\ ToSet(waiting') = ToSet(waiting) /\ v \notin ToSet(waiting')
        /\ ToSet(preempted') \ {v} = ToSet(preempted) \ {v} /\ v \in ToSet(preempted')
        /\ ToSet(running') \ {v} = ToSet(running) \ {v} /\ v \notin ToSet(running')
    BY <1>3, <1>6, <1>7, <1>8
  <2>2. s.computed <= Len(s.tokens)
    <3>1. Len(s.tokens) \in Nat
      BY <1>4 DEF Sequence
    <3> QED
      BY <1>4, <3>1
  <2>3. waiting' \in Seq(SeqId) /\ IsInjective(waiting')
    BY <1>2, <1>3, <1>6
  <2> QED
    BY <1>1, <1>4, <1>5, <1>7, <1>8, <2>1, <2>2, <2>3, QueuesChange
<1>10. StepTypeOK'
  <2>1. ManagerTypeOK'
    BY <1>5 DEF MemoryInv
  <2>2. bumped' \in SUBSET SeqId /\ waiting' \in Seq(SeqId)
    BY <1>2, <1>3
  <2> QED
    BY <1>1, <1>7, <1>8, <2>1, <2>2 DEF StepTypeOK
<1>11. /\ WritesPrivate' /\ Scheduled' = Scheduled
       /\ \A i \in DOMAIN batch' :
            seqs'[batch'[i].id].status = "running" /\ batch'[i].end = seqs'[batch'[i].id].computed
  <2>1. Pending
    BY DEF Pending
  <2> QED
    BY <1>4, <1>5, <2>1, BatchKept
<1>12. LoopInv'
  <2>1. /\ Load(batch) + budget.tokens = MaxBatchedTokens /\ Len(batch) + budget.seqs = MaxNumSeqs
        /\ ToSet(todo) \cap Scheduled = {}
        /\ \A i, j \in DOMAIN batch : batch[i].id = batch[j].id => i = j
        /\ \A other \in SeqId : InFlight(other) => seqs[other].tokens # << >>
    BY <1>1 DEF LoopInv
  <2>2. Load(batch)' = Load(batch)
    BY DEF Load
  <2>3. \A other \in SeqId : InFlight(other)' => seqs'[other].tokens # << >>
    <3> SUFFICES ASSUME NEW other \in SeqId, InFlight(other)' PROVE seqs'[other].tokens # << >>
      OBVIOUS
    <3>1. CASE other = v
      <4>1. seqs'[other].tokens = seqs[v].tokens
        BY <1>2, <1>4, <1>5, <3>1
      <4>2. InFlight(v)
        BY DEF InFlight
      <4> QED
        BY <2>1, <4>1, <4>2
    <3>2. CASE other # v
      <4>1. seqs'[other] = seqs[other]
        BY <1>5, <3>2
      <4>2. InFlight(other)
        BY <4>1 DEF InFlight
      <4> QED
        BY <2>1, <4>1, <4>2
    <3> QED
      BY <3>1, <3>2
  <2>4. ToSet(todo') \cap Scheduled' = {}
    BY <1>11, <2>1
  <2>5. \A i \in DOMAIN batch' : seqs'[batch'[i].id].status # "absent"
    BY <1>11
  <2>6. /\ Load(batch)' + budget'.tokens = MaxBatchedTokens
        /\ Len(batch') + budget'.seqs = MaxNumSeqs
        /\ \A i, j \in DOMAIN batch' : batch'[i].id = batch'[j].id => i = j
        /\ phase' = "running"
    BY <2>1, <2>2
  <2> QED
    BY <1>11, <2>3, <2>4, <2>5, <2>6 DEF LoopInv
<1> QED
  BY <1>5, <1>9, <1>10, <1>11, <1>12 DEF IInv, AdmissionFunded, Phase

LEMMA PreemptVictimKeeps ==
  ASSUME IInv, NEW id \in SeqId, PreemptVictim(id), UNCHANGED faulty
  PROVE  IInv'
<1>1. /\ phase = "running" /\ Candidates(id) # {} /\ Preempt(Victim(id))
      /\ UNCHANGED <<phase, todo, budget, batch, faulty>>
  BY DEF PreemptVictim, Visiting
<1>2. StepTypeOK
  BY DEF IInv
<1>3. Victim(id) \in Candidates(id)
  BY <1>1, <1>2, VictimFacts
<1>4. Victim(id) \in SeqId /\ seqs[Victim(id)].status = "running" /\ Victim(id) \notin Scheduled
  BY <1>2, <1>3 DEF Candidates, StepTypeOK, ToSet
<1>5. todo' \in Seq(SeqId) /\ IsInjective(todo') /\ ToSet(todo') \subseteq ToSet(todo)
  BY <1>1 DEF IInv, StepTypeOK, LoopInv
<1> QED
  BY <1>1, <1>4, <1>5, PreemptStep

LEMMA PreemptSelfKeeps ==
  ASSUME IInv, NEW id \in SeqId, PreemptSelf(id), UNCHANGED faulty
  PROVE  IInv'
<1>1. /\ phase = "running" /\ todo # << >> /\ id = Head(todo) /\ ~Passed(id)
      /\ Preempt(id) /\ todo' = Tail(todo) /\ UNCHANGED <<phase, budget, batch, faulty>>
  BY DEF PreemptSelf, Visiting
<1>2. todo \in Seq(SeqId) /\ IsInjective(todo) /\ ToSet(todo) \cap Scheduled = {}
  BY <1>1 DEF IInv, LoopInv, StepTypeOK
<1>3. /\ todo' \in Seq(SeqId) /\ IsInjective(todo') /\ ToSet(todo') \subseteq ToSet(todo)
      /\ id \in ToSet(todo)
  BY <1>1, <1>2, TailFacts
<1>4. id \notin Scheduled /\ seqs[id].status = "running"
  BY <1>1, <1>2, <1>3 DEF Passed
<1> QED
  BY <1>1, <1>3, <1>4, PreemptStep

\* The share of the budget a sequence gets.
LEMMA NewTokensFacts ==
  ASSUME IInv, NEW id \in SeqId, ~ Exhausted
  PROVE  /\ Uncomputed(id) \in Nat /\ NewTokens(id) \in Nat
         /\ NewTokens(id) <= Uncomputed(id) /\ NewTokens(id) <= budget.tokens
         /\ seqs[id].computed + NewTokens(id) <= NumTokens(id)
         /\ Uncomputed(id) > 0 => NewTokens(id) > 0
         /\ budget.tokens \in Nat /\ budget.seqs \in Nat /\ budget.tokens > 0 /\ budget.seqs > 0
<1>1. seqs[id].computed \in Nat /\ NumTokens(id) \in Nat /\ seqs[id].computed <= NumTokens(id)
  BY DEF IInv, MemoryInv, ManagerTypeOK, TablesTidy, Sequence, NumTokens
<1>2. budget.tokens \in Nat /\ budget.seqs \in Nat /\ budget.tokens > 0 /\ budget.seqs > 0
  BY DEF IInv, StepTypeOK, Exhausted
<1>3. Uncomputed(id) \in Nat /\ Uncomputed(id) = NumTokens(id) - seqs[id].computed
  BY <1>1 DEF Uncomputed
<1>4. NewTokens(id) = IF Uncomputed(id) <= budget.tokens THEN Uncomputed(id) ELSE budget.tokens
  BY DEF NewTokens, NumNew
<1> QED
  BY <1>1, <1>2, <1>3, <1>4

\* _emit: the item goes to the batch with its slots, and is paid for.
LEMMA EmitStep ==
  ASSUME IInv, phase \in {"running", "emit"}, NEW id \in SeqId, seqs[id].status = "running",
         id \notin Scheduled, ~ Exhausted, Emit(id, NewTokens(id)),
         UNCHANGED <<queues, bumped, faulty>>,
         todo' \in Seq(SeqId), IsInjective(todo'), phase' \in {"running", "admit"},
         phase' = "running" => ToSet(todo') \cap Scheduled = {} /\ id \notin ToSet(todo')
  PROVE  IInv'
<1> DEFINE n == NewTokens(id)
           start == seqs[id].computed
           isPrefill == start < seqs[id].prompt
           item == [id |-> id, start |-> start, end |-> start + n, prefill |-> isPrefill,
                    chunk |-> isPrefill /\ start + n < seqs[id].prompt,
                    table |-> seqs'[id].table]
<1>1. /\ AppendSlots(id, n) /\ batch' = Append(batch, item)
      /\ budget' = [budget EXCEPT !.tokens = @ - n, !.seqs = @ - 1]
      /\ waiting' = waiting /\ preempted' = preempted /\ running' = running
      /\ bumped' = bumped /\ faulty' = faulty
  BY DEF Emit, Charge, queues
<1>2. MemoryInv /\ StepTypeOK /\ QueuesConsistent /\ LoopInv /\ Pending
  BY DEF IInv, Pending
<1>3. /\ n \in Nat /\ start + n <= NumTokens(id) /\ n <= budget.tokens
      /\ budget \in [tokens : Nat, seqs : Nat] /\ budget.seqs > 0
  BY <1>2, NewTokensFacts DEF StepTypeOK
<1> HIDE DEF n
<1>4. /\ seqs \in [SeqId -> Sequence] /\ batch \in Seq(Item) /\ seqs[id] \in Sequence
      /\ start \in Nat /\ seqs[id].prompt \in Nat
      /\ waiting \in Seq(SeqId) /\ preempted \in Seq(SeqId) /\ running \in Seq(SeqId)
      /\ bumped \in SUBSET SeqId
  BY <1>2 DEF StepTypeOK, ManagerTypeOK, Sequence
<1>5. /\ MemoryInv' /\ Untouched(id)
      /\ \E s \in Sequence :
           /\ seqs' = [seqs EXCEPT ![id] = s]
           /\ s.status = seqs[id].status /\ s.tokens = seqs[id].tokens /\ s.lora = seqs[id].lora
           /\ s.computed = seqs[id].computed + n
           /\ \A i \in DOMAIN s.table :
                i * BlockSize > seqs[id].computed =>
                  refs'[s.table[i]] = 1 /\ s.table[i] \notin DOMAIN index'
  BY <1>1, <1>2, <1>3, AppendStep
<1>6. PICK s \in Sequence :
           /\ seqs' = [seqs EXCEPT ![id] = s]
           /\ s.status = seqs[id].status /\ s.tokens = seqs[id].tokens /\ s.lora = seqs[id].lora
           /\ s.computed = seqs[id].computed + n
           /\ \A i \in DOMAIN s.table :
                i * BlockSize > seqs[id].computed =>
                  refs'[s.table[i]] = 1 /\ s.table[i] \notin DOMAIN index'
  BY <1>5
<1>7. seqs'[id] = s /\ \A other \in SeqId \ {id} : seqs'[other] = seqs[other]
  BY <1>4, <1>6
<1>8. /\ item \in Item /\ item.id = id /\ item.start = start /\ item.end = start + n
      /\ item.table = s.table
  <2>1. s.table \in Seq(Block) /\ seqs'[id].table = s.table
    BY <1>7 DEF Sequence
  <2>2. start + n \in Nat /\ isPrefill \in BOOLEAN
        /\ (isPrefill /\ start + n < seqs[id].prompt) \in BOOLEAN
    BY <1>3, <1>4
  <2> HIDE DEF isPrefill
  <2> QED
    BY <1>4, <2>1, <2>2 DEF Item
<1> HIDE DEF item
<1>9. /\ batch' \in Seq(Item) /\ Len(batch') = Len(batch) + 1 /\ Len(batch) \in Nat
      /\ DOMAIN batch = 1 .. Len(batch) /\ DOMAIN batch' = 1 .. Len(batch) + 1
      /\ \A i \in DOMAIN batch : batch'[i] = batch[i]
      /\ batch'[Len(batch) + 1] = item
  BY <1>1, <1>4, <1>8, AppendFacts
<1>10. ASSUME NEW i \in DOMAIN batch'
       PROVE  \/ i \in DOMAIN batch /\ batch'[i] = batch[i]
              \/ i = Len(batch) + 1 /\ batch'[i] = item
  <2>1. i \in 1 .. Len(batch) + 1 /\ Len(batch) \in Nat
    BY <1>9
  <2>2. i \in 1 .. Len(batch) \/ i = Len(batch) + 1
    BY <2>1
  <2>3. CASE i \in 1 .. Len(batch)
    <3>1. i \in DOMAIN batch
      BY <1>9, <2>3
    <3> QED
      BY <1>9, <3>1
  <2>4. CASE i = Len(batch) + 1
    <3>1. batch'[i] = item
      BY <1>9, <2>4
    <3> QED
      BY <2>4, <3>1
  <2> QED
    BY <2>2, <2>3, <2>4
<1>11. QueuesConsistent'
  <2>1. /\ waiting' \in Seq(SeqId) /\ preempted' \in Seq(SeqId) /\ running' \in Seq(SeqId)
        /\ IsInjective(waiting') /\ IsInjective(preempted') /\ IsInjective(running')
        /\ ToSet(waiting') = ToSet(waiting) /\ ToSet(preempted') = ToSet(preempted)
        /\ ToSet(running') = ToSet(running)
        /\ s.status = "running" /\ id \notin ToSet(waiting') /\ id \notin ToSet(preempted')
        /\ id \in ToSet(running')
    BY <1>1, <1>2, <1>4, <1>6, QueueFacts
  <2>2. s.computed <= Len(s.tokens)
    BY <1>3, <1>6 DEF NumTokens
  <2> QED
    BY <1>2, <1>6, <2>1, <2>2, QueuesChange
<1>12. budget' \in [tokens : Nat, seqs : Nat]
       /\ budget'.tokens = budget.tokens - n /\ budget'.seqs = budget.seqs - 1
  <2>1. budget.tokens - n \in Nat /\ budget.seqs - 1 \in Nat
    BY <1>3
  <2>2. budget'.tokens = budget.tokens - n /\ budget'.seqs = budget.seqs - 1
    BY <1>1, <1>3
  <2>3. budget' \in [tokens : Nat, seqs : Nat]
    BY <1>1, <1>3, <2>1
  <2> QED
    BY <2>2, <2>3
<1>13. StepTypeOK'
  <2>1. ManagerTypeOK'
    BY <1>5 DEF MemoryInv
  <2>2. waiting' \in Seq(SeqId) /\ preempted' \in Seq(SeqId) /\ running' \in Seq(SeqId)
        /\ bumped' \in SUBSET SeqId
    BY <1>1, <1>4
  <2>3. faulty' \in Faults
    BY <1>1, <1>2 DEF StepTypeOK
  <2> QED
    BY <1>9, <1>12, <2>1, <2>2, <2>3 DEF StepTypeOK
<1>14. \A i \in DOMAIN batch : batch[i].id # id
  BY DEF Scheduled
<1>15. ASSUME NEW k \in Positions(item)
       PROVE  LET b == SlotOf(s.table, k)[1] IN refs'[b] = 1 /\ b \notin DOMAIN index'
  <2> DEFINE j == (k - 1) \div BlockSize + 1
  <2>1. k \in 1 .. seqs'[id].computed /\ k > start /\ k \in Nat
    BY <1>3, <1>4, <1>6, <1>7, <1>8 DEF Positions
  <2>2. /\ j \in DOMAIN s.table /\ SlotOf(s.table, k) = <<s.table[j], (k - 1) % BlockSize>>
        /\ k <= j * BlockSize /\ j * BlockSize \in Nat
    <3>1. s.table \in Seq(Block) /\ s.computed \in Nat
      BY DEF Sequence
    <3>2. Len(s.table) >= BlocksFor(s.computed)
      BY <1>5, <1>7 DEF MemoryInv, TablesTidy, BlocksFor
    <3> QED
      BY <1>7, <2>1, <3>1, <3>2, TableSlot
  <2> QED
    BY <1>4, <1>6, <2>1, <2>2
<1>16. WritesPrivate'
  <2> SUFFICES ASSUME NEW i \in DOMAIN batch'
               PROVE  /\ seqs'[batch'[i].id].status = "running"
                      /\ seqs'[batch'[i].id].table = batch'[i].table
                      /\ \A k \in Positions(batch'[i]) :
                           LET b == SlotOf(batch'[i].table, k)[1]
                           IN  refs'[b] = 1 /\ b \notin DOMAIN index'
    BY DEF WritesPrivate, Positions, SlotOf
  <2>1. CASE i \in DOMAIN batch /\ batch'[i] = batch[i]
    <3>1. /\ seqs'[batch[i].id].status = "running" /\ seqs'[batch[i].id].table = batch[i].table
          /\ \A k \in Positions(batch[i]) :
               LET b == SlotOf(batch[i].table, k)[1] IN refs'[b] = 1 /\ b \notin DOMAIN index'
      BY <1>2, <1>5, <1>6, <1>14, <2>1, OthersPrivate
    <3> QED
      BY <2>1, <3>1
  <2>2. CASE batch'[i] = item
    BY <1>6, <1>7, <1>8, <1>15, <2>2
  <2> QED
    BY <1>10, <2>1, <2>2
<1>17. ASSUME NEW i \in DOMAIN batch'
       PROVE  /\ seqs'[batch'[i].id].status = "running"
              /\ batch'[i].end = seqs'[batch'[i].id].computed
  <2>1. CASE i \in DOMAIN batch /\ batch'[i] = batch[i]
    <3>1. seqs'[batch[i].id].status = "running" /\ batch[i].end = seqs'[batch[i].id].computed
      BY <1>2, <1>5, <1>6, <1>14, <2>1, OthersPrivate
    <3> QED
      BY <2>1, <3>1
  <2>2. CASE batch'[i] = item
    BY <1>6, <1>7, <1>8, <2>2
  <2> QED
    BY <1>10, <2>1, <2>2
<1>18. LoopInv'
  <2>1. /\ Load(batch) + budget.tokens = MaxBatchedTokens /\ Len(batch) + budget.seqs = MaxNumSeqs
        /\ \A i, j \in DOMAIN batch : batch[i].id = batch[j].id => i = j
        /\ \A other \in SeqId : InFlight(other) => seqs[other].tokens # << >>
    BY <1>2 DEF LoopInv
  <2>2. /\ Load(batch)' + budget'.tokens = MaxBatchedTokens
        /\ Len(batch') + budget'.seqs = MaxNumSeqs
    <3>1. Load(batch)' = Load(batch')
      BY DEF Load
    <3>2. Load(batch') = Load(batch) + ((start + n) - start) /\ Load(batch) \in Int
      BY <1>1, <1>4, <1>8, LoadFacts
    <3>3. (start + n) - start = n /\ budget.tokens \in Nat /\ budget.seqs \in Nat
      BY <1>3, <1>4
    <3>4. Load(batch') + budget'.tokens = Load(batch) + budget.tokens
      BY <1>3, <1>12, <3>2, <3>3
    <3>5. Len(batch') + budget'.seqs = Len(batch) + budget.seqs
      <4>1. Len(batch') = Len(batch) + 1 /\ Len(batch) \in Nat
        BY <1>9
      <4>2. budget'.seqs = budget.seqs - 1
        BY <1>12
      <4>3. \A a, b \in Nat : (a + 1) + (b - 1) = a + b
        OBVIOUS
      <4> QED
        BY <3>3, <4>1, <4>2, <4>3
    <3> QED
      BY <2>1, <3>1, <3>4, <3>5
  <2>3. \A i, j \in DOMAIN batch' : batch'[i].id = batch'[j].id => i = j
    BY <1>8, <1>10, <1>14, <2>1
  <2>4. ASSUME NEW other \in SeqId, InFlight(other)' PROVE seqs'[other].tokens # << >>
    <3>1. seqs'[other].status = seqs[other].status /\ seqs'[other].tokens = seqs[other].tokens
      BY <1>6, <1>7
    <3>2. InFlight(other)
      BY <2>4, <3>1 DEF InFlight
    <3> QED
      BY <2>1, <3>1, <3>2
  <2>5. phase' = "running" => ToSet(todo') \cap Scheduled' = {}
    <3>1. Scheduled' \subseteq Scheduled \cup {id}
      BY <1>8, <1>10 DEF Scheduled
    <3> QED
      BY <3>1
  <2>6. \A i \in DOMAIN batch' : seqs'[batch'[i].id].status # "absent"
    BY <1>17
  <2> QED
    BY <1>17, <2>2, <2>3, <2>4, <2>5, <2>6 DEF LoopInv
<1> QED
  BY <1>5, <1>11, <1>13, <1>16, <1>18 DEF IInv, AdmissionFunded, Phase

LEMMA EmitRunningKeeps ==
  ASSUME IInv, NEW id \in SeqId, EmitRunning(id), UNCHANGED faulty
  PROVE  IInv'
<1>1. /\ phase = "running" /\ todo # << >> /\ id = Head(todo) /\ ~Passed(id) /\ ~Exhausted
      /\ Emit(id, NewTokens(id)) /\ todo' = Tail(todo) /\ phase' = phase
      /\ UNCHANGED <<queues, bumped, faulty>>
  BY DEF EmitRunning, Visiting
<1>2. todo \in Seq(SeqId) /\ IsInjective(todo) /\ ToSet(todo) \cap Scheduled = {}
  BY <1>1 DEF IInv, LoopInv, StepTypeOK
<1>3. /\ todo' \in Seq(SeqId) /\ IsInjective(todo') /\ ToSet(todo') \subseteq ToSet(todo)
      /\ id \in ToSet(todo) /\ id \notin ToSet(todo')
  BY <1>1, <1>2, TailFacts
<1>4. id \notin Scheduled /\ seqs[id].status = "running" /\ ToSet(todo') \cap Scheduled = {}
  BY <1>1, <1>2, <1>3 DEF Passed
<1> QED
  BY <1>1, <1>3, <1>4, EmitStep

LEMMA EmitAdmittedKeeps ==
  ASSUME IInv, EmitAdmitted, UNCHANGED faulty
  PROVE  IInv'
<1>1. /\ phase = "emit" /\ Emit(Head(todo), NewTokens(Head(todo)))
      /\ phase' = "admit" /\ todo' = << >> /\ UNCHANGED <<queues, bumped, faulty>>
  BY DEF EmitAdmitted
<1>2. PICK id \in SeqId : /\ todo = <<id>> /\ id \notin Scheduled
                          /\ seqs[id].status = "running" /\ ~ Exhausted
  BY <1>1 DEF IInv, LoopInv
<1>3. Emit(id, NewTokens(id))
  BY <1>1, <1>2
<1>4. todo' \in Seq(SeqId) /\ IsInjective(todo')
  BY <1>1 DEF IsInjective
<1> QED
  BY <1>1, <1>2, <1>3, <1>4, EmitStep

\* Whoever is considered for admission is queued, and holds nothing.
LEMMA CandidateFacts ==
  ASSUME IInv, preempted \o waiting # << >>
  PROVE  /\ Candidate \in SeqId /\ seqs[Candidate].status \in {"waiting", "preempted"}
         /\ seqs[Candidate].tokens # << >> /\ seqs[Candidate].table = << >>
         /\ preempted # << >> => Candidate = Head(preempted)
         /\ preempted = << >> => waiting # << >> /\ Candidate = Head(waiting)
<1>1. StepTypeOK /\ QueuesConsistent /\ LoopInv
  BY DEF IInv
<1>2. preempted \in Seq(SeqId) /\ waiting \in Seq(SeqId)
  BY <1>1 DEF StepTypeOK
<1>3. preempted # << >> => Candidate = Head(preempted)
  <2> SUFFICES ASSUME preempted # << >> PROVE Candidate = Head(preempted)
    OBVIOUS
  <2> DEFINE u == preempted \o waiting
  <2>1. /\ u \in Seq(SeqId) /\ Len(u) = Len(preempted) + Len(waiting)
        /\ \A i \in 1 .. Len(preempted) + Len(waiting) :
             u[i] = IF i <= Len(preempted) THEN preempted[i] ELSE waiting[i - Len(preempted)]
    BY <1>2, ConcatProperties
  <2>2. Len(preempted) \in Nat \ {0} /\ Len(waiting) \in Nat /\ Head(preempted) = preempted[1]
    BY <1>2
  <2>3. Head(u) = u[1] /\ Candidate = Head(u)
    BY <2>1 DEF Candidate
  <2> HIDE DEF u
  <2> QED
    BY <2>1, <2>2, <2>3
<1>4. preempted = << >> => waiting # << >> /\ Candidate = Head(waiting)
  <2> SUFFICES ASSUME preempted = << >> PROVE waiting # << >> /\ Candidate = Head(waiting)
    OBVIOUS
  <2>1. preempted \o waiting = waiting
    BY <1>2
  <2> QED
    BY <2>1 DEF Candidate
<1>5. Candidate \in ToSet(preempted) \/ Candidate \in ToSet(waiting)
  BY <1>2, <1>3, <1>4, TailFacts
<1>6. Candidate \in SeqId /\ seqs[Candidate].status \in {"waiting", "preempted"}
  BY <1>1, <1>5, QueueFacts
<1>7. seqs[Candidate].table = << >>
  BY <1>1, <1>6, QueueFacts
<1>8. seqs[Candidate].tokens # << >>
  BY <1>1, <1>6 DEF LoopInv, InFlight
<1> QED
  BY <1>3, <1>4, <1>6, <1>7, <1>8

\* can_allocate is exact: what is admitted finds the blocks it needs.
LEMMA AdmitFunds ==
  ASSUME MemoryInv, NEW c \in SeqId, seqs[c].tokens # << >>, CanAllocate(c),
         free' = free, retained' = retained \ ToSet(Hits(c)),
         NEW m \in Nat, Len(Hits(c)) * BlockSize + m <= NumTokens(c)
  PROVE  BlocksFor(Len(Hits(c)) * BlockSize + m) - Len(Hits(c)) <= Cardinality(free' \cup retained')
<1> DEFINE h == Hits(c)
           T == ToSet(h) \cap retained
           all == Pool!Allocatable
<1>1. /\ Len(h) \in Nat /\ Len(h) * BlockSize \in Nat /\ ToSet(h) \subseteq DOMAIN index
      /\ NumTokens(c) \in Nat
  <2>1. seqs[c] \in Sequence
    BY DEF MemoryInv, ManagerTypeOK
  <2> QED
    BY <2>1, HitsFacts DEF NumTokens, Sequence
<1>2. free \subseteq Block /\ retained \subseteq Block /\ free \cap DOMAIN index = {}
  BY DEF MemoryInv, ManagerTypeOK, Pool!PoolTypeOK, BlocksAccounted, Pool!CacheAgrees
<1>3. IsFiniteSet(all) /\ Cardinality(all) \in Nat
  <2>1. all \subseteq Block
    BY <1>2 DEF Pool!Allocatable
  <2> QED
    BY <2>1, PoolAssumption, FS_Subset, FS_CardinalityType
<1>4. free' \cup retained' = all \ T /\ all \cap T = T
  BY <1>1, <1>2 DEF Pool!Allocatable
<1>5. Cardinality(all \ T) = Cardinality(all) - Cardinality(T) /\ Cardinality(T) \in Nat
  <2>1. Cardinality(all \ T) = Cardinality(all) - Cardinality(all \cap T)
    BY <1>3, FS_Difference
  <2>2. IsFiniteSet(T)
    BY <1>3, <1>4, FS_Subset
  <2> QED
    BY <1>4, <2>1, <2>2, FS_CardinalityType
<1>6. BlocksFor(NumTokens(c)) - Len(h) <= Cardinality(all) - Cardinality(T)
  BY DEF CanAllocate, NumBlocksNeeded
<1>7. /\ BlocksFor(Len(h) * BlockSize + m) <= BlocksFor(NumTokens(c))
      /\ BlocksFor(Len(h) * BlockSize + m) \in Nat /\ BlocksFor(NumTokens(c)) \in Nat
  <2> DEFINE k == Len(h) * BlockSize + m
  <2>1. k \in Nat /\ k <= NumTokens(c)
    BY <1>1
  <2> HIDE DEF k
  <2>2. /\ BlocksFor(k) <= BlocksFor(NumTokens(c)) /\ BlocksFor(k) \in Nat
        /\ BlocksFor(NumTokens(c)) \in Nat
    BY <1>1, <2>1, BlocksForFacts, BlocksForMonotone
  <2> QED
    BY <2>2 DEF k
<1> DEFINE x == BlocksFor(Len(h) * BlockSize + m)
           y == BlocksFor(NumTokens(c))
<1> HIDE DEF h, T, all, x, y
<1>8. x - Len(h) <= Cardinality(all \ T)
  <2>1. x <= y /\ x \in Nat /\ y \in Nat
    BY <1>7 DEF x, y
  <2>2. y - Len(h) <= Cardinality(all) - Cardinality(T)
    BY <1>6 DEF y
  <2> QED
    BY <1>1, <1>3, <1>5, <2>1, <2>2
<1> QED
  BY <1>4, <1>8 DEF x, h

LEMMA AdmitKeeps ==
  ASSUME IInv, Admit, UNCHANGED faulty
  PROVE  IInv'
<1>21. preempted \o waiting # << >>
  BY DEF Admit, Admissible
<1>22. PICK c \in SeqId : c = Candidate
  BY <1>21, CandidateFacts
<1> DEFINE h == Hits(c)
<1>1. /\ phase = "admit" /\ AllocateHits(c, "running") /\ running' = Append(running, c)
      /\ preempted # << >> => preempted' = Tail(preempted) /\ waiting' = waiting
      /\ preempted = << >> => waiting' = Tail(waiting) /\ preempted' = preempted
      /\ phase' = "emit" /\ todo' = <<c>> /\ budget' = budget /\ batch' = batch /\ bumped' = bumped
      /\ faulty' = faulty
  BY <1>22 DEF Admit
<1>2. /\ ~ Exhausted /\ preempted \o waiting # << >> /\ CanAllocate(c)
      /\ NumTokens(c) - Len(h) * BlockSize > 0
  BY <1>22 DEF Admit, Admissible
<1>3. /\ c \in SeqId /\ seqs[c].status \in {"waiting", "preempted"}
      /\ seqs[c].tokens # << >> /\ seqs[c].table = << >>
      /\ preempted # << >> => c = Head(preempted)
      /\ preempted = << >> => waiting # << >> /\ c = Head(waiting)
  BY <1>21, <1>22, CandidateFacts
<1>4. MemoryInv /\ StepTypeOK /\ QueuesConsistent /\ LoopInv /\ Pending
  BY <1>1 DEF IInv, Pending
<1>5. /\ seqs \in [SeqId -> Sequence] /\ waiting \in Seq(SeqId) /\ preempted \in Seq(SeqId)
      /\ running \in Seq(SeqId) /\ bumped \in SUBSET SeqId /\ batch \in Seq(Item)
      /\ budget \in [tokens : Nat, seqs : Nat]
  BY <1>4 DEF StepTypeOK, ManagerTypeOK
<1>6. "running" \in Status
  BY DEF Status
<1>7. /\ MemoryInv' /\ Untouched(c) /\ free' = free /\ retained' = retained \ ToSet(h)
      /\ \E s \in Sequence :
           /\ seqs' = [seqs EXCEPT ![c] = s]
           /\ s.status = "running" /\ s.tokens = seqs[c].tokens
           /\ s.table = h /\ s.computed = Len(h) * BlockSize
  BY <1>1, <1>3, <1>4, <1>6, AllocateStep
<1>8. PICK s \in Sequence :
           /\ seqs' = [seqs EXCEPT ![c] = s]
           /\ s.status = "running" /\ s.tokens = seqs[c].tokens
           /\ s.table = h /\ s.computed = Len(h) * BlockSize
  BY <1>7
<1>9. seqs'[c] = s /\ \A other \in SeqId \ {c} : seqs'[other] = seqs[other]
  BY <1>3, <1>5, <1>8
<1>10. Len(h) \in Nat /\ Len(h) * BlockSize \in Nat /\ NumTokens(c) \in Nat
  <2>1. NumTokens(c) \in Nat
    <3>1. seqs[c] \in Sequence
      BY <1>5
    <3>2. seqs[c].tokens \in Seq(Token)
      BY <3>1 DEF Sequence
    <3> QED
      BY <3>2 DEF NumTokens
  <2> QED
    BY <1>3, <1>4, <2>1, HitsFacts
<1> HIDE DEF h
<1>11. /\ IsInjective(waiting) /\ IsInjective(preempted) /\ IsInjective(running)
       /\ c \in ToSet(waiting) \/ c \in ToSet(preempted)
       /\ c \in ToSet(waiting) => c \notin ToSet(preempted)
       /\ c \notin ToSet(running)
  BY <1>3, <1>4, QueueFacts
<1>12. /\ waiting' \in Seq(SeqId) /\ IsInjective(waiting') /\ ToSet(waiting') = ToSet(waiting) \ {c}
       /\ preempted' \in Seq(SeqId) /\ IsInjective(preempted')
       /\ ToSet(preempted') = ToSet(preempted) \ {c}
  <2>1. CASE preempted # << >>
    <3>1. /\ preempted' \in Seq(SeqId) /\ IsInjective(preempted')
          /\ ToSet(preempted) = ToSet(preempted') \cup {c} /\ c \notin ToSet(preempted')
      <4>1. preempted' = Tail(preempted) /\ c = Head(preempted)
        BY <1>1, <1>3, <2>1
      <4> QED
        BY <1>5, <1>11, <2>1, <4>1, TailFacts
    <3>2. c \notin ToSet(waiting)
      BY <1>11, <3>1
    <3> QED
      BY <1>1, <1>5, <1>11, <2>1, <3>1, <3>2
  <2>2. CASE preempted = << >>
    <3>1. /\ waiting' \in Seq(SeqId) /\ IsInjective(waiting')
          /\ ToSet(waiting) = ToSet(waiting') \cup {c} /\ c \notin ToSet(waiting')
      <4>1. waiting' = Tail(waiting) /\ c = Head(waiting) /\ waiting # << >>
        BY <1>1, <1>3, <2>2
      <4> QED
        BY <1>5, <1>11, <4>1, TailFacts
    <3>2. c \notin ToSet(preempted)
      BY <1>11, <3>1
    <3> QED
      BY <1>1, <1>5, <1>11, <2>2, <3>1, <3>2
  <2> QED
    BY <2>1, <2>2
<1>13. /\ running' \in Seq(SeqId) /\ IsInjective(running') /\ ToSet(running') = ToSet(running) \cup {c}
  BY <1>1, <1>3, <1>5, <1>11, AppendFacts
<1>14. QueuesConsistent'
  <2>1. /\ ToSet(waiting') \ {c} = ToSet(waiting) \ {c} /\ c \notin ToSet(waiting')
        /\ ToSet(preempted') \ {c} = ToSet(preempted) \ {c} /\ c \notin ToSet(preempted')
        /\ ToSet(running') \ {c} = ToSet(running) \ {c} /\ c \in ToSet(running')
    BY <1>12, <1>13
  <2>2. s.computed <= Len(s.tokens)
    BY <1>2, <1>8, <1>10 DEF NumTokens
  <2> QED
    BY <1>3, <1>4, <1>8, <1>12, <1>13, <2>1, <2>2, QueuesChange
<1>15. StepTypeOK'
  <2>1. ManagerTypeOK'
    BY <1>7 DEF MemoryInv
  <2>2. todo' \in Seq(SeqId)
    BY <1>1, <1>3
  <2> QED
    BY <1>1, <1>4, <1>5, <1>12, <1>13, <2>1, <2>2 DEF StepTypeOK
<1>16. c \notin Scheduled
  <2> SUFFICES ASSUME NEW i \in DOMAIN batch, batch[i].id = c PROVE FALSE
    BY DEF Scheduled
  <2>1. seqs[c].status = "running"
    BY <1>4 DEF IInv, WritesPrivate
  <2> QED
    BY <1>3, <2>1
<1>17. /\ WritesPrivate' /\ Scheduled' = Scheduled
       /\ \A i \in DOMAIN batch' :
            seqs'[batch'[i].id].status = "running" /\ batch'[i].end = seqs'[batch'[i].id].computed
  BY <1>1, <1>3, <1>4, <1>7, <1>8, <1>16, BatchKept
<1> DEFINE left == NumTokens(c) - Len(h) * BlockSize
           m == IF left <= budget.tokens THEN left ELSE budget.tokens
<1>18. Uncomputed(c)' = left /\ NewTokens(c)' = m /\ left > 0
  <2>1. Uncomputed(c)' = Len(seqs'[c].tokens) - seqs'[c].computed
    BY DEF Uncomputed, NumTokens
  <2>2. Uncomputed(c)' = left
    BY <1>8, <1>9, <2>1 DEF NumTokens
  <2>3. NewTokens(c)' = m
    BY <1>1, <2>2 DEF NewTokens, NumNew
  <2> QED
    BY <1>2, <2>2, <2>3
<1>19. AdmissionFunded'
  <2>1. m \in Nat /\ Len(h) * BlockSize + m <= NumTokens(c)
    BY <1>2, <1>5, <1>10
  <2> HIDE DEF m, left
  <2>2. BlocksFor(Len(h) * BlockSize + m) - Len(h) <= Cardinality(free' \cup retained')
    BY <1>2, <1>3, <1>4, <1>7, <2>1, AdmitFunds DEF h
  <2>3. CanAppend(c, NewTokens(c))'
          <=> BlocksFor(seqs'[c].computed + NewTokens(c)') - Len(seqs'[c].table)
                <= Cardinality(free' \cup retained')
    BY DEF CanAppend, Growth, BlocksFor, Pool!Allocatable
  <2>4. CanAppend(c, NewTokens(c))'
    BY <1>8, <1>9, <1>18, <2>2, <2>3
  <2>5. Head(todo') = c
    BY <1>1, <1>3
  <2>6. CanAppend(Head(todo), NewTokens(Head(todo)))' <=> CanAppend(c, NewTokens(c))'
    BY <2>5 DEF CanAppend, Growth, NewTokens, NumNew, Uncomputed, NumTokens
  <2> QED
    BY <2>4, <2>6 DEF AdmissionFunded
<1>20. LoopInv'
  <2>1. /\ Load(batch) + budget.tokens = MaxBatchedTokens /\ Len(batch) + budget.seqs = MaxNumSeqs
        /\ \A i, j \in DOMAIN batch : batch[i].id = batch[j].id => i = j
        /\ \A other \in SeqId : InFlight(other) => seqs[other].tokens # << >>
    BY <1>1, <1>4 DEF LoopInv
  <2>2. /\ Load(batch)' + budget'.tokens = MaxBatchedTokens
        /\ Len(batch') + budget'.seqs = MaxNumSeqs
        /\ \A i, j \in DOMAIN batch' : batch'[i].id = batch'[j].id => i = j
    <3>1. Load(batch)' = Load(batch)
      BY <1>1 DEF Load
    <3> QED
      BY <1>1, <2>1, <3>1
  <2>3. \A other \in SeqId : InFlight(other)' => seqs'[other].tokens # << >>
    <3> SUFFICES ASSUME NEW other \in SeqId, InFlight(other)' PROVE seqs'[other].tokens # << >>
      OBVIOUS
    <3>1. CASE other = c
      BY <1>3, <1>8, <1>9, <3>1
    <3>2. CASE other # c
      <4>1. seqs'[other] = seqs[other]
        BY <1>9, <3>2
      <4>2. InFlight(other)
        BY <4>1 DEF InFlight
      <4> QED
        BY <2>1, <4>1, <4>2
    <3> QED
      BY <3>1, <3>2
  <2>4. IsInjective(todo')
    BY <1>1 DEF IsInjective
  <2>5. /\ todo' = <<c>> /\ c \notin Scheduled' /\ seqs'[c].status = "running" /\ Uncomputed(c)' > 0
        /\ ~ Exhausted'
    <3>1. ~ Exhausted'
      BY <1>1, <1>2 DEF Exhausted
    <3> QED
      BY <1>1, <1>8, <1>9, <1>16, <1>17, <1>18, <3>1
  <2>6. \A i \in DOMAIN batch' : seqs'[batch'[i].id].status # "absent"
    BY <1>17
  <2> QED
    BY <1>1, <1>3, <1>17, <2>2, <2>3, <2>4, <2>5, <2>6 DEF LoopInv
<1> QED
  BY <1>1, <1>7, <1>14, <1>15, <1>17, <1>19, <1>20 DEF IInv, Phase

\* What the forward pass writes: K/V of tokens the batch's sequences have, in their slots.
LEMMA WritesFacts ==
  ASSUME IInv, Pending, NEW w \in Writes
  PROVE  \E i \in DOMAIN batch :
           /\ w.id = batch[i].id /\ w.n \in Positions(batch[i]) /\ w.slot = SlotOf(batch[i].table, w.n)
           /\ w.id \in SeqId /\ w.n \in 1 .. seqs[w.id].computed
           /\ ContextAt(w.id, w.n) \in Context
<1>1. PICK i \in DOMAIN batch :
        w.id = batch[i].id /\ w.n \in Positions(batch[i]) /\ w.slot = SlotOf(batch[i].table, w.n)
  BY DEF Writes, ToSet
<1>2. batch[i] \in Item /\ seqs \in [SeqId -> Sequence] /\ MemoryInv
  BY DEF IInv, StepTypeOK, MemoryInv, ManagerTypeOK
<1>3. /\ w.id \in SeqId /\ batch[i].start \in Nat /\ batch[i].end \in Nat
      /\ batch[i].end = seqs[w.id].computed
  BY <1>1, <1>2 DEF Item, IInv, LoopInv
<1>4. w.n \in 1 .. seqs[w.id].computed /\ w.n \in Nat
  BY <1>1, <1>3 DEF Positions
<1>5. /\ seqs[w.id].tokens \in Seq(Token) /\ seqs[w.id].lora \in Lora /\ seqs[w.id].computed \in Nat
      /\ seqs[w.id].computed <= Len(seqs[w.id].tokens) /\ Len(seqs[w.id].tokens) \in Nat
  BY <1>2, <1>3 DEF MemoryInv, TablesTidy, NumTokens, Sequence
<1>6. w.n <= Len(seqs[w.id].tokens)
  BY <1>4, <1>5
<1>7. SubSeq(seqs[w.id].tokens, 1, w.n) \in Seq(Token)
  BY <1>4, <1>5, <1>6
<1>8. ContextAt(w.id, w.n) \in Context
  BY <1>5, <1>7 DEF ContextAt, Context
<1> QED
  BY <1>1, <1>3, <1>4, <1>8

\* The K/V the forward pass leaves behind is of the contexts there are.
LEMMA ForwardFacts ==
  ASSUME IInv, Pending, Forward
  PROVE  kv' \in [Block -> [Offset -> Context \cup {NoKV}]]
<1> DEFINE At(slot) == {w \in Writes : w.slot = slot}
           Put(slot) == LET w == CHOOSE w \in At(slot) : TRUE IN ContextAt(w.id, w.n)
<1>1. kv' = [b \in Block |-> [o \in Offset |->
               IF At(<<b, o>>) = {} THEN kv[b][o] ELSE Put(<<b, o>>)]]
  BY DEF Forward
<1>2. kv \in [Block -> [Offset -> Context \cup {NoKV}]]
  BY DEF IInv, MemoryInv, ManagerTypeOK
<1>3. ASSUME NEW slot, At(slot) # {} PROVE Put(slot) \in Context
  <2>1. PICK w \in Writes : w = CHOOSE x \in At(slot) : TRUE
    BY <1>3
  <2>2. ContextAt(w.id, w.n) \in Context
    BY WritesFacts
  <2> QED
    BY <2>1, <2>2
<1> HIDE DEF At, Put
<1> QED
  BY <1>1, <1>2, <1>3

\* A step that forwards, or does not, and keeps some of the batch.
LEMMA ForwardStep ==
  ASSUME IInv, phase = "execute", kv' \in [Block -> [Offset -> Context \cup {NoKV}]],
         UNCHANGED <<refs, free, retained, index, seqs, queues, todo, budget, bumped, faulty>>,
         batch' \in Seq(Item), ToSet(batch') \subseteq ToSet(batch),
         \A i, j \in DOMAIN batch' : batch'[i].id = batch'[j].id => i = j,
         phase' \in {"idle", "process"}, phase' = "idle" <=> batch' = << >>
  PROVE  IInv'
<1>1. /\ refs' = refs /\ free' = free /\ retained' = retained /\ index' = index /\ seqs' = seqs
      /\ waiting' = waiting /\ preempted' = preempted /\ running' = running
      /\ todo' = todo /\ budget' = budget /\ bumped' = bumped /\ faulty' = faulty
  BY DEF queues
<1>2. MemoryInv' /\ QueuesConsistent'
  BY <1>1 DEF IInv, MemoryInv, ManagerTypeOK, Pool!PoolTypeOK, BlocksAccounted, Pool!ThreeStates,
              Pool!CacheAgrees, TablesTidy, OpenPrivate, NumTokens, BlocksFor, QueuesConsistent
<1>3. StepTypeOK'
  <2>1. ManagerTypeOK' /\ StepTypeOK
    BY <1>2 DEF MemoryInv, IInv
  <2> QED
    BY <1>1, <2>1 DEF StepTypeOK
<1>4. LoopInv'
  <2>1. \A i \in DOMAIN batch' : seqs'[batch'[i].id].status # "absent"
    <3> SUFFICES ASSUME NEW i \in DOMAIN batch' PROVE seqs[batch'[i].id].status # "absent"
      BY <1>1
    <3>1. batch'[i] \in ToSet(batch)
      BY DEF ToSet
    <3>2. PICK j \in DOMAIN batch : batch'[i] = batch[j]
      BY <3>1 DEF ToSet
    <3> QED
      BY <3>2 DEF IInv, LoopInv
  <2>2. \A id \in SeqId : InFlight(id)' => seqs'[id].tokens # << >>
    BY <1>1 DEF IInv, LoopInv, InFlight
  <2>3. IsInjective(todo')
    BY <1>1 DEF IInv, LoopInv
  <2>4. phase' \notin {"publish", "running", "admit", "emit", "execute", "closed"} /\ ~ Pending'
    BY DEF Pending
  <2> QED
    BY <2>1, <2>2, <2>3, <2>4 DEF LoopInv
<1> QED
  BY <1>2, <1>3, <1>4 DEF IInv, WritesPrivate, AdmissionFunded, Pending, Phase

LEMMA ExecuteKeeps ==
  ASSUME IInv, Execute, UNCHANGED faulty
  PROVE  IInv'
<1>1. /\ phase = "execute" /\ Forward /\ batch' = Sampled
      /\ phase' = (IF Sampled = << >> THEN "idle" ELSE "process")
      /\ UNCHANGED <<refs, free, retained, index, seqs, queues, todo, budget, bumped, faulty>>
  BY DEF Execute
<1>2. kv' \in [Block -> [Offset -> Context \cup {NoKV}]]
  BY <1>1, ForwardFacts DEF Pending
<1>3. /\ batch' \in Seq(Item) /\ ToSet(batch') \subseteq ToSet(batch)
      /\ \A i, j \in DOMAIN batch' : batch'[i].id = batch'[j].id => i = j
  <2>1. batch \in Seq(Item) /\ \A i, j \in DOMAIN batch : batch[i].id = batch[j].id => i = j
    BY DEF IInv, StepTypeOK, LoopInv
  <2> QED
    BY <1>1, <2>1, SampledFacts
<1>4. phase' \in {"idle", "process"} /\ (phase' = "idle" <=> batch' = << >>)
  BY <1>1
<1> QED
  BY <1>1, <1>2, <1>3, <1>4, ForwardStep

LEMMA ExecuteFailsKeeps ==
  ASSUME IInv, ExecuteFails, UNCHANGED faulty
  PROVE  IInv'
<1>1. /\ phase = "execute"
      /\ Forward \/ UNCHANGED kv
      /\ phase' = "idle" /\ batch' = << >>
      /\ UNCHANGED <<refs, free, retained, index, seqs, queues, todo, budget, bumped, faulty>>
  BY DEF ExecuteFails
<1>2. kv' \in [Block -> [Offset -> Context \cup {NoKV}]]
  <2>1. CASE Forward
    <3>1. Pending
      BY <1>1 DEF Pending
    <3> QED
      BY <2>1, <3>1, ForwardFacts
  <2>2. CASE UNCHANGED kv
    BY <2>2 DEF IInv, MemoryInv, ManagerTypeOK
  <2> QED
    BY <1>1, <2>1, <2>2
<1>3. batch' \in Seq(Item) /\ ToSet(batch') \subseteq ToSet(batch) /\ DOMAIN batch' = {}
  BY <1>1 DEF ToSet
<1>4. \A i, j \in DOMAIN batch' : batch'[i].id = batch'[j].id => i = j
  BY <1>3
<1> QED
  BY <1>1, <1>2, <1>3, <1>4, ForwardStep

\* A sampled token is fed back, and may be the last.
LEMMA ProcessKeeps ==
  ASSUME IInv, NEW token \in Token, NEW stops \in BOOLEAN, Process(token, stops), UNCHANGED faulty
  PROVE  IInv'
<1>1. /\ phase = "process" /\ batch' = Tail(batch)
      /\ phase' = (IF Tail(batch) = << >> THEN "idle" ELSE "process")
      /\ todo' = todo /\ budget' = budget /\ bumped' = bumped /\ faulty' = faulty
  BY DEF Process
<1>2. MemoryInv /\ StepTypeOK /\ QueuesConsistent /\ LoopInv
  BY DEF IInv
<1>3. /\ seqs \in [SeqId -> Sequence] /\ waiting \in Seq(SeqId) /\ preempted \in Seq(SeqId)
      /\ running \in Seq(SeqId) /\ batch \in Seq(Item) /\ batch # << >>
  BY <1>1, <1>2 DEF StepTypeOK, ManagerTypeOK, LoopInv
<1>4. /\ batch' \in Seq(Item) /\ DOMAIN batch = 1 .. Len(batch) /\ Len(batch) \in Nat \ {0}
      /\ \A i \in DOMAIN batch' : i + 1 \in DOMAIN batch /\ batch'[i] = batch[i + 1]
      /\ Head(batch) = batch[1] /\ Head(batch) \in Item /\ 1 \in DOMAIN batch
      /\ DOMAIN batch' = 1 .. Len(batch) - 1
  BY <1>1, <1>3, TailFacts
<1>5. PICK id \in SeqId : id = Head(batch).id
  BY <1>4 DEF Item
<1> DEFINE t == [seqs[id] EXCEPT !.tokens = Append(@, token)]
<1>6. FeedBack(id, t, stops)
  BY <1>5 DEF Process
<1>7. /\ t \in Sequence /\ t.status = seqs[id].status /\ t.table = seqs[id].table
      /\ t.computed = seqs[id].computed /\ t.tokens = Append(seqs[id].tokens, token)
      /\ t.computed <= Len(t.tokens) /\ t.tokens # << >>
  <2>1. /\ seqs[id] \in Sequence /\ seqs[id].computed <= Len(seqs[id].tokens)
        /\ seqs[id].tokens \in Seq(Token) /\ seqs[id].computed \in Nat
    BY <1>2, <1>3 DEF MemoryInv, TablesTidy, NumTokens, Sequence
  <2>2. /\ t \in Sequence /\ t.status = seqs[id].status /\ t.table = seqs[id].table
        /\ t.computed = seqs[id].computed /\ t.tokens = Append(seqs[id].tokens, token)
    <3>1. Append(seqs[id].tokens, token) \in Seq(Token)
      BY <2>1, AppendFacts
    <3>2. \A x \in Sequence, u \in Seq(Token) :
            LET y == [x EXCEPT !.tokens = u]
            IN  /\ y \in Sequence /\ y.status = x.status /\ y.table = x.table
                /\ y.computed = x.computed /\ y.tokens = u
      BY DEF Sequence
    <3>3. t = [seqs[id] EXCEPT !.tokens = Append(seqs[id].tokens, token)]
      BY <2>1 DEF Sequence
    <3> HIDE DEF t
    <3> QED
      BY <2>1, <3>1, <3>2, <3>3
  <2>3. /\ Len(Append(seqs[id].tokens, token)) = Len(seqs[id].tokens) + 1
        /\ Len(seqs[id].tokens) \in Nat
    BY <2>1, AppendFacts
  <2> HIDE DEF t
  <2>4. t.computed <= Len(t.tokens)
    BY <2>1, <2>2, <2>3
  <2>5. t.tokens # << >>
    <3>1. Len(t.tokens) # 0 /\ Len(<< >>) = 0
      BY <2>2, <2>3
    <3> QED
      BY <3>1
  <2> QED
    BY <2>2, <2>4, <2>5
<1> HIDE DEF t
<1>8. \/ Retire(id)
      \/ seqs' = [seqs EXCEPT ![id] = t] /\ UNCHANGED <<refs, free, retained, index, kv, queues>>
  BY <1>6 DEF FeedBack
<1>9. ASSUME NEW i \in DOMAIN batch' PROVE seqs'[batch'[i].id].status # "absent"
  <2>1. batch'[i].id # id
    BY <1>2, <1>4, <1>5 DEF LoopInv
  <2>2. batch'[i].id \in SeqId /\ seqs[batch'[i].id].status # "absent"
    <3>1. batch'[i] \in Item /\ batch'[i] = batch[i + 1] /\ i + 1 \in DOMAIN batch
      BY <1>4
    <3>2. batch'[i].id \in SeqId
      BY <3>1 DEF Item
    <3>3. \A j \in DOMAIN batch : seqs[batch[j].id].status # "absent"
      BY <1>2 DEF LoopInv
    <3> QED
      BY <3>1, <3>2, <3>3
  <2>3. CASE Retire(id)
    <3>1. seqs' = [seqs EXCEPT ![id] = Blank("finished")]
      BY <2>3, RetireStep
    <3> QED
      BY <1>3, <2>1, <2>2, <3>1
  <2>4. CASE seqs' = [seqs EXCEPT ![id] = t]
    BY <1>3, <2>1, <2>2, <2>4
  <2> QED
    BY <1>8, <2>3, <2>4
<1>10. \A i, j \in DOMAIN batch' : batch'[i].id = batch'[j].id => i = j
  <2> SUFFICES ASSUME NEW i \in DOMAIN batch', NEW j \in DOMAIN batch', batch'[i].id = batch'[j].id
               PROVE  i = j
    OBVIOUS
  <2>1. i + 1 = j + 1
    BY <1>2, <1>4 DEF LoopInv
  <2> QED
    BY <1>4, <2>1
<1>11. /\ MemoryInv' /\ QueuesConsistent'
       /\ waiting' \in Seq(SeqId) /\ preempted' \in Seq(SeqId) /\ running' \in Seq(SeqId)
       /\ \A other \in SeqId : InFlight(other)' => seqs'[other].tokens # << >>
  <2>1. CASE Retire(id)
    <3>1. /\ MemoryInv' /\ QueuesConsistent' /\ seqs' = [seqs EXCEPT ![id] = Blank("finished")]
          /\ waiting' \in Seq(SeqId) /\ preempted' \in Seq(SeqId) /\ running' \in Seq(SeqId)
      BY <2>1, RetireStep
    <3> QED
      BY <3>1, RetireKeepsTokens
  <2>2. CASE /\ seqs' = [seqs EXCEPT ![id] = t]
             /\ UNCHANGED <<refs, free, retained, index, kv, queues>>
    <3>1. waiting' = waiting /\ preempted' = preempted /\ running' = running
      BY <2>2 DEF queues
    <3>2. MemoryInv'
      BY <1>2, <1>7, <2>2, TokensStep
    <3>3. /\ IsInjective(waiting) /\ IsInjective(preempted) /\ IsInjective(running)
          /\ t.status = "waiting" <=> id \in ToSet(waiting)
      BY <1>2, <1>7, QueueFacts
    <3>4. t.status = "preempted" <=> id \in ToSet(preempted)
      BY <1>2, <1>7, QueueFacts
    <3>5. t.status = "running" <=> id \in ToSet(running)
      BY <1>2, <1>7, QueueFacts
    <3>6. t.status # "running" => t.table = << >>
      BY <1>2, <1>7, <3>5, QueueFacts
    <3>7. QueuesConsistent'
      BY <1>2, <1>3, <1>7, <2>2, <3>1, <3>3, <3>4, <3>5, <3>6, QueuesChange
    <3>8. ASSUME NEW other \in SeqId, InFlight(other)' PROVE seqs'[other].tokens # << >>
      <4>1. CASE other = id
        BY <1>3, <1>7, <2>2, <4>1
      <4>2. CASE other # id
        <5>1. seqs'[other] = seqs[other]
          BY <1>3, <2>2, <4>2
        <5>2. InFlight(other)
          BY <3>8, <5>1 DEF InFlight
        <5> QED
          BY <1>2, <5>1, <5>2 DEF LoopInv
      <4> QED
        BY <4>1, <4>2
    <3> QED
      BY <1>3, <3>1, <3>2, <3>7, <3>8
  <2> QED
    BY <1>8, <2>1, <2>2
<1>12. StepTypeOK'
  <2>1. ManagerTypeOK'
    BY <1>11 DEF MemoryInv
  <2> QED
    BY <1>1, <1>2, <1>4, <1>11, <2>1 DEF StepTypeOK
<1>13. LoopInv'
  <2>1. phase' \in {"idle", "process"} /\ (phase' = "idle" <=> batch' = << >>) /\ ~ Pending'
    BY <1>1 DEF Pending
  <2>2. IsInjective(todo')
    BY <1>1, <1>2 DEF LoopInv
  <2> QED
    BY <1>9, <1>10, <1>11, <2>1, <2>2 DEF LoopInv
<1> QED
  BY <1>1, <1>11, <1>12, <1>13 DEF IInv, WritesPrivate, AdmissionFunded, Pending, Phase

LEMMA InitEstablishes == Init => IInv
<1> SUFFICES ASSUME Init PROVE IInv
  OBVIOUS
<1>1. /\ refs = [b \in Block |-> 0] /\ free = Block /\ retained = {} /\ index = Pool!NoEntries
      /\ kv = [b \in Block |-> Unwritten] /\ seqs = [id \in SeqId |-> Blank("absent")]
      /\ waiting = << >> /\ preempted = << >> /\ running = << >>
      /\ phase = "idle" /\ todo = << >> /\ budget = FullBudget /\ batch = << >> /\ bumped = {}
      /\ faulty \in Faults
  BY DEF Init, ManagerInit, Pool!PoolInit
<1>2. /\ Blank("absent") \in Sequence /\ Blank("absent").status = "absent"
      /\ Blank("absent").table = << >> /\ Blank("absent").computed = 0
      /\ Blank("absent").tokens = << >>
  <2>1. "absent" \in Status
    BY DEF Status
  <2> QED
    BY <2>1, BlankFacts
<1>3. /\ seqs \in [SeqId -> Sequence]
      /\ \A id \in SeqId : /\ seqs[id].status = "absent" /\ seqs[id].table = << >>
                           /\ seqs[id].computed = 0 /\ seqs[id].tokens = << >>
  BY <1>1, <1>2
<1>4. ManagerTypeOK
  <2>1. Unwritten \in [Offset -> Context \cup {NoKV}]
    BY DEF Unwritten
  <2>2. DOMAIN index = {} /\ index \in [DOMAIN index -> Context]
    BY <1>1 DEF Pool!NoEntries
  <2> QED
    BY <1>1, <1>3, <2>1, <2>2 DEF ManagerTypeOK, Pool!PoolTypeOK
<1>5. BlocksAccounted
  <2>1. Pool!ThreeStates
    BY <1>1 DEF Pool!ThreeStates
  <2>2. Pool!CacheAgrees
    BY <1>1 DEF Pool!CacheAgrees, Pool!NoEntries
  <2>3. \A b \in Block : refs[b] = Cardinality({id \in SeqId : b \in ToSet(seqs[id].table)})
    <3> SUFFICES ASSUME NEW b \in Block
                 PROVE  {id \in SeqId : b \in ToSet(seqs[id].table)} = {}
      BY <1>1, FS_EmptySet
    <3> QED
      BY <1>3 DEF ToSet
  <2> QED
    BY <2>1, <2>2, <2>3 DEF BlocksAccounted
<1>6. TablesTidy /\ OpenPrivate
  <2> SUFFICES ASSUME NEW id \in SeqId
               PROVE  /\ IsInjective(seqs[id].table)
                      /\ Len(seqs[id].table) >= BlocksFor(seqs[id].computed)
                      /\ seqs[id].computed <= NumTokens(id) /\ DOMAIN seqs[id].table = {}
    BY DEF TablesTidy, OpenPrivate
  <2>1. NumTokens(id) = 0
    BY <1>3 DEF NumTokens
  <2> QED
    BY <1>3, <2>1, EmptyTable DEF IsInjective
<1>7. StepTypeOK
  <2>1. budget \in [tokens : Nat, seqs : Nat]
    BY <1>1, BudgetAssumption DEF FullBudget, SchedulerConfigValid
  <2> QED
    BY <1>1, <1>4, <2>1 DEF StepTypeOK
<1>8. QueuesConsistent
  <2>1. /\ ToSet(waiting) = {} /\ ToSet(preempted) = {} /\ ToSet(running) = {}
        /\ IsInjective(waiting) /\ IsInjective(preempted) /\ IsInjective(running)
    BY <1>1 DEF ToSet, IsInjective
  <2>2. IsInjective(waiting \o preempted \o running)
    <3>1. waiting \in Seq(SeqId) /\ preempted \in Seq(SeqId) /\ running \in Seq(SeqId)
      BY <1>7 DEF StepTypeOK
    <3> QED
      BY <2>1, <3>1, ThreeQueues
  <2>3. \A id \in SeqId : seqs[id].computed <= NumTokens(id)
    BY <1>3 DEF NumTokens
  <2> QED
    BY <1>3, <2>1, <2>2, <2>3 DEF QueuesConsistent
<1>9. LoopInv
  <2>1. IsInjective(todo)
    BY <1>1 DEF IsInjective
  <2>2. \A id \in SeqId : ~ InFlight(id)
    BY <1>3 DEF InFlight
  <2> QED
    BY <1>1, <2>1, <2>2 DEF LoopInv, Pending
<1> QED
  BY <1>1, <1>4, <1>5, <1>6, <1>7, <1>8, <1>9
     DEF IInv, MemoryInv, WritesPrivate, AdmissionFunded, Pending, Phase

\* Nothing changes.
LEMMA StutterKeeps ==
  ASSUME IInv, UNCHANGED vars
  PROVE  IInv'
<1>1. /\ refs' = refs /\ free' = free /\ retained' = retained /\ index' = index /\ kv' = kv
      /\ seqs' = seqs /\ waiting' = waiting /\ preempted' = preempted /\ running' = running
      /\ todo' = todo /\ budget' = budget /\ batch' = batch /\ bumped' = bumped
      /\ faulty' = faulty /\ phase' = phase
  BY DEF vars, managerVars, queues, stepVars
<1>2. MemoryInv' /\ QueuesConsistent'
  BY <1>1 DEF IInv, MemoryInv, ManagerTypeOK, Pool!PoolTypeOK, BlocksAccounted, Pool!ThreeStates,
              Pool!CacheAgrees, TablesTidy, OpenPrivate, NumTokens, BlocksFor, QueuesConsistent
<1>3. StepTypeOK' /\ phase' \in Phase
  BY <1>1, <1>2 DEF MemoryInv, IInv, StepTypeOK
<1>4. WritesPrivate'
  BY <1>1 DEF IInv, WritesPrivate, Positions, SlotOf, Pending
<1>5. AdmissionFunded'
  BY <1>1 DEF IInv, AdmissionFunded, CanAppend, Growth, BlocksFor, NewTokens, NumNew, Uncomputed,
              NumTokens, Pool!Allocatable
<1>6. LoopInv'
  <2>1. Load(batch)' = Load(batch) /\ Scheduled' = Scheduled
    BY <1>1 DEF Load, Scheduled
  <2>2. \A id \in SeqId : InFlight(id)' = InFlight(id) /\ Uncomputed(id)' = Uncomputed(id)
    BY <1>1 DEF InFlight, Uncomputed, NumTokens
  <2>3. (Exhausted' <=> Exhausted) /\ (Pending' <=> Pending)
    BY <1>1 DEF Exhausted, Pending
  <2>4. \A id \in SeqId : InFlight(id)' => seqs'[id].tokens # << >>
    BY <1>1, <2>2 DEF IInv, LoopInv
  <2>5. phase' = "emit" =>
          \E id \in SeqId :
            /\ todo' = <<id>> /\ id \notin Scheduled'
            /\ seqs'[id].status = "running" /\ Uncomputed(id)' > 0
            /\ ~ Exhausted'
    BY <1>1, <2>1, <2>2, <2>3 DEF IInv, LoopInv
  <2>6. phase' \in {"publish", "running", "admit", "emit", "execute"} =>
          /\ Load(batch)' + budget'.tokens = MaxBatchedTokens
          /\ Len(batch') + budget'.seqs = MaxNumSeqs
    BY <1>1, <2>1 DEF IInv, LoopInv
  <2> QED
    BY <1>1, <2>1, <2>3, <2>4, <2>5, <2>6 DEF IInv, LoopInv
<1> QED
  BY <1>2, <1>3, <1>4, <1>5, <1>6 DEF IInv

\* IInv is inductive: one case per action of the engine.
LEMMA NextKeeps == IInv /\ [Next]_vars => IInv'
<1> SUFFICES ASSUME IInv, [Next]_vars PROVE IInv'
  OBVIOUS
<1>1. ASSUME NEW shape \in Shape, AddRequest(shape), UNCHANGED faulty PROVE IInv'
  BY <1>1, AddRequestKeeps
<1>2. ASSUME NEW id \in SeqId, Abort(id), UNCHANGED faulty PROVE IInv'
  BY <1>2, AbortKeeps
<1>3. CASE Close /\ UNCHANGED faulty
  BY <1>3, CloseKeeps
<1>4. CASE Step
  <2>1. UNCHANGED faulty
    BY <1>4 DEF Step
  <2>2. CASE BeginStep \/ PublishNext \/ EndPublish
    BY <2>1, <2>2, BeginStepKeeps, PublishNextKeeps, EndPublishKeeps
  <2>3. ASSUME NEW id \in SeqId,
               SkipRunning(id) \/ PreemptVictim(id) \/ PreemptSelf(id) \/ EmitRunning(id)
        PROVE  IInv'
    BY <2>1, <2>3, SkipRunningKeeps, PreemptVictimKeeps, PreemptSelfKeeps, EmitRunningKeeps
  <2>4. CASE EndRunning \/ Admit \/ EmitAdmitted \/ EndSchedule
    BY <2>1, <2>4, EndRunningKeeps, AdmitKeeps, EmitAdmittedKeeps, EndScheduleKeeps
  <2>5. CASE Execute \/ ExecuteFails
    BY <2>1, <2>5, ExecuteKeeps, ExecuteFailsKeeps
  <2>6. ASSUME NEW token \in Token, NEW stops \in BOOLEAN, Process(token, stops) PROVE IInv'
    BY <2>1, <2>6, ProcessKeeps
  <2> QED
    BY <1>4, <2>2, <2>3, <2>4, <2>5, <2>6 DEF Step
<1>5. CASE UNCHANGED vars
  BY <1>5, StutterKeeps
<1> QED
  BY <1>1, <1>2, <1>3, <1>4, <1>5 DEF Next

\* Both budgets follow from what the loops carry: what a step schedules and what it has left
\* of its budget add up to the budget.
LEMMA BudgetsFollow == IInv => BudgetsHard
<1> SUFFICES ASSUME IInv, Pending
             PROVE  /\ Load(batch) <= MaxBatchedTokens /\ Len(batch) <= MaxNumSeqs
                    /\ Cardinality(Scheduled) = Len(batch)
  BY DEF BudgetsHard
<1>1. /\ batch \in Seq(Item) /\ budget \in [tokens : Nat, seqs : Nat]
      /\ \A i, j \in DOMAIN batch : batch[i].id = batch[j].id => i = j
  BY DEF IInv, StepTypeOK, LoopInv
<1>2. Load(batch) + budget.tokens = MaxBatchedTokens /\ Len(batch) + budget.seqs = MaxNumSeqs
  BY DEF IInv, LoopInv, Pending, Phase
<1>3. /\ Load(batch) \in Int /\ Len(batch) \in Nat /\ DOMAIN batch = 1 .. Len(batch)
      /\ budget.tokens \in Nat /\ budget.seqs \in Nat
      /\ MaxBatchedTokens \in Nat /\ MaxNumSeqs \in Nat
  <2>1. PICK sum \in [0 .. Len(batch) -> Int] : Load(batch) = sum[Len(batch)]
    BY <1>1, LoadTable
  <2>2. Len(batch) \in Nat /\ DOMAIN batch = 1 .. Len(batch)
    BY <1>1
  <2> QED
    BY <1>1, <2>1, <2>2, BudgetAssumption DEF SchedulerConfigValid
<1>4. Cardinality(Scheduled) = Len(batch)
  <2> DEFINE f == [i \in 1 .. Len(batch) |-> batch[i].id]
  <2>1. f \in Bijection(1 .. Len(batch), Scheduled)
    <3>1. f \in [1 .. Len(batch) -> Scheduled]
      BY <1>3 DEF Scheduled
    <3>2. \A x \in Scheduled : \E i \in 1 .. Len(batch) : f[i] = x
      BY <1>3 DEF Scheduled
    <3>3. IsInjective(f)
      BY <1>1, <1>3 DEF IsInjective
    <3> HIDE DEF f
    <3> QED
      BY <3>1, <3>2, <3>3 DEF Bijection, Injection, Surjection
  <2> QED
    BY <1>3, <2>1, FS_CountingElements DEF ExistsBijection
<1> QED
  BY <1>2, <1>3, <1>4

\* Engine.EngineInv, at every visit of the loops of step(), for every pool, budget, batch and
\* set of requests, and also when the forward pass raises: queues, tables, reference counts and
\* the batch agree; both budgets are hard; the forward pass writes into private blocks only;
\* and a sequence is admitted only when append_slots will find its blocks.
THEOREM EngineSafe == Spec => []EngineInv
<1>1. Init => IInv
  BY InitEstablishes
<1>2. IInv /\ [Next]_vars => IInv'
  BY NextKeeps
<1>3. IInv => EngineInv
  BY BudgetsFollow DEF IInv, EngineInv, TypeOK, MemoryInv
<1> QED
  BY <1>1, <1>2, <1>3, PTL DEF Spec

----------------------------------------------------------------------------
(* What the K/V cache holds                                                *)

\* What attention reads at position n of a sequence is the K/V of that very prefix.
Holds(id, n) ==
  LET slot == SlotOf(seqs[id].table, n) IN kv[slot[1]][slot[2]] = ContextAt(id, n)

\* While the forward pass does not raise.
KVInv == KVFaithful /\ \A i \in DOMAIN batch : batch[i].start <= batch[i].end

\* The first n tokens, and what a slot of a sequence or of a cached block holds in terms of them.
Prefix(t, n) == SubSeq(t, 1, n)

LEMMA ContextIs ==
  ASSUME NEW id, NEW n
  PROVE  ContextAt(id, n) = <<seqs[id].lora, Prefix(seqs[id].tokens, n)>>
BY DEF ContextAt, Prefix

LEMMA CacheIs ==
  CacheSound <=>
    \A b \in DOMAIN index : \A o \in Offset :
      kv[b][o] = <<index[b][1], Prefix(index[b][2], Len(index[b][2]) - BlockSize + 1 + o)>>
BY DEF CacheSound, Prefix

\* A prefix of a prefix, and of a sequence that has grown.
LEMMA PrefixFacts ==
  ASSUME NEW t \in Seq(Token), NEW m \in Nat, m <= Len(t)
  PROVE  /\ Prefix(t, m) \in Seq(Token) /\ Len(Prefix(t, m)) = m
         /\ \A k \in 1 .. m : Prefix(Prefix(t, m), k) = Prefix(t, k)
         /\ \A x \in Token : Prefix(Append(t, x), m) = Prefix(t, m)
<1>1. SubSeq(t, 1, m) \in Seq(Token) /\ Len(SubSeq(t, 1, m)) = m
  OBVIOUS
<1>2. ASSUME NEW k \in 1 .. m PROVE SubSeq(SubSeq(t, 1, m), 1, k) = SubSeq(t, 1, k)
  <2>1. 1 \in 1 .. Len(t) /\ m \in 1 .. Len(t) /\ 1 \in 1 .. m - 1 + 1 /\ k \in 1 .. m - 1 + 1
    OBVIOUS
  <2>2. SubSeq(SubSeq(t, 1, m), 1, k) = SubSeq(t, 1 + 1 - 1, 1 + k - 1)
    BY <2>1, SubSeqOfSubSeq
  <2> QED
    BY <2>2
<1>3. ASSUME NEW x \in Token PROVE SubSeq(Append(t, x), 1, m) = SubSeq(t, 1, m)
  <2>1. CASE m = 0
    BY <2>1, SubSeqEmpty
  <2>2. CASE m # 0
    <3>1. 1 \in 1 .. Len(t) /\ m \in 1 .. Len(t) /\ <<x>> \in Seq(Token)
      BY <2>2
    <3>2. SubSeq(t \o <<x>>, 1, m) = SubSeq(t, 1, m)
      BY <3>1, SubSeqOfConcat1
    <3>3. Append(t, x) = t \o <<x>>
      OBVIOUS
    <3> QED
      BY <3>2, <3>3
  <2> QED
    BY <2>1, <2>2
<1> QED
  BY <1>1, <1>2, <1>3, Zenon DEF Prefix

\* Position o of block i is the slot of one token.
LEMMA SlotBack ==
  ASSUME NEW i \in Nat \ {0}, NEW o \in Offset, NEW t
  PROVE  LET n == i * BlockSize - BlockSize + 1 + o
         IN  /\ n \in Nat \ {0} /\ n <= i * BlockSize
             /\ SlotOf(t, n) = <<t[i], o>>
<1> DEFINE l == i * BlockSize
           n == l - BlockSize + 1 + o
           k == (n - 1) \div BlockSize + 1
           m == k * BlockSize
           q == (n - 1) % BlockSize
<1>1. /\ l \in Nat /\ BlockSize \in Nat /\ BlockSize > 0 /\ o \in Nat /\ o < BlockSize
      /\ BlockSize <= l
  <2>1. 0 * BlockSize + BlockSize <= i * BlockSize /\ 0 * BlockSize = 0 /\ i * BlockSize \in Nat
    BY Multiples
  <2> QED
    BY <2>1, BlockSizeAssumption DEF Offset
<1> HIDE DEF l
<1>2. n \in Nat \ {0} /\ n <= l /\ l - BlockSize < n
  BY <1>1
<1> HIDE DEF n
<1>3. /\ k \in Nat \ {0} /\ q \in Offset /\ m \in Nat /\ n = m - BlockSize + 1 + q
      /\ m - BlockSize < n /\ n <= m
  BY <1>2, SlotFacts
<1> HIDE DEF k, q
<1>4. /\ k < i => m + BlockSize <= l
      /\ i < k => l + BlockSize <= m
  BY <1>3, Multiples DEF l
<1> HIDE DEF m
<1>5. k = i
  BY <1>1, <1>2, <1>3, <1>4
<1>6. q = o
  <2>1. m = l
    BY <1>5 DEF m, l
  <2>2. q \in Nat
    BY <1>3 DEF Offset
  <2> QED
    BY <1>1, <1>3, <2>1, <2>2 DEF n
<1>7. SlotOf(t, n) = <<t[k], q>>
  BY DEF SlotOf, k, q
<1> QED
  BY <1>2, <1>5, <1>6, <1>7 DEF n, l

\* Two tokens of a sequence have different slots.
LEMMA SlotsDiffer ==
  ASSUME NEW t \in Seq(Block), IsInjective(t), NEW c \in Nat, Len(t) >= BlocksFor(c),
         NEW n \in 1 .. c, NEW k \in 1 .. c, SlotOf(t, n) = SlotOf(t, k)
  PROVE  n = k
<1> DEFINE i == (n - 1) \div BlockSize + 1
           o == (n - 1) % BlockSize
           j == (k - 1) \div BlockSize + 1
           p == (k - 1) % BlockSize
<1>1. /\ i \in DOMAIN t /\ SlotOf(t, n) = <<t[i], o>> /\ n = i * BlockSize - BlockSize + 1 + o
  BY TableSlot
<1>2. /\ j \in DOMAIN t /\ SlotOf(t, k) = <<t[j], p>> /\ k = j * BlockSize - BlockSize + 1 + p
  BY TableSlot
<1> HIDE DEF i, o, j, p
<1>3. t[i] = t[j] /\ o = p
  <2>1. <<t[i], o>> = <<t[j], p>>
    BY <1>1, <1>2
  <2> QED
    BY <2>1
<1>4. i = j
  BY <1>1, <1>2, <1>3 DEF IsInjective
<1> QED
  BY <1>1, <1>2, <1>3, <1>4

\* The batch's item for one of its sequences.
LEMMA ItemOf ==
  ASSUME NEW items \in Seq(Item), \A i, j \in DOMAIN items : items[i].id = items[j].id => i = j,
         NEW k \in DOMAIN items
  PROVE  (CHOOSE item \in ToSet(items) : item.id = items[k].id) = items[k]
<1> DEFINE x == CHOOSE item \in ToSet(items) : item.id = items[k].id
<1>1. items[k] \in ToSet(items)
  BY DEF ToSet
<1>2. x \in ToSet(items) /\ x.id = items[k].id
  BY <1>1
<1> HIDE DEF x
<1>3. PICK i \in DOMAIN items : x = items[i]
  BY <1>2 DEF ToSet
<1> QED
  BY <1>2, <1>3 DEF x

\* How far a sequence is written: as far as it is computed, unless the batch has it.
LEMMA WrittenFacts ==
  ASSUME IInv, KVInv, NEW id \in SeqId
  PROVE  /\ WrittenUpTo(id) \in Nat /\ WrittenUpTo(id) <= seqs[id].computed
         /\ ~ Pending \/ id \notin Scheduled => WrittenUpTo(id) = seqs[id].computed
<1>1. seqs[id].computed \in Nat /\ batch \in Seq(Item)
  BY DEF IInv, MemoryInv, ManagerTypeOK, StepTypeOK, Sequence
<1>2. ~ Pending \/ id \notin Scheduled => WrittenUpTo(id) = seqs[id].computed
  BY DEF WrittenUpTo
<1>3. ASSUME Pending, id \in Scheduled
      PROVE  WrittenUpTo(id) \in Nat /\ WrittenUpTo(id) <= seqs[id].computed
  <2>1. PICK k \in DOMAIN batch : batch[k].id = id
    BY <1>3 DEF Scheduled
  <2>2. (CHOOSE item \in ToSet(batch) : item.id = id) = batch[k]
    <3>1. \A i, j \in DOMAIN batch : batch[i].id = batch[j].id => i = j
      BY DEF IInv, LoopInv
    <3> QED
      BY <1>1, <2>1, <3>1, ItemOf
  <2>3. WrittenUpTo(id) = batch[k].start
    BY <1>3, <2>2 DEF WrittenUpTo
  <2>4. batch[k].end = seqs[id].computed /\ batch[k].start <= batch[k].end /\ batch[k].start \in Nat
    <3>1. batch[k] \in Item
      BY <1>1
    <3> QED
      BY <1>3, <2>1, <3>1 DEF IInv, LoopInv, KVInv, Item
  <2> QED
    BY <2>3, <2>4
<1> QED
  BY <1>1, <1>2, <1>3

\* What a step leaves of a sequence: its adapter, its tokens so far, its blocks and their K/V.
Kept(id) ==
  /\ seqs'[id].lora = seqs[id].lora
  /\ \A n \in 0 .. NumTokens(id) : SubSeq(seqs'[id].tokens, 1, n) = SubSeq(seqs[id].tokens, 1, n)
  /\ \A i \in DOMAIN seqs[id].table :
       seqs'[id].table[i] = seqs[id].table[i] /\ kv'[seqs[id].table[i]] = kv[seqs[id].table[i]]

\* A position that was right is right after a step that leaves the sequence alone.
LEMMA HoldsKept ==
  ASSUME MemoryInv, NEW id \in SeqId, Kept(id), NEW n \in 1 .. seqs[id].computed, Holds(id, n)
  PROVE  Holds(id, n)'
<1> DEFINE k == (n - 1) \div BlockSize + 1
           q == (n - 1) % BlockSize
           t == seqs[id].table
           u == seqs'[id].table
<1>1. k \in DOMAIN t /\ SlotOf(t, n) = <<t[k], q>>
  BY SlotInTable
<1>2. SlotOf(u, n) = <<u[k], q>>
  BY DEF SlotOf
<1>3. u[k] = t[k] /\ kv'[t[k]] = kv[t[k]]
  BY <1>1 DEF Kept
<1>4. kv[t[k]][q] = ContextAt(id, n)
  BY <1>1 DEF Holds
<1>5. ContextAt(id, n)' = ContextAt(id, n)
  <2>1. n \in 0 .. NumTokens(id)
    BY DEF MemoryInv, TablesTidy, ManagerTypeOK, Sequence, NumTokens
  <2> QED
    BY <2>1 DEF Kept, ContextAt
<1> HIDE DEF k, q
<1>6. kv'[u[k]][q] = ContextAt(id, n)'
  BY <1>3, <1>4, <1>5
<1>7. Holds(id, n)' <=> kv'[u[k]][q] = ContextAt(id, n)'
  BY <1>2 DEF Holds, SlotOf
<1> QED
  BY <1>6, <1>7

\* A step after which every running sequence was running, is written as far as before, and was
\* left alone.
LEMMA ContextKept ==
  ASSUME IInv, KVInv, ToSet(running') \subseteq ToSet(running),
         \A id \in ToSet(running') : Kept(id) /\ WrittenUpTo(id)' = WrittenUpTo(id)
  PROVE  ContextIntact'
<1> SUFFICES ASSUME NEW id \in ToSet(running'), NEW n \in 1 .. WrittenUpTo(id)'
             PROVE  Holds(id, n)'
  BY DEF ContextIntact, Holds
<1>1. id \in ToSet(running) /\ id \in SeqId
  BY QueueFacts DEF IInv
<1>2. n \in 1 .. WrittenUpTo(id)
  OBVIOUS
<1>3. Holds(id, n)
  BY <1>1, <1>2 DEF KVInv, KVFaithful, ContextIntact, Holds
<1>4. n \in 1 .. seqs[id].computed
  <2>1. WrittenUpTo(id) \in Nat /\ WrittenUpTo(id) <= seqs[id].computed /\ seqs[id].computed \in Nat
    BY <1>1, WrittenFacts DEF IInv, MemoryInv, ManagerTypeOK, Sequence
  <2> QED
    BY <1>2, <2>1
<1> QED
  BY <1>1, <1>3, <1>4, HoldsKept DEF IInv

\* A step that adds nothing to the prefix cache.
LEMMA CacheKept ==
  ASSUME CacheSound,
         \A b \in DOMAIN index' : b \in DOMAIN index /\ index'[b] = index[b] /\ kv'[b] = kv[b]
  PROVE  CacheSound'
BY DEF CacheSound

\* A sequence that is written as far as it is computed may publish its full blocks.
LEMMA CachePublished ==
  ASSUME IInv, KVInv, NEW id \in SeqId, ~ Pending \/ id \notin Scheduled,
         \A b \in DOMAIN index' :
           /\ kv'[b] = kv[b]
           /\ \/ b \in DOMAIN index /\ index'[b] = index[b]
              \/ b \in DOMAIN NewEntries(id) /\ index'[b] = NewEntries(id)[b]
  PROVE  CacheSound'
<1> SUFFICES ASSUME NEW b \in DOMAIN index', NEW o \in Offset
             PROVE  kv'[b][o] = <<index'[b][1], Prefix(index'[b][2],
                                                      Len(index'[b][2]) - BlockSize + 1 + o)>>
  BY DEF CacheSound, Prefix
<1>1. CASE b \in DOMAIN index /\ index'[b] = index[b]
  BY <1>1, CacheIs DEF KVInv, KVFaithful
<1>2. CASE b \in DOMAIN NewEntries(id) /\ index'[b] = NewEntries(id)[b]
  <2> DEFINE t == seqs[id].table
             x == seqs[id].tokens
  <2>1. PICK i \in DOMAIN t : /\ i * BlockSize <= seqs[id].computed
                              /\ b = t[i] /\ index'[b] = BlockHash(id, i)
    BY <1>2, EntriesFacts DEF IInv
  <2>2. /\ t \in Seq(Block) /\ x \in Seq(Token) /\ seqs[id].computed \in Nat
        /\ seqs[id].computed <= Len(x) /\ i \in Nat \ {0}
    BY <2>1 DEF IInv, MemoryInv, TablesTidy, ManagerTypeOK, Sequence, NumTokens
  <2> DEFINE l == i * BlockSize
             n == l - BlockSize + 1 + o
  <2>3. n \in Nat \ {0} /\ n <= l /\ SlotOf(t, n) = <<t[i], o>>
    BY <2>2, SlotBack
  <2>4. l \in Nat /\ l <= seqs[id].computed /\ l <= Len(x)
    <3>1. l \in Nat
      BY <2>2, Multiples
    <3>2. l <= seqs[id].computed
      BY <2>1
    <3> HIDE DEF l, n
    <3> QED
      BY <2>2, <3>1, <3>2
  <2> HIDE DEF n
  <2>5. index'[b] = <<seqs[id].lora, Prefix(x, l)>>
    BY <2>1, ContextIs DEF BlockHash
  <2> HIDE DEF l
  <2>6. Len(Prefix(x, l)) = l /\ Prefix(Prefix(x, l), n) = Prefix(x, n)
    <3>1. n \in 1 .. l
      BY <2>3, <2>4
    <3>2. /\ Len(Prefix(x, l)) = l
          /\ \A j \in 1 .. l : Prefix(Prefix(x, l), j) = Prefix(x, j)
      BY <2>2, <2>4, PrefixFacts
    <3> QED
      BY <3>1, <3>2
  <2>7. Holds(id, n)
    <3>1. id \in ToSet(running)
      <4>1. t # << >>
        BY <2>1, <2>2
      <4> QED
        BY <4>1, QueueFacts DEF IInv
    <3>2. WrittenUpTo(id) = seqs[id].computed
      BY WrittenFacts
    <3>3. n \in 1 .. WrittenUpTo(id)
      BY <2>2, <2>3, <2>4, <3>2
    <3> QED
      BY <3>1, <3>3 DEF KVInv, KVFaithful, ContextIntact, Holds
  <2>8. kv[b][o] = <<seqs[id].lora, Prefix(x, n)>>
    <3>1. kv[t[i]][o] = ContextAt(id, n)
      <4>1. LET slot == SlotOf(t, n) IN kv[slot[1]][slot[2]] = ContextAt(id, n)
        BY <2>7 DEF Holds
      <4> HIDE DEF t, x
      <4> QED
        BY <2>3, <4>1
    <3> QED
      BY <2>1, <3>1, ContextIs
  <2>9. kv'[b] = kv[b]
    OBVIOUS
  <2>10. index'[b][1] = seqs[id].lora /\ index'[b][2] = Prefix(x, l)
    BY <2>5
  <2>11. Len(index'[b][2]) - BlockSize + 1 + o = n
    BY <2>6, <2>10 DEF n
  <2>12. Prefix(index'[b][2], n) = Prefix(x, n)
    BY <2>6, <2>10
  <2> QED
    BY <2>8, <2>9, <2>10, <2>11, <2>12
<1> QED
  BY <1>1, <1>2

\* A block that a table has after the step is not free.
LEMMA InUseNext ==
  ASSUME MemoryInv', NEW id \in SeqId, NEW b \in Block, b \in ToSet(seqs'[id].table)
  PROVE  b \notin free'
<1> DEFINE H == {other \in SeqId : b \in ToSet(seqs'[other].table)}
<1>1. refs'[b] = Cardinality(H)
  BY DEF MemoryInv, BlocksAccounted
<1>2. IsFiniteSet(H)
  <2>1. IsFiniteSet(SeqId) /\ H \subseteq SeqId
    BY RequestsAssumption, FS_Interval DEF SeqId
  <2> QED
    BY <2>1, FS_Subset
<1>3. Cardinality(H) # 0
  BY <1>2, FS_EmptySet
<1>4. b \in free' => refs'[b] = 0
  BY DEF MemoryInv, BlocksAccounted, Pool!ThreeStates
<1> HIDE DEF H
<1> QED
  BY <1>1, <1>3, <1>4

\* free() of one sequence leaves the others alone, blocks they share with it included.
LEMMA KeptForOthers ==
  ASSUME IInv, NEW id \in SeqId, NEW after \in Sequence, FreeBlocks(id, after), MemoryInv',
         NEW other \in SeqId \ {id}
  PROVE  Kept(other)
<1>1. seqs'[other] = seqs[other] /\ seqs \in [SeqId -> Sequence]
  BY DEF FreeBlocks, IInv, MemoryInv, ManagerTypeOK
<1>2. ASSUME NEW i \in DOMAIN seqs[other].table
      PROVE  kv'[seqs[other].table[i]] = kv[seqs[other].table[i]]
  <2>1. seqs[other] \in Sequence
    BY <1>1
  <2>2. seqs[other].table[i] \in Block
    BY <2>1 DEF Sequence
  <2>3. seqs[other].table[i] \in ToSet(seqs'[other].table)
    BY <1>1 DEF ToSet
  <2>4. seqs[other].table[i] \notin free'
    BY <2>2, <2>3, InUseNext
  <2> QED
    BY <2>2, <2>4 DEF FreeBlocks
<1> QED
  BY <1>1, <1>2 DEF Kept

\* A step that schedules nothing and executes nothing.
Settled ==
  \/ batch' = batch /\ (Pending <=> Pending')
  \/ (~ Pending \/ batch = << >>) /\ (~ Pending' \/ batch' = << >>)

LEMMA WrittenSame ==
  ASSUME Settled, NEW id, seqs'[id].computed = seqs[id].computed
  PROVE  WrittenUpTo(id)' = WrittenUpTo(id)
<1>1. CASE batch' = batch /\ (Pending <=> Pending')
  <2>1. Scheduled' = Scheduled
    BY <1>1 DEF Scheduled
  <2> QED
    BY <1>1, <2>1 DEF WrittenUpTo
<1>2. CASE (~ Pending \/ batch = << >>) /\ (~ Pending' \/ batch' = << >>)
  <2>1. /\ ~ Pending \/ id \notin Scheduled
        /\ ~ Pending' \/ id \notin Scheduled'
    BY <1>2 DEF Scheduled
  <2>2. WrittenUpTo(id) = seqs[id].computed
    BY <2>1 DEF WrittenUpTo
  <2>3. WrittenUpTo(id)' = seqs'[id].computed
    BY <2>1 DEF WrittenUpTo
  <2> QED
    BY <2>2, <2>3
<1> QED
  BY <1>1, <1>2 DEF Settled

\* The steps that only move on to the next sequence or loop.
LEMMA MoveOnKV ==
  ASSUME IInv, KVInv, UNCHANGED <<managerVars, running>>, Settled, batch' = batch
  PROVE  KVInv'
<1>1. \A id \in ToSet(running') : Kept(id) /\ WrittenUpTo(id)' = WrittenUpTo(id)
  BY WrittenSame DEF managerVars, Kept
<1>2. ContextIntact'
  BY <1>1, ContextKept
<1>3. CacheSound'
  BY CacheKept DEF KVInv, KVFaithful, managerVars
<1> QED
  BY <1>2, <1>3 DEF KVInv, KVFaithful

\* A sequence gives its blocks back, publishing what is computed of them.
LEMMA ReleaseKV ==
  ASSUME IInv, KVInv, NEW id \in SeqId, NEW after \in Sequence, FreeBlocks(id, after),
         after.table = << >>, after.computed = 0,
         ToSet(running') = ToSet(running) \ {id},
         ~ Pending \/ id \notin Scheduled, Settled
  PROVE  ContextIntact' /\ CacheSound'
<1>1. /\ MemoryInv' /\ seqs' = [seqs EXCEPT ![id] = after]
      /\ \A b \in DOMAIN index' :
           /\ kv'[b] = kv[b]
           /\ \/ b \in DOMAIN index /\ index'[b] = index[b]
              \/ b \in DOMAIN NewEntries(id) /\ index'[b] = NewEntries(id)[b]
  BY ReleaseStep DEF IInv
<1>2. CacheSound'
  BY <1>1, CachePublished
<1>3. ASSUME NEW other \in ToSet(running')
      PROVE  Kept(other) /\ WrittenUpTo(other)' = WrittenUpTo(other)
  <2>1. other \in SeqId \ {id}
    BY QueueFacts DEF IInv
  <2>2. seqs'[other].computed = seqs[other].computed
    BY <1>1, <2>1 DEF IInv, MemoryInv, ManagerTypeOK
  <2> QED
    BY <1>1, <2>1, <2>2, KeptForOthers, WrittenSame
<1>4. ContextIntact'
  BY <1>3, ContextKept
<1> QED
  BY <1>2, <1>4

LEMMA AddRequestKV ==
  ASSUME IInv, KVInv, NEW shape \in Shape, AddRequest(shape)
  PROVE  KVInv'
<1>1. PICK id \in SeqId :
        /\ seqs[id].status = "absent"
        /\ \E s : seqs' = [seqs EXCEPT ![id] = s]
  BY DEF AddRequest
<1>2. UNCHANGED <<index, kv, running, batch, phase>>
  BY DEF AddRequest, stepVars
<1>3. Settled
  BY <1>2 DEF Settled, Pending
<1>4. ASSUME NEW other \in ToSet(running')
      PROVE  Kept(other) /\ WrittenUpTo(other)' = WrittenUpTo(other)
  <2>1. other \in SeqId \ {id}
    BY <1>1, <1>2, QueueFacts DEF IInv
  <2>2. seqs'[other] = seqs[other]
    BY <1>1, <2>1 DEF IInv, MemoryInv, ManagerTypeOK
  <2> QED
    BY <1>2, <1>3, <2>2, WrittenSame DEF Kept
<1>5. ContextIntact'
  BY <1>2, <1>4, ContextKept
<1>6. CacheSound'
  BY <1>2, CacheKept DEF KVInv, KVFaithful
<1> QED
  BY <1>2, <1>5, <1>6 DEF KVInv, KVFaithful

LEMMA AbortKV ==
  ASSUME IInv, KVInv, NEW id \in SeqId, Abort(id)
  PROVE  KVInv'
<1>1. UNCHANGED <<batch, phase>> /\ ~ Pending /\ Retire(id)
  BY DEF Abort, stepVars, Pending
<1>2. Settled
  BY <1>1 DEF Settled, Pending
<1>3. ToSet(running') = ToSet(running) \ {id}
  BY <1>1, QueueFacts, DropFacts DEF Retire, IInv, StepTypeOK
<1>4. ContextIntact' /\ CacheSound'
  <2>1. FreeBlocks(id, Blank("finished")) /\ Blank("finished") \in Sequence
        /\ Blank("finished").table = << >> /\ Blank("finished").computed = 0
    BY <1>1, BlankFacts DEF Retire, Status
  <2> QED
    BY <1>1, <1>2, <1>3, <2>1, ReleaseKV
<1> QED
  BY <1>1, <1>4 DEF KVInv, KVFaithful

LEMMA CloseKV ==
  ASSUME IInv, KVInv, Close
  PROVE  KVInv'
<1>1. running' = << >> /\ index' = Pool!NoEntries /\ batch' = batch
  BY DEF Close, Pool!Reset
<1>2. ContextIntact'
  BY <1>1 DEF ContextIntact, ToSet
<1>3. CacheSound'
  BY <1>1 DEF CacheSound, Pool!NoEntries
<1> QED
  BY <1>1, <1>2, <1>3 DEF KVInv, KVFaithful

LEMMA PublishNextKV ==
  ASSUME IInv, KVInv, PublishNext
  PROVE  KVInv'
<1>1. /\ phase = "publish" /\ todo # << >> /\ PublishComputed(Head(todo))
      /\ running' = running /\ phase' = phase /\ batch' = batch
  BY DEF PublishNext, queues
<1>2. PICK id \in SeqId : id = Head(todo)
  <2>1. todo \in Seq(SeqId)
    BY DEF IInv, StepTypeOK
  <2> QED
    BY <1>1, <2>1, TailFacts
<1>3. /\ kv' = kv /\ Pool!IsInjective(NewEntries(id))
      /\ index' = IF PrefixCaching THEN Pool!Inserted(NewEntries(id)) ELSE index
  BY <1>1, <1>2 DEF PublishComputed, Pool!Publish
<1>4. \A b \in DOMAIN index' :
        /\ kv'[b] = kv[b]
        /\ \/ b \in DOMAIN index /\ index'[b] = index[b]
           \/ b \in DOMAIN NewEntries(id) /\ index'[b] = NewEntries(id)[b]
  <2>1. /\ \A b \in DOMAIN index : index'[b] = index[b]
        /\ \A b \in DOMAIN index' \ DOMAIN index :
             b \in DOMAIN NewEntries(id) /\ index'[b] = NewEntries(id)[b]
    BY <1>3, InsertedFacts DEF IInv
  <2> QED
    BY <1>3, <2>1
<1>5. ~ Pending /\ Settled
  BY <1>1 DEF Settled, Pending
<1>6. CacheSound'
  BY <1>4, <1>5, CachePublished
<1>7. PICK s \in Sequence :
        /\ seqs' = [seqs EXCEPT ![id] = s]
        /\ s.tokens = seqs[id].tokens /\ s.table = seqs[id].table
        /\ s.lora = seqs[id].lora /\ s.computed = seqs[id].computed
  BY <1>1, <1>2, PublishStep DEF IInv
<1>8. ASSUME NEW other \in ToSet(running')
      PROVE  Kept(other) /\ WrittenUpTo(other)' = WrittenUpTo(other)
  <2>1. other \in SeqId
    BY <1>1, QueueFacts DEF IInv
  <2>2. /\ seqs'[other].tokens = seqs[other].tokens /\ seqs'[other].table = seqs[other].table
        /\ seqs'[other].lora = seqs[other].lora /\ seqs'[other].computed = seqs[other].computed
    BY <1>7, <2>1 DEF IInv, MemoryInv, ManagerTypeOK
  <2> QED
    BY <1>3, <1>5, <2>2, WrittenSame DEF Kept
<1>9. ContextIntact'
  BY <1>1, <1>8, ContextKept
<1> QED
  BY <1>1, <1>6, <1>9 DEF KVInv, KVFaithful

LEMMA PreemptKV ==
  ASSUME IInv, KVInv, phase = "running", NEW v \in SeqId, v \notin Scheduled,
         Preempt(v), UNCHANGED <<phase, batch>>
  PROVE  KVInv'
<1>1. FreeBlocks(v, ForRecompute(seqs[v])) /\ running' = Drop(running, v)
  BY DEF Preempt
<1>2. Settled
  BY DEF Settled, Pending
<1>3. ToSet(running') = ToSet(running) \ {v}
  BY <1>1, QueueFacts, DropFacts DEF IInv, StepTypeOK
<1>4. /\ ForRecompute(seqs[v]) \in Sequence /\ ForRecompute(seqs[v]).table = << >>
      /\ ForRecompute(seqs[v]).computed = 0
  <2>1. seqs[v] \in Sequence
    BY DEF IInv, MemoryInv, ManagerTypeOK
  <2> QED
    BY <2>1, RecomputeFacts
<1>5. ContextIntact' /\ CacheSound'
  BY <1>1, <1>2, <1>3, <1>4, ReleaseKV
<1> QED
  BY <1>5 DEF KVInv, KVFaithful

LEMMA EmitKV ==
  ASSUME IInv, KVInv, phase \in {"running", "emit"}, NEW id \in SeqId, seqs[id].status = "running",
         id \notin Scheduled, ~ Exhausted, Emit(id, NewTokens(id)), IInv',
         running' = running, phase' \in {"running", "admit"}
  PROVE  KVInv'
<1> DEFINE n == NewTokens(id)
           start == seqs[id].computed
           isPrefill == start < seqs[id].prompt
           item == [id |-> id, start |-> start, end |-> start + n, prefill |-> isPrefill,
                    chunk |-> isPrefill /\ start + n < seqs[id].prompt,
                    table |-> seqs'[id].table]
<1>1. AppendSlots(id, n) /\ batch' = Append(batch, item)
  BY DEF Emit
<1>2. /\ Pending /\ Pending' /\ MemoryInv /\ batch \in Seq(Item) /\ batch' \in Seq(Item)
      /\ seqs \in [SeqId -> Sequence]
  BY DEF Pending, IInv, StepTypeOK, MemoryInv, ManagerTypeOK
<1>3. n \in Nat /\ start + n <= NumTokens(id) /\ start \in Nat
  BY <1>2, NewTokensFacts DEF Sequence
<1> HIDE DEF n
<1>4. /\ \A b \in Block : refs[b] > 0 => kv'[b] = kv[b]
      /\ \A b \in DOMAIN index' : b \in DOMAIN index /\ index'[b] = index[b] /\ kv'[b] = kv[b]
  BY <1>1, <1>2, <1>3, AppendStep
<1>5. PICK s \in Sequence :
        /\ seqs' = [seqs EXCEPT ![id] = s]
        /\ s.tokens = seqs[id].tokens /\ s.lora = seqs[id].lora
        /\ \A i \in DOMAIN seqs[id].table : s.table[i] = seqs[id].table[i]
  BY <1>1, <1>2, <1>3, AppendStep
<1>6. CacheSound'
  BY <1>4, CacheKept DEF KVInv, KVFaithful
<1>7. item.id = id /\ item.start = start /\ item.end = start + n
  OBVIOUS
<1> HIDE DEF item
<1>8. /\ DOMAIN batch' = 1 .. Len(batch) + 1 /\ DOMAIN batch = 1 .. Len(batch) /\ Len(batch) \in Nat
      /\ \A i \in DOMAIN batch : batch'[i] = batch[i] /\ i \in DOMAIN batch'
      /\ batch'[Len(batch) + 1] = item /\ Len(batch) + 1 \in DOMAIN batch'
  BY <1>1, <1>2
<1>9. \A i \in DOMAIN batch' : batch'[i].start <= batch'[i].end
  <2>1. start <= start + n
    BY <1>3
  <2>2. \A i \in DOMAIN batch' : i \in DOMAIN batch \/ i = Len(batch) + 1
    BY <1>8
  <2> QED
    BY <1>7, <1>8, <2>1, <2>2 DEF KVInv
<1>10. /\ \A i, j \in DOMAIN batch : batch[i].id = batch[j].id => i = j
       /\ \A i, j \in DOMAIN batch' : batch'[i].id = batch'[j].id => i = j
  BY DEF IInv, LoopInv
<1>11. ASSUME NEW x, NEW k \in DOMAIN batch', batch'[k].id = x
       PROVE  WrittenUpTo(x)' = batch'[k].start
  <2>1. (CHOOSE y \in ToSet(batch') : y.id = x) = batch'[k]
    BY <1>2, <1>10, <1>11, ItemOf
  <2>2. x \in Scheduled'
    BY <1>11 DEF Scheduled
  <2> QED
    BY <1>2, <2>1, <2>2 DEF WrittenUpTo
<1>12. ASSUME NEW x, NEW k \in DOMAIN batch, batch[k].id = x
       PROVE  WrittenUpTo(x) = batch[k].start
  <2>1. (CHOOSE y \in ToSet(batch) : y.id = x) = batch[k]
    BY <1>2, <1>10, <1>12, ItemOf
  <2>2. x \in Scheduled
    BY <1>12 DEF Scheduled
  <2> QED
    BY <1>2, <2>1, <2>2 DEF WrittenUpTo
<1>13. ASSUME NEW x \in ToSet(running')
       PROVE  Kept(x) /\ WrittenUpTo(x)' = WrittenUpTo(x)
  <2>1. x \in SeqId
    BY QueueFacts DEF IInv
  <2>2. \A i \in DOMAIN seqs[x].table : kv'[seqs[x].table[i]] = kv[seqs[x].table[i]]
    <3> SUFFICES ASSUME NEW i \in DOMAIN seqs[x].table
                 PROVE  kv'[seqs[x].table[i]] = kv[seqs[x].table[i]]
      OBVIOUS
    <3>1. seqs[x] \in Sequence
      BY <1>2, <2>1
    <3>2. seqs[x].table[i] \in Block /\ seqs[x].table[i] \in ToSet(seqs[x].table)
      BY <3>1, TableBlock
    <3>3. refs[seqs[x].table[i]] > 0
      BY <1>2, <2>1, <3>2, Counting
    <3> QED
      BY <1>4, <3>2, <3>3
  <2>3. CASE x = id
    <3>1. seqs'[x] = s
      BY <1>2, <1>5, <2>3
    <3>2. Kept(x)
      BY <1>5, <2>2, <2>3, <3>1 DEF Kept
    <3>3. WrittenUpTo(x) = seqs[id].computed
      BY <2>3 DEF WrittenUpTo
    <3>4. WrittenUpTo(x)' = start
      BY <1>7, <1>8, <1>11, <2>3
    <3> QED
      BY <3>2, <3>3, <3>4
  <2>4. CASE x # id
    <3>1. seqs'[x] = seqs[x]
      BY <1>2, <1>5, <2>1, <2>4
    <3>2. Kept(x)
      BY <2>2, <3>1 DEF Kept
    <3>3. CASE \E k \in DOMAIN batch : batch[k].id = x
      <4>1. PICK k \in DOMAIN batch : batch[k].id = x
        BY <3>3
      <4> QED
        BY <1>8, <1>11, <1>12, <3>2, <4>1
    <3>4. CASE ~ \E k \in DOMAIN batch : batch[k].id = x
      <4>1. x \notin Scheduled
        BY <3>4 DEF Scheduled
      <4>2. x \notin Scheduled'
        <5>1. \A i \in DOMAIN batch' : i \in DOMAIN batch \/ i = Len(batch) + 1
          BY <1>8
        <5>2. \A i \in DOMAIN batch' : batch'[i].id # x
          BY <1>7, <1>8, <2>4, <3>4, <5>1
        <5> QED
          BY <5>2 DEF Scheduled
      <4> QED
        BY <3>1, <3>2, <4>1, <4>2 DEF WrittenUpTo
    <3> QED
      BY <3>3, <3>4
  <2> QED
    BY <2>3, <2>4
<1>14. ContextIntact'
  BY <1>13, ContextKept
<1> QED
  BY <1>6, <1>9, <1>14 DEF KVInv, KVFaithful

\* What a prefix hit holds is the K/V of the sequence that takes it.
LEMMA HitsHold ==
  ASSUME MemoryInv, CacheSound, NEW c \in SeqId, seqs[c].tokens # << >>,
         NEW n \in 1 .. Len(Hits(c)) * BlockSize
  PROVE  LET slot == SlotOf(Hits(c), n) IN kv[slot[1]][slot[2]] = ContextAt(c, n)
<1> DEFINE h == Hits(c)
           x == seqs[c].tokens
           k == (n - 1) \div BlockSize + 1
           q == (n - 1) % BlockSize
           m == Len(h) * BlockSize
           l == k * BlockSize
<1>1. /\ h \in Seq(Block) /\ Len(h) \in Nat /\ DOMAIN h = 1 .. Len(h)
      /\ m \in Nat /\ m < Len(x) /\ ToSet(h) \subseteq DOMAIN index
      /\ \A i \in DOMAIN h : index[h[i]] = BlockHash(c, i)
  BY HitsFacts DEF NumTokens
<1>2. Len(h) = BlocksFor(m)
  <2>1. BlockSize \in Nat /\ BlockSize > 0
    BY BlockSizeAssumption
  <2>2. m <= Len(h) * BlockSize /\ Len(h) * BlockSize < m + BlockSize
    BY <1>1, <2>1
  <2> QED
    BY <1>1, <2>2, BlocksForUnique
<1>20. n \in 1 .. m
  OBVIOUS
<1> HIDE DEF h
<1>21. m \in Nat /\ Len(h) >= BlocksFor(m)
  BY <1>1, <1>2
<1> HIDE DEF m
<1>3. /\ k \in DOMAIN h /\ k \in Nat /\ q \in Offset /\ SlotOf(h, n) = <<h[k], q>>
      /\ n <= l /\ l \in Nat /\ n = l - BlockSize + 1 + q
  BY <1>1, <1>20, <1>21, TableSlot
<1> USE DEF m
<1>4. l <= m
  BY <1>1, <1>3, Multiples
<1>5. x \in Seq(Token) /\ Len(x) \in Nat
  BY DEF MemoryInv, ManagerTypeOK, Sequence
<1>6. n \in Nat /\ n \in 1 .. l
  BY <1>1, <1>3, <1>20
<1> HIDE DEF k, q, m, l
<1>7. l <= Len(x)
  BY <1>1, <1>3, <1>4, <1>5
<1>8. index[h[k]] = <<seqs[c].lora, Prefix(x, l)>>
  BY <1>1, <1>3, ContextIs DEF BlockHash, l
<1>9. Len(Prefix(x, l)) = l /\ Prefix(Prefix(x, l), n) = Prefix(x, n)
  <2>1. /\ Len(Prefix(x, l)) = l
        /\ \A j \in 1 .. l : Prefix(Prefix(x, l), j) = Prefix(x, j)
    BY <1>3, <1>5, <1>7, PrefixFacts
  <2> QED
    BY <1>6, <2>1
<1>10. kv[h[k]][q] = <<index[h[k]][1], Prefix(index[h[k]][2],
                                             Len(index[h[k]][2]) - BlockSize + 1 + q)>>
  <2>1. h[k] \in DOMAIN index
    BY <1>1, <1>3 DEF ToSet
  <2> QED
    BY <1>3, <2>1, CacheIs
<1>11. index[h[k]][1] = seqs[c].lora /\ index[h[k]][2] = Prefix(x, l)
  BY <1>8
<1>12. Len(index[h[k]][2]) - BlockSize + 1 + q = n
  BY <1>3, <1>9, <1>11
<1>13. kv[h[k]][q] = <<seqs[c].lora, Prefix(x, n)>>
  BY <1>9, <1>10, <1>11, <1>12
<1>14. kv[SlotOf(h, n)[1]][SlotOf(h, n)[2]] = ContextAt(c, n)
  BY <1>3, <1>13, ContextIs
<1> QED
  BY <1>14 DEF h

LEMMA AdmitKV ==
  ASSUME IInv, KVInv, Admit
  PROVE  KVInv'
<1>1. preempted \o waiting # << >>
  BY DEF Admit, Admissible
<1>2. PICK c \in SeqId : c = Candidate
  BY <1>1, CandidateFacts
<1>3. /\ seqs[c].status \in {"waiting", "preempted"}
      /\ seqs[c].tokens # << >> /\ seqs[c].table = << >>
  BY <1>1, <1>2, CandidateFacts
<1>4. /\ phase = "admit" /\ AllocateHits(c, "running") /\ running' = Append(running, c)
      /\ phase' = "emit" /\ batch' = batch
  BY <1>2 DEF Admit
<1>5. /\ index' = index /\ kv' = kv
      /\ \E s \in Sequence :
           /\ seqs' = [seqs EXCEPT ![c] = s]
           /\ s.tokens = seqs[c].tokens /\ s.lora = seqs[c].lora
           /\ s.table = Hits(c) /\ s.computed = Len(Hits(c)) * BlockSize
  BY <1>3, <1>4, AllocateStep DEF IInv, Status
<1>6. PICK s \in Sequence :
        /\ seqs' = [seqs EXCEPT ![c] = s]
        /\ s.tokens = seqs[c].tokens /\ s.lora = seqs[c].lora
        /\ s.table = Hits(c) /\ s.computed = Len(Hits(c)) * BlockSize
  BY <1>5
<1>7. CacheSound'
  BY <1>5, CacheKept DEF KVInv, KVFaithful
<1>8. Settled
  BY <1>4 DEF Settled, Pending
<1>9. seqs'[c] = s /\ \A other \in SeqId \ {c} : seqs'[other] = seqs[other]
  BY <1>6 DEF IInv, MemoryInv, ManagerTypeOK
<1>10. c \notin Scheduled /\ c \notin Scheduled'
  <2>1. \A i \in DOMAIN batch : seqs[batch[i].id].status = "running"
    BY <1>4 DEF IInv, WritesPrivate, Pending
  <2> QED
    BY <1>3, <1>4, <2>1 DEF Scheduled
<1>11. ContextIntact'
  <2> SUFFICES ASSUME NEW x \in ToSet(running'), NEW n \in 1 .. WrittenUpTo(x)'
               PROVE  Holds(x, n)'
    BY DEF ContextIntact, Holds
  <2>1. ToSet(running') = ToSet(running) \cup {c} /\ ToSet(running) \subseteq SeqId
    BY <1>4, AppendFacts, QueueFacts DEF IInv, StepTypeOK
  <2>2. CASE x = c
    <3>1. WrittenUpTo(c)' = Len(Hits(c)) * BlockSize
      BY <1>6, <1>9, <1>10 DEF WrittenUpTo
    <3>2. n \in 1 .. Len(Hits(c)) * BlockSize
      BY <2>2, <3>1
    <3>3. LET slot == SlotOf(Hits(c), n) IN kv[slot[1]][slot[2]] = ContextAt(c, n)
      BY <1>3, <3>2, HitsHold DEF IInv, KVInv, KVFaithful
    <3>4. ContextAt(c, n)' = ContextAt(c, n)
      BY <1>6, <1>9 DEF ContextAt
    <3> QED
      BY <1>5, <1>6, <1>9, <2>2, <3>3, <3>4 DEF Holds, SlotOf
  <2>3. CASE x # c
    <3>1. x \in ToSet(running) /\ x \in SeqId /\ seqs'[x] = seqs[x]
      BY <1>9, <2>1, <2>3
    <3>2. WrittenUpTo(x)' = WrittenUpTo(x) /\ Kept(x)
      BY <1>5, <1>8, <3>1, WrittenSame DEF Kept
    <3>3. Holds(x, n) /\ n \in 1 .. seqs[x].computed
      <4>1. n \in 1 .. WrittenUpTo(x)
        BY <3>2
      <4>2. WrittenUpTo(x) \in Nat /\ WrittenUpTo(x) <= seqs[x].computed /\ seqs[x].computed \in Nat
        BY <3>1, WrittenFacts DEF IInv, MemoryInv, ManagerTypeOK, Sequence
      <4>3. n \in 1 .. seqs[x].computed
        BY <4>1, <4>2
      <4> QED
        BY <3>1, <4>1, <4>3 DEF KVInv, KVFaithful, ContextIntact, Holds
    <3> QED
      BY <3>1, <3>2, <3>3, HoldsKept DEF IInv
  <2> QED
    BY <2>2, <2>3
<1> QED
  BY <1>4, <1>7, <1>11 DEF KVInv, KVFaithful

\* The forward pass writes each slot of the batch once, with the context of its own position,
\* and no other slot.
LEMMA ForwardWrites ==
  ASSUME IInv, KVInv, Pending, Forward, NEW id \in SeqId, NEW n \in 1 .. seqs[id].computed
  PROVE  LET slot == SlotOf(seqs[id].table, n)
         IN  /\ \A w \in Writes : w.slot = slot => w.id = id /\ w.n = n
             /\ kv'[slot[1]][slot[2]] =
                  IF \E w \in Writes : w.slot = slot THEN ContextAt(id, n)
                                                     ELSE kv[slot[1]][slot[2]]
<1> DEFINE t == seqs[id].table
           b == t[(n - 1) \div BlockSize + 1]
           q == (n - 1) % BlockSize
<1>1. /\ SlotOf(t, n) = <<b, q>> /\ b \in Block /\ b \in ToSet(t) /\ q \in Offset
      /\ MemoryInv /\ seqs \in [SeqId -> Sequence]
  BY SlotInTable DEF IInv, MemoryInv, ManagerTypeOK
<1> HIDE DEF b, q
<1>2. ASSUME NEW w \in Writes, w.slot = <<b, q>>
      PROVE  w.id = id /\ w.n = n
  <2>1. PICK i \in DOMAIN batch :
          /\ w.id = batch[i].id /\ w.n \in Positions(batch[i])
          /\ w.slot = SlotOf(batch[i].table, w.n)
          /\ w.id \in SeqId /\ w.n \in 1 .. seqs[w.id].computed
    BY WritesFacts
  <2>2. batch[i].table = seqs[w.id].table /\ refs[SlotOf(batch[i].table, w.n)[1]] = 1
    BY <2>1 DEF IInv, WritesPrivate
  <2>3. SlotOf(seqs[w.id].table, w.n) = <<b, q>>
    BY <1>2, <2>1, <2>2
  <2>4. refs[b] = 1
    <3>1. SlotOf(batch[i].table, w.n)[1] = b
      BY <2>2, <2>3
    <3> QED
      BY <2>2, <3>1
  <2>5. b \in ToSet(seqs[w.id].table)
    <3> DEFINE u == seqs[w.id].table
               k == (w.n - 1) \div BlockSize + 1
    <3>1. SlotOf(u, w.n) = <<u[k], (w.n - 1) % BlockSize>> /\ u[k] \in ToSet(u)
      BY <1>1, <2>1, SlotInTable
    <3> HIDE DEF k, u
    <3>2. b = u[k]
      BY <2>3, <3>1 DEF u
    <3> QED
      BY <3>1, <3>2 DEF u
  <2>6. w.id = id
    BY <1>1, <2>1, <2>4, <2>5, Counting
  <2>7. /\ t \in Seq(Block) /\ IsInjective(t) /\ seqs[id].computed \in Nat
        /\ Len(t) >= BlocksFor(seqs[id].computed)
    BY <1>1 DEF MemoryInv, TablesTidy, Sequence
  <2>8. SlotOf(t, w.n) = SlotOf(t, n) /\ w.n \in 1 .. seqs[id].computed
    BY <1>1, <2>1, <2>3, <2>6
  <2>9. w.n = n
    BY <2>7, <2>8, SlotsDiffer
  <2> QED
    BY <2>6, <2>9
<1> DEFINE At == {w \in Writes : w.slot = <<b, q>>}
<1>3. kv'[b][q] = IF At = {} THEN kv[b][q]
                  ELSE LET w == CHOOSE w \in At : TRUE IN ContextAt(w.id, w.n)
  BY <1>1 DEF Forward
<1>4. kv'[b][q] = IF \E w \in Writes : w.slot = <<b, q>> THEN ContextAt(id, n) ELSE kv[b][q]
  <2>1. CASE At = {}
    BY <1>3, <2>1
  <2>2. CASE At # {}
    <3>1. (CHOOSE w \in At : TRUE) \in At
      BY <2>2
    <3>2. PICK w : w = CHOOSE x \in At : TRUE
      OBVIOUS
    <3>3. w \in Writes /\ w.slot = <<b, q>>
      BY <3>1, <3>2
    <3>4. w.id = id /\ w.n = n
      BY <1>2, <3>3
    <3>5. kv'[b][q] = ContextAt(w.id, w.n)
      BY <1>3, <2>2, <3>2
    <3> QED
      BY <3>3, <3>4, <3>5
  <2> QED
    BY <2>1, <2>2
<1> HIDE DEF At, t
<1>5. /\ \A w \in Writes : w.slot = SlotOf(t, n) => w.id = id /\ w.n = n
      /\ kv'[SlotOf(t, n)[1]][SlotOf(t, n)[2]] =
           IF \E w \in Writes : w.slot = SlotOf(t, n) THEN ContextAt(id, n)
                                                      ELSE kv[SlotOf(t, n)[1]][SlotOf(t, n)[2]]
  <2>1. SlotOf(t, n) = <<b, q>> /\ SlotOf(t, n)[1] = b /\ SlotOf(t, n)[2] = q
    BY <1>1
  <2> QED
    BY <1>2, <1>4, <2>1
<1> QED
  BY <1>5 DEF t

\* It writes into no block the prefix cache answers for.
LEMMA ForwardSpares ==
  ASSUME IInv, Pending, Forward, NEW b \in DOMAIN index, NEW o \in Offset
  PROVE  kv'[b][o] = kv[b][o]
<1>1. b \in Block
  BY DEF IInv, MemoryInv, ManagerTypeOK, Pool!PoolTypeOK
<1>2. ASSUME NEW w \in Writes PROVE w.slot # <<b, o>>
  <2>1. PICK i \in DOMAIN batch :
          w.n \in Positions(batch[i]) /\ w.slot = SlotOf(batch[i].table, w.n)
    BY WritesFacts
  <2>2. SlotOf(batch[i].table, w.n)[1] \notin DOMAIN index
    BY <2>1 DEF IInv, WritesPrivate
  <2>3. w.slot[1] \notin DOMAIN index
    BY <2>1, <2>2
  <2> QED
    BY <2>3
<1> DEFINE At == {w \in Writes : w.slot = <<b, o>>}
<1>3. kv'[b][o] = IF At = {} THEN kv[b][o]
                  ELSE LET w == CHOOSE w \in At : TRUE IN ContextAt(w.id, w.n)
  BY <1>1 DEF Forward
<1>4. At = {}
  BY <1>2
<1> QED
  BY <1>3, <1>4

LEMMA ExecuteKV ==
  ASSUME IInv, KVInv, Execute
  PROVE  KVInv'
<1>1. /\ phase = "execute" /\ Forward /\ batch' = Sampled /\ Pending
      /\ UNCHANGED <<index, seqs, running>> /\ phase' \in {"idle", "process"}
  BY DEF Execute, queues, Pending
<1>2. CacheSound'
  BY <1>1, ForwardSpares DEF KVInv, KVFaithful, CacheSound
<1>3. \A i \in DOMAIN batch' : batch'[i].start <= batch'[i].end
  <2>1. batch' \in Seq(Item) /\ ToSet(batch') \subseteq ToSet(batch)
    BY <1>1, SampledFacts DEF IInv, StepTypeOK, LoopInv
  <2> SUFFICES ASSUME NEW i \in DOMAIN batch' PROVE batch'[i].start <= batch'[i].end
    OBVIOUS
  <2>2. batch'[i] \in ToSet(batch)
    BY <2>1 DEF ToSet
  <2>3. PICK j \in DOMAIN batch : batch'[i] = batch[j]
    BY <2>2 DEF ToSet
  <2> QED
    BY <2>3 DEF KVInv
<1>4. ContextIntact'
  <2> SUFFICES ASSUME NEW id \in ToSet(running'), NEW n \in 1 .. WrittenUpTo(id)'
               PROVE  Holds(id, n)'
    BY DEF ContextIntact, Holds
  <2>1. id \in ToSet(running) /\ id \in SeqId
    BY <1>1, QueueFacts DEF IInv
  <2>2. n \in 1 .. seqs[id].computed
    BY <1>1 DEF WrittenUpTo, Pending
  <2> DEFINE slot == SlotOf(seqs[id].table, n)
  <2>3. kv'[slot[1]][slot[2]] =
          IF \E w \in Writes : w.slot = slot THEN ContextAt(id, n) ELSE kv[slot[1]][slot[2]]
    BY <1>1, <2>1, <2>2, ForwardWrites
  <2>4. ASSUME ~ \E w \in Writes : w.slot = slot
        PROVE  kv[slot[1]][slot[2]] = ContextAt(id, n)
    <3>1. n \in 1 .. WrittenUpTo(id)
      <4>1. CASE id \notin Scheduled
        BY <2>1, <2>2, <4>1, WrittenFacts
      <4>2. CASE id \in Scheduled
        <5>1. PICK k \in DOMAIN batch : batch[k].id = id
          BY <4>2 DEF Scheduled
        <5>2. /\ batch \in Seq(Item) /\ batch[k] \in Item /\ batch[k] \in ToSet(batch)
              /\ \A i, j \in DOMAIN batch : batch[i].id = batch[j].id => i = j
          BY DEF IInv, StepTypeOK, LoopInv, ToSet
        <5>3. (CHOOSE item \in ToSet(batch) : item.id = id) = batch[k]
          BY <5>1, <5>2, ItemOf
        <5>4. WrittenUpTo(id) = batch[k].start
          BY <1>1, <4>2, <5>3 DEF WrittenUpTo
        <5>5. batch[k].table = seqs[id].table /\ batch[k].end = seqs[id].computed
          BY <1>1, <5>1 DEF IInv, WritesPrivate, LoopInv
        <5>6. n \notin Positions(batch[k])
          <6>1. SUFFICES ASSUME n \in Positions(batch[k]) PROVE FALSE
            OBVIOUS
          <6> DEFINE w == [id |-> batch[k].id, n |-> n, slot |-> SlotOf(batch[k].table, n)]
          <6>2. w \in Writes
            BY <5>2, <6>1 DEF Writes
          <6>3. w.slot = slot
            BY <5>5
          <6> QED
            BY <2>4, <6>2, <6>3
        <5>7. batch[k].start \in Nat /\ batch[k].end \in Nat
          BY <5>2 DEF Item
        <5> QED
          BY <2>2, <5>4, <5>5, <5>6, <5>7 DEF Positions
      <4> QED
        BY <4>1, <4>2
    <3> QED
      BY <2>1, <3>1 DEF KVInv, KVFaithful, ContextIntact
  <2>5. kv'[slot[1]][slot[2]] = ContextAt(id, n)
    BY <2>3, <2>4
  <2> QED
    BY <1>1, <2>5 DEF Holds, SlotOf, ContextAt
<1> QED
  BY <1>2, <1>3, <1>4 DEF KVInv, KVFaithful

LEMMA ProcessKV ==
  ASSUME IInv, KVInv, NEW token \in Token, NEW stops \in BOOLEAN, Process(token, stops)
  PROVE  KVInv'
<1>1. phase = "process" /\ batch' = Tail(batch) /\ phase' \in {"idle", "process"}
  BY DEF Process
<1>2. Settled /\ ~ Pending
  BY <1>1 DEF Settled, Pending
<1>3. batch \in Seq(Item) /\ batch # << >> /\ seqs \in [SeqId -> Sequence]
  BY <1>1 DEF IInv, LoopInv, StepTypeOK, MemoryInv, ManagerTypeOK
<1>4. /\ Head(batch) \in Item
      /\ \A i \in DOMAIN batch' : i + 1 \in DOMAIN batch /\ batch'[i] = batch[i + 1]
  BY <1>1, <1>3, TailFacts
<1>5. \A i \in DOMAIN batch' : batch'[i].start <= batch'[i].end
  BY <1>4 DEF KVInv
<1>6. PICK id \in SeqId : id = Head(batch).id
  BY <1>4 DEF Item
<1> DEFINE t == [seqs[id] EXCEPT !.tokens = Append(@, token)]
<1>7. FeedBack(id, t, stops)
  BY <1>6 DEF Process
<1>8. CASE Retire(id)
  <2>1. ToSet(running') = ToSet(running) \ {id}
    BY <1>8, QueueFacts, DropFacts DEF Retire, IInv, StepTypeOK
  <2>2. FreeBlocks(id, Blank("finished")) /\ Blank("finished") \in Sequence
        /\ Blank("finished").table = << >> /\ Blank("finished").computed = 0
    BY <1>8, BlankFacts DEF Retire, Status
  <2>3. ContextIntact' /\ CacheSound'
    BY <1>2, <2>1, <2>2, ReleaseKV
  <2> QED
    BY <1>5, <2>3 DEF KVInv, KVFaithful
<1>9. CASE seqs' = [seqs EXCEPT ![id] = t] /\ UNCHANGED <<refs, free, retained, index, kv, queues>>
  <2>1. /\ seqs[id] \in Sequence /\ seqs[id].tokens \in Seq(Token)
    BY <1>3 DEF Sequence
  <2>2. /\ t.tokens = Append(seqs[id].tokens, token) /\ t.lora = seqs[id].lora
        /\ t.table = seqs[id].table /\ t.computed = seqs[id].computed
    <3>1. \A x \in Sequence : \A u :
            LET y == [x EXCEPT !.tokens = u]
            IN  y.tokens = u /\ y.lora = x.lora /\ y.table = x.table /\ y.computed = x.computed
      BY DEF Sequence
    <3>2. t = [seqs[id] EXCEPT !.tokens = Append(seqs[id].tokens, token)]
      BY <2>1 DEF Sequence
    <3> HIDE DEF t
    <3> QED
      BY <2>1, <3>1, <3>2
  <2> HIDE DEF t
  <2>3. ASSUME NEW x \in ToSet(running')
        PROVE  Kept(x) /\ WrittenUpTo(x)' = WrittenUpTo(x)
    <3>1. x \in SeqId
      BY <1>9, QueueFacts DEF IInv, queues
    <3>2. CASE x = id
      <4>1. seqs'[x] = t
        BY <1>3, <1>9, <3>2
      <4>2. \A n \in 0 .. NumTokens(x) :
              SubSeq(seqs'[x].tokens, 1, n) = SubSeq(seqs[x].tokens, 1, n)
        <5> SUFFICES ASSUME NEW n \in 0 .. NumTokens(x)
                     PROVE  Prefix(seqs'[x].tokens, n) = Prefix(seqs[x].tokens, n)
          BY DEF Prefix
        <5>1. n \in Nat /\ n <= Len(seqs[id].tokens)
          BY <2>1, <3>2 DEF NumTokens
        <5> QED
          BY <2>1, <2>2, <3>2, <4>1, <5>1, PrefixFacts
      <4>3. Kept(x)
        BY <1>9, <2>2, <3>2, <4>1, <4>2 DEF Kept
      <4> QED
        BY <1>2, <2>2, <3>2, <4>1, <4>3, WrittenSame
    <3>3. CASE x # id
      <4>1. seqs'[x] = seqs[x]
        BY <1>3, <1>9, <3>1, <3>3
      <4> QED
        BY <1>2, <1>9, <4>1, WrittenSame DEF Kept
    <3> QED
      BY <3>2, <3>3
  <2>4. ContextIntact'
    BY <1>9, <2>3, ContextKept DEF queues
  <2>5. CacheSound'
    BY <1>9, CacheKept DEF KVInv, KVFaithful
  <2> QED
    BY <1>5, <2>4, <2>5 DEF KVInv, KVFaithful
<1> QED
  BY <1>7, <1>8, <1>9 DEF FeedBack

\* As long as the forward pass does not raise.
FaithfulInv == IInv /\ (~ faulty => KVInv)

LEMMA InitFaithful == Init => FaithfulInv
<1> SUFFICES ASSUME Init PROVE KVInv
  BY InitEstablishes DEF FaithfulInv
<1>1. running = << >> /\ index = Pool!NoEntries /\ batch = << >>
  BY DEF Init, ManagerInit, Pool!PoolInit
<1> QED
  BY <1>1 DEF KVInv, KVFaithful, ContextIntact, CacheSound, Pool!NoEntries, ToSet

LEMMA NextFaithful == FaithfulInv /\ [Next]_vars => FaithfulInv'
<1> SUFFICES ASSUME IInv, ~ faulty => KVInv, [Next]_vars, ~ faulty' PROVE KVInv'
  BY NextKeeps DEF FaithfulInv
<1>1. IInv'
  BY NextKeeps
<1>2. faulty' = faulty
  BY DEF Next, Step, vars
<1>3. KVInv
  BY <1>2
<1>4. ASSUME NEW shape \in Shape, AddRequest(shape) PROVE KVInv'
  BY <1>3, <1>4, AddRequestKV
<1>5. ASSUME NEW id \in SeqId, Abort(id) PROVE KVInv'
  BY <1>3, <1>5, AbortKV
<1>6. CASE Close
  BY <1>3, <1>6, CloseKV
<1>7. CASE BeginStep
  <2>1. UNCHANGED <<managerVars, running>> /\ batch' = << >> /\ batch = << >>
    BY <1>7 DEF BeginStep, queues, IInv, LoopInv
  <2> QED
    BY <1>3, <2>1, MoveOnKV DEF Settled
<1>8. CASE PublishNext
  BY <1>3, <1>8, PublishNextKV
<1>9. CASE EndPublish
  <2>1. UNCHANGED <<managerVars, running>> /\ batch' = batch /\ batch = << >>
    BY <1>9 DEF EndPublish, queues, IInv, LoopInv
  <2> QED
    BY <1>3, <2>1, MoveOnKV DEF Settled
<1>10. ASSUME NEW id \in SeqId, SkipRunning(id) PROVE KVInv'
  <2>1. UNCHANGED <<managerVars, running, phase>> /\ batch' = batch
    BY <1>10 DEF SkipRunning, queues
  <2> QED
    BY <1>3, <2>1, MoveOnKV DEF Settled, Pending
<1>11. ASSUME NEW id \in SeqId, PreemptVictim(id) PROVE KVInv'
  <2>1. /\ phase = "running" /\ Candidates(id) # {} /\ Preempt(Victim(id))
        /\ UNCHANGED <<phase, batch>>
    BY <1>11 DEF PreemptVictim, Visiting
  <2>2. StepTypeOK
    BY DEF IInv
  <2>3. Victim(id) \in Candidates(id)
    BY <2>1, <2>2, VictimFacts
  <2>4. Victim(id) \in SeqId /\ Victim(id) \notin Scheduled
    BY <2>2, <2>3 DEF Candidates, StepTypeOK, ToSet
  <2> QED
    BY <1>3, <2>1, <2>4, PreemptKV
<1>12. ASSUME NEW id \in SeqId, PreemptSelf(id) PROVE KVInv'
  <2>1. /\ phase = "running" /\ todo # << >> /\ id = Head(todo) /\ Preempt(id)
        /\ UNCHANGED <<phase, batch>>
    BY <1>12 DEF PreemptSelf, Visiting
  <2>2. id \notin Scheduled
    BY <2>1, TailFacts DEF IInv, LoopInv, StepTypeOK
  <2> QED
    BY <1>3, <2>1, <2>2, PreemptKV
<1>13. ASSUME NEW id \in SeqId, EmitRunning(id) PROVE KVInv'
  <2>1. /\ phase = "running" /\ phase' = phase /\ todo # << >> /\ id = Head(todo) /\ ~ Exhausted
        /\ ~ Passed(id) /\ Emit(id, NewTokens(id)) /\ running' = running
    BY <1>13 DEF EmitRunning, Visiting, queues
  <2>2. id \notin Scheduled
    BY <2>1, TailFacts DEF IInv, LoopInv, StepTypeOK
  <2> QED
    BY <1>1, <1>3, <2>1, <2>2, EmitKV DEF Passed
<1>14. CASE EndRunning
  <2>1. UNCHANGED <<managerVars, running>> /\ batch' = batch /\ phase = "running" /\ phase' = "admit"
    BY <1>14 DEF EndRunning, queues
  <2> QED
    BY <1>3, <2>1, MoveOnKV DEF Settled, Pending
<1>15. CASE Admit
  BY <1>3, <1>15, AdmitKV
<1>16. CASE EmitAdmitted
  <2>1. /\ phase = "emit" /\ Emit(Head(todo), NewTokens(Head(todo)))
        /\ phase' = "admit" /\ running' = running
    BY <1>16 DEF EmitAdmitted, queues
  <2>2. PICK id \in SeqId : /\ todo = <<id>> /\ id \notin Scheduled
                            /\ seqs[id].status = "running" /\ ~ Exhausted
    BY <2>1 DEF IInv, LoopInv
  <2>3. Emit(id, NewTokens(id))
    BY <2>1, <2>2
  <2> QED
    BY <1>1, <1>3, <2>1, <2>2, <2>3, EmitKV
<1>17. CASE EndSchedule
  <2>1. /\ UNCHANGED <<managerVars, running>> /\ batch' = batch /\ phase = "admit"
        /\ phase' = IF batch = << >> THEN "idle" ELSE "execute"
    BY <1>17 DEF EndSchedule, queues
  <2>2. Settled
    BY <2>1 DEF Settled, Pending
  <2> QED
    BY <1>3, <2>1, <2>2, MoveOnKV
<1>18. CASE Execute
  BY <1>3, <1>18, ExecuteKV
<1>19. CASE ExecuteFails
  BY <1>2, <1>19 DEF ExecuteFails
<1>20. ASSUME NEW token \in Token, NEW stops \in BOOLEAN, Process(token, stops) PROVE KVInv'
  BY <1>3, <1>20, ProcessKV
<1>21. CASE UNCHANGED vars
  <2>1. UNCHANGED <<managerVars, running, phase>> /\ batch' = batch
    BY <1>21 DEF vars, queues, stepVars
  <2> QED
    BY <1>3, <2>1, MoveOnKV DEF Settled, Pending
<1> QED
  BY <1>4, <1>5, <1>6, <1>7, <1>8, <1>9, <1>10, <1>11, <1>12, <1>13, <1>14, <1>15, <1>16, <1>17,
     <1>18, <1>19, <1>20, <1>21 DEF Next, Step

\* Engine.KVFaithful, in every behaviour in which the forward pass does not raise: whatever
\* sharing, preemption, eviction and reuse did to the blocks, each position of a running
\* sequence that counts as written holds the K/V of that very prefix and adapter, and so does
\* every block the prefix cache answers for.
THEOREM CacheFaithful == Spec => [](~ faulty => KVFaithful)
<1>1. FaithfulInv => (~ faulty => KVFaithful)
  BY DEF FaithfulInv, KVInv
<1> QED
  BY <1>1, InitFaithful, NextFaithful, PTL DEF Spec

\* Engine.KVFaithful as it stands, where the forward pass never raises.
THEOREM CacheFaithfulWithoutFaults ==
  ASSUME TRUE \notin Faults
  PROVE  Spec => []KVFaithful
<1>1. Init => ~ faulty
  BY DEF Init
<1>2. ~ faulty /\ [Next]_vars => ~ faulty'
  BY DEF Next, Step, vars
<1> QED
  BY <1>1, <1>2, CacheFaithful, PTL DEF Spec

----------------------------------------------------------------------------
(* Nobody is admitted out of turn                                          *)

LineInv == IInv /\ InLine /\ NoOvertaking

\* A step that lets nobody join the line, and nobody leave the ranks of the admitted but for
\* good.
LEMMA LineKept ==
  ASSUME IInv, InLine, NoOvertaking,
         \A i, j \in DOMAIN waiting' : i < j =>
           \E k, l \in DOMAIN waiting :
             k < l /\ waiting'[i] = waiting[k] /\ waiting'[j] = waiting[l],
         \A id \in SeqId :
           /\ seqs'[id].status = "waiting" => seqs[id].status = "waiting"
           /\ seqs'[id].status \in {"running", "preempted"}
                => seqs[id].status \in {"running", "preempted"}
           /\ seqs'[id].status = "absent" <=> seqs[id].status = "absent"
  PROVE  InLine' /\ NoOvertaking'
<1>1. InLine'
  BY DEF InLine
<1>2. NoOvertaking'
  BY DEF NoOvertaking
<1> QED
  BY <1>1, <1>2

\* A step that changes one sequence only and leaves the line as it is.
LEMMA LineKeptByOne ==
  ASSUME IInv, InLine, NoOvertaking, waiting' = waiting, NEW id \in SeqId, NEW s \in Sequence,
         seqs' = [seqs EXCEPT ![id] = s],
         \/ s.status = seqs[id].status
         \/ seqs[id].status = "running" /\ s.status = "preempted"
  PROVE  InLine' /\ NoOvertaking'
<1>1. \A i, j \in DOMAIN waiting' : i < j =>
        \E k, l \in DOMAIN waiting : k < l /\ waiting'[i] = waiting[k] /\ waiting'[j] = waiting[l]
  OBVIOUS
<1>2. seqs'[id] = s /\ \A other \in SeqId \ {id} : seqs'[other] = seqs[other]
  BY DEF IInv, MemoryInv, ManagerTypeOK
<1>3. \A other \in SeqId :
        /\ seqs'[other].status = "waiting" => seqs[other].status = "waiting"
        /\ seqs'[other].status \in {"running", "preempted"}
             => seqs[other].status \in {"running", "preempted"}
        /\ seqs'[other].status = "absent" <=> seqs[other].status = "absent"
  BY <1>2
<1> QED
  BY <1>1, <1>3, LineKept

\* A request that is over leaves the line to the others.
LEMMA LineKeptByRetire ==
  ASSUME IInv, InLine, NoOvertaking, NEW id \in SeqId, Retire(id), seqs[id].status # "absent"
  PROVE  InLine' /\ NoOvertaking'
<1>1. seqs' = [seqs EXCEPT ![id] = Blank("finished")] /\ waiting' = Drop(waiting, id)
  BY RetireStep DEF Retire
<1>2. /\ seqs'[id].status = "finished"
      /\ \A other \in SeqId \ {id} : seqs'[other] = seqs[other]
  BY <1>1, BlankFacts DEF IInv, MemoryInv, ManagerTypeOK, Status
<1>3. waiting \in Seq(SeqId) /\ IsInjective(waiting)
  BY QueueFacts DEF IInv, StepTypeOK
<1>4. \A i, j \in DOMAIN waiting' : i < j =>
        \E k, l \in DOMAIN waiting : k < l /\ waiting'[i] = waiting[k] /\ waiting'[j] = waiting[l]
  BY <1>1, <1>3, DropFacts
<1>5. \A other \in SeqId :
        /\ seqs'[other].status = "waiting" => seqs[other].status = "waiting"
        /\ seqs'[other].status \in {"running", "preempted"}
             => seqs[other].status \in {"running", "preempted"}
        /\ seqs'[other].status = "absent" <=> seqs[other].status = "absent"
  BY <1>2
<1> QED
  BY <1>4, <1>5, LineKept

\* The newcomer has the highest id, and joins at the end.
LEMMA AddRequestLine ==
  ASSUME IInv, InLine, NoOvertaking, NEW shape \in Shape, AddRequest(shape)
  PROVE  InLine' /\ NoOvertaking'
<1> DEFINE s == [Blank("waiting") EXCEPT
                   !.tokens = shape.tokens, !.prompt = Len(shape.tokens),
                   !.max = shape.max, !.lora = shape.lora, !.priority = shape.priority]
<1>1. PICK id \in SeqId :
        /\ seqs[id].status = "absent"
        /\ \A other \in 1 .. id - 1 : seqs[other].status # "absent"
        /\ seqs' = [seqs EXCEPT ![id] = s]
        /\ waiting' = Append(waiting, id)
  BY DEF AddRequest, Push
<1>2. s.status = "waiting"
  BY DEF Blank
<1> HIDE DEF s
<1>3. /\ seqs'[id].status = "waiting"
      /\ \A other \in SeqId \ {id} : seqs'[other] = seqs[other]
  BY <1>1, <1>2 DEF IInv, MemoryInv, ManagerTypeOK
<1>4. waiting \in Seq(SeqId) /\ \A i \in DOMAIN waiting : waiting[i] < id
  <2>1. waiting \in Seq(SeqId)
    BY DEF IInv, StepTypeOK
  <2>2. ASSUME NEW i \in DOMAIN waiting PROVE waiting[i] < id
    <3>1. waiting[i] \in SeqId /\ waiting[i] \in ToSet(waiting)
      BY <2>1 DEF ToSet
    <3>2. seqs[waiting[i]].status = "waiting"
      BY <3>1, QueueFacts DEF IInv
    <3>3. ~ (id < waiting[i]) /\ waiting[i] # id
      BY <1>1, <3>1, <3>2 DEF InLine
    <3> QED
      BY <3>1, <3>3 DEF SeqId
  <2> QED
    BY <2>1, <2>2
<1>5. \A i, j \in DOMAIN waiting' : i < j => waiting'[i] < waiting'[j]
  <2>1. /\ DOMAIN waiting' = 1 .. Len(waiting) + 1 /\ DOMAIN waiting = 1 .. Len(waiting)
        /\ Len(waiting) \in Nat /\ \A i \in DOMAIN waiting : waiting'[i] = waiting[i]
        /\ waiting'[Len(waiting) + 1] = id
    BY <1>1, <1>4, AppendFacts
  <2> SUFFICES ASSUME NEW i \in DOMAIN waiting', NEW j \in DOMAIN waiting', i < j
               PROVE  waiting'[i] < waiting'[j]
    OBVIOUS
  <2>2. i \in DOMAIN waiting /\ (j \in DOMAIN waiting \/ j = Len(waiting) + 1)
    BY <2>1
  <2> QED
    BY <1>4, <2>1, <2>2 DEF InLine
<1>6. \A early, late \in SeqId :
        early < late /\ seqs'[early].status = "absent" => seqs'[late].status = "absent"
  <2> SUFFICES ASSUME NEW early \in SeqId, NEW late \in SeqId, early < late,
                      seqs'[early].status = "absent"
               PROVE  seqs'[late].status = "absent"
    OBVIOUS
  <2>1. early # id /\ seqs[early].status = "absent"
    BY <1>3
  <2>2. early \notin 1 .. id - 1
    BY <1>1, <2>1
  <2>3. late # id
    BY <2>1, <2>2 DEF SeqId
  <2> QED
    BY <1>3, <2>1, <2>3 DEF InLine
<1>7. NoOvertaking'
  <2> SUFFICES ASSUME NEW early \in SeqId, NEW late \in SeqId, early < late,
                      seqs'[early].status = "waiting"
               PROVE  seqs'[late].status \notin {"running", "preempted"}
    BY DEF NoOvertaking
  <2>1. CASE late = id
    BY <1>3, <2>1
  <2>2. CASE early = id
    <3>1. seqs[late].status = "absent"
      BY <1>1, <2>2 DEF InLine
    <3>2. late # id
      BY <2>2 DEF SeqId
    <3> QED
      BY <1>3, <3>1, <3>2
  <2>3. CASE early # id /\ late # id
    BY <1>3, <2>3 DEF NoOvertaking
  <2> QED
    BY <2>1, <2>2, <2>3
<1> QED
  BY <1>5, <1>6, <1>7 DEF InLine

\* Whoever is admitted was preempted, or is the first in line.
LEMMA AdmitLine ==
  ASSUME IInv, InLine, NoOvertaking, Admit
  PROVE  InLine' /\ NoOvertaking'
<1>1. preempted \o waiting # << >>
  BY DEF Admit, Admissible
<1>2. PICK c \in SeqId : c = Candidate
  BY <1>1, CandidateFacts
<1>3. /\ seqs[c].status \in {"waiting", "preempted"}
      /\ preempted # << >> => c = Head(preempted)
      /\ preempted = << >> => waiting # << >> /\ c = Head(waiting)
  BY <1>1, <1>2, CandidateFacts
<1>4. /\ seqs'[c].status = "running"
      /\ \A other \in SeqId \ {c} : seqs'[other] = seqs[other]
  <2>1. AllocateHits(c, "running")
    BY <1>2 DEF Admit
  <2> QED
    BY <2>1 DEF AllocateHits, IInv, MemoryInv, ManagerTypeOK, Sequence
<1>5. waiting \in Seq(SeqId) /\ preempted \in Seq(SeqId)
  BY DEF IInv, StepTypeOK
<1>6. CASE preempted # << >>
  <2>1. waiting' = waiting
    BY <1>6 DEF Admit
  <2>2. seqs[c].status = "preempted"
    BY <1>3, <1>5, <1>6, TailFacts, QueueFacts DEF IInv
  <2>3. \A i, j \in DOMAIN waiting' : i < j =>
          \E k, l \in DOMAIN waiting : k < l /\ waiting'[i] = waiting[k] /\ waiting'[j] = waiting[l]
    BY <2>1
  <2>4. \A id \in SeqId :
          /\ seqs'[id].status = "waiting" => seqs[id].status = "waiting"
          /\ seqs'[id].status \in {"running", "preempted"}
               => seqs[id].status \in {"running", "preempted"}
          /\ seqs'[id].status = "absent" <=> seqs[id].status = "absent"
    BY <1>4, <2>2
  <2> QED
    BY <2>3, <2>4, LineKept
<1>7. CASE preempted = << >>
  <2>1. waiting' = Tail(waiting) /\ waiting # << >> /\ c = Head(waiting)
    BY <1>3, <1>7 DEF Admit
  <2>2. /\ DOMAIN waiting = 1 .. Len(waiting) /\ DOMAIN waiting' = 1 .. Len(waiting) - 1
        /\ Len(waiting) \in Nat /\ c = waiting[1] /\ 1 \in DOMAIN waiting
        /\ \A i \in DOMAIN waiting' : i + 1 \in DOMAIN waiting /\ waiting'[i] = waiting[i + 1]
        /\ c \in ToSet(waiting)
    BY <1>5, <2>1, TailFacts
  <2>3. seqs[c].status = "waiting"
    BY <2>2, QueueFacts DEF IInv
  <2>4. InLine'
    <3>1. ASSUME NEW i \in DOMAIN waiting', NEW j \in DOMAIN waiting', i < j
          PROVE  waiting'[i] < waiting'[j]
      <4>1. i + 1 < j + 1
        BY <2>2, <3>1
      <4> QED
        BY <2>2, <4>1 DEF InLine
    <3>2. \A id \in SeqId : seqs'[id].status = "absent" <=> seqs[id].status = "absent"
      BY <1>4, <2>3
    <3> QED
      BY <3>1, <3>2 DEF InLine
  <2>5. ASSUME NEW early \in SeqId, NEW late \in SeqId, early < late,
               seqs'[early].status = "waiting"
        PROVE  seqs'[late].status \notin {"running", "preempted"}
    <3>1. early # c /\ seqs[early].status = "waiting"
      BY <1>4, <2>5
    <3>2. late # c
      <4>1. early \in ToSet(waiting)
        BY <3>1, QueueFacts DEF IInv
      <4>2. PICK i \in DOMAIN waiting : waiting[i] = early
        BY <4>1 DEF ToSet
      <4>3. 1 < i
        BY <2>2, <3>1, <4>2
      <4>4. c < early
        BY <2>2, <4>2, <4>3 DEF InLine
      <4> QED
        BY <2>5, <4>4 DEF SeqId
    <3> QED
      BY <1>4, <2>5, <3>1, <3>2 DEF NoOvertaking
  <2> QED
    BY <2>4, <2>5 DEF NoOvertaking
<1> QED
  BY <1>6, <1>7

LEMMA CloseLine ==
  ASSUME IInv, InLine, NoOvertaking, Close
  PROVE  InLine' /\ NoOvertaking'
<1>1. /\ waiting' = << >>
      /\ seqs' = [id \in SeqId |-> IF InFlight(id) THEN Blank("finished") ELSE seqs[id]]
  BY DEF Close
<1>2. Blank("finished").status = "finished"
  BY DEF Blank
<1>3. \A id \in SeqId :
        /\ seqs'[id].status \notin {"waiting", "running", "preempted"}
        /\ seqs'[id].status = "absent" <=> seqs[id].status = "absent"
  BY <1>1, <1>2 DEF InFlight
<1> QED
  BY <1>1, <1>3 DEF InLine, NoOvertaking

\* The steps that touch neither the line nor anybody's status.
LEMMA LineUntouched ==
  ASSUME InLine, NoOvertaking, waiting' = waiting, seqs' = seqs
  PROVE  InLine' /\ NoOvertaking'
BY DEF InLine, NoOvertaking

LEMMA EmitLine ==
  ASSUME IInv, InLine, NoOvertaking, NEW id \in SeqId, ~ Exhausted, Emit(id, NewTokens(id)),
         waiting' = waiting
  PROVE  InLine' /\ NoOvertaking'
<1>1. AppendSlots(id, NewTokens(id))
  BY DEF Emit
<1>2. NewTokens(id) \in Nat /\ seqs[id].computed + NewTokens(id) <= NumTokens(id)
  BY NewTokensFacts
<1>3. PICK s \in Sequence : seqs' = [seqs EXCEPT ![id] = s] /\ s.status = seqs[id].status
  BY <1>1, <1>2, AppendStep DEF IInv
<1> QED
  BY <1>3, LineKeptByOne

LEMMA PreemptLine ==
  ASSUME IInv, InLine, NoOvertaking, NEW id \in SeqId, Preempt(id), seqs[id].status = "running"
  PROVE  InLine' /\ NoOvertaking'
<1>1. /\ seqs' = [seqs EXCEPT ![id] = ForRecompute(seqs[id])] /\ waiting' = waiting
  BY DEF Preempt, FreeBlocks
<1>2. ForRecompute(seqs[id]) \in Sequence /\ ForRecompute(seqs[id]).status = "preempted"
  <2>1. seqs[id] \in Sequence
    BY DEF IInv, MemoryInv, ManagerTypeOK
  <2> QED
    BY <2>1, RecomputeFacts
<1> QED
  BY <1>1, <1>2, LineKeptByOne

LEMMA ProcessLine ==
  ASSUME IInv, InLine, NoOvertaking, NEW token \in Token, NEW stops \in BOOLEAN,
         Process(token, stops)
  PROVE  InLine' /\ NoOvertaking'
<1>1. batch \in Seq(Item) /\ batch # << >> /\ seqs \in [SeqId -> Sequence]
  BY DEF Process, IInv, LoopInv, StepTypeOK, MemoryInv, ManagerTypeOK
<1>2. Head(batch) \in Item /\ 1 \in DOMAIN batch /\ Head(batch) = batch[1]
  BY <1>1, TailFacts
<1>3. PICK id \in SeqId : id = Head(batch).id
  BY <1>2 DEF Item
<1>4. seqs[id].status # "absent"
  BY <1>2, <1>3 DEF IInv, LoopInv
<1> DEFINE t == [seqs[id] EXCEPT !.tokens = Append(@, token)]
<1>5. FeedBack(id, t, stops)
  BY <1>3 DEF Process
<1>6. CASE Retire(id)
  BY <1>4, <1>6, LineKeptByRetire
<1>7. CASE seqs' = [seqs EXCEPT ![id] = t] /\ UNCHANGED queues
  <2>1. t \in Sequence /\ t.status = seqs[id].status
    <3>1. seqs[id] \in Sequence
      BY <1>1
    <3>2. Append(seqs[id].tokens, token) \in Seq(Token)
      BY <3>1, AppendFacts DEF Sequence
    <3>3. \A x \in Sequence, u \in Seq(Token) :
            [x EXCEPT !.tokens = u] \in Sequence /\ [x EXCEPT !.tokens = u].status = x.status
      BY DEF Sequence
    <3>4. t = [seqs[id] EXCEPT !.tokens = Append(seqs[id].tokens, token)]
      BY <3>1 DEF Sequence
    <3> HIDE DEF t
    <3> QED
      BY <3>1, <3>2, <3>3, <3>4
  <2> HIDE DEF t
  <2> QED
    BY <1>7, <2>1, LineKeptByOne DEF queues
<1> QED
  BY <1>5, <1>6, <1>7 DEF FeedBack

LEMMA NextLine == LineInv /\ [Next]_vars => LineInv'
<1> SUFFICES ASSUME IInv, InLine, NoOvertaking, [Next]_vars PROVE InLine' /\ NoOvertaking'
  BY NextKeeps DEF LineInv
<1> DEFINE Kept2 == InLine' /\ NoOvertaking'
<1>1. ASSUME NEW shape \in Shape, AddRequest(shape) PROVE Kept2
  BY <1>1, AddRequestLine
<1>2. ASSUME NEW id \in SeqId, Abort(id) PROVE Kept2
  <2>1. Retire(id) /\ seqs[id].status # "absent"
    BY <1>2 DEF Abort, InFlight
  <2> QED
    BY <2>1, LineKeptByRetire
<1>3. CASE Close
  BY <1>3, CloseLine
<1>4. CASE BeginStep \/ EndPublish \/ EndRunning \/ EndSchedule
  <2>1. waiting' = waiting /\ seqs' = seqs
    BY <1>4 DEF BeginStep, EndPublish, EndRunning, EndSchedule, managerVars, queues
  <2> QED
    BY <2>1, LineUntouched
<1>5. CASE PublishNext
  <2>1. todo # << >> /\ PublishComputed(Head(todo)) /\ waiting' = waiting /\ todo \in Seq(SeqId)
    BY <1>5 DEF PublishNext, queues, IInv, StepTypeOK
  <2>2. PICK id \in SeqId : id = Head(todo)
    BY <2>1, TailFacts
  <2>3. PICK s \in Sequence : seqs' = [seqs EXCEPT ![id] = s] /\ s.status = seqs[id].status
    BY <2>1, <2>2, PublishStep DEF IInv
  <2> QED
    BY <2>1, <2>3, LineKeptByOne
<1>6. ASSUME NEW id \in SeqId, SkipRunning(id) PROVE Kept2
  <2>1. waiting' = waiting /\ seqs' = seqs
    BY <1>6 DEF SkipRunning, managerVars, queues
  <2> QED
    BY <2>1, LineUntouched
<1>7. ASSUME NEW id \in SeqId, PreemptVictim(id) PROVE Kept2
  <2>1. Candidates(id) # {} /\ Preempt(Victim(id)) /\ StepTypeOK
    BY <1>7 DEF PreemptVictim, IInv
  <2>2. Victim(id) \in Candidates(id)
    BY <2>1, VictimFacts
  <2>3. Victim(id) \in SeqId /\ seqs[Victim(id)].status = "running"
    BY <2>1, <2>2 DEF Candidates, StepTypeOK, ToSet
  <2> QED
    BY <2>1, <2>3, PreemptLine
<1>8. ASSUME NEW id \in SeqId, PreemptSelf(id) PROVE Kept2
  <2>1. Preempt(id) /\ seqs[id].status = "running"
    BY <1>8 DEF PreemptSelf, Passed
  <2> QED
    BY <2>1, PreemptLine
<1>9. ASSUME NEW id \in SeqId, EmitRunning(id) PROVE Kept2
  <2>1. Emit(id, NewTokens(id)) /\ ~ Exhausted /\ waiting' = waiting
    BY <1>9 DEF EmitRunning, Visiting, queues
  <2> QED
    BY <2>1, EmitLine
<1>10. CASE Admit
  BY <1>10, AdmitLine
<1>11. CASE EmitAdmitted
  <2>1. /\ phase = "emit" /\ Emit(Head(todo), NewTokens(Head(todo))) /\ waiting' = waiting
    BY <1>11 DEF EmitAdmitted, queues
  <2>2. PICK id \in SeqId : todo = <<id>> /\ ~ Exhausted
    BY <2>1 DEF IInv, LoopInv
  <2>3. Emit(id, NewTokens(id))
    BY <2>1, <2>2
  <2> QED
    BY <2>1, <2>2, <2>3, EmitLine
<1>12. CASE Execute \/ ExecuteFails
  <2>1. waiting' = waiting /\ seqs' = seqs
    BY <1>12 DEF Execute, ExecuteFails, queues
  <2> QED
    BY <2>1, LineUntouched
<1>13. ASSUME NEW token \in Token, NEW stops \in BOOLEAN, Process(token, stops) PROVE Kept2
  BY <1>13, ProcessLine
<1>14. CASE UNCHANGED vars
  <2>1. waiting' = waiting /\ seqs' = seqs
    BY <1>14 DEF vars, managerVars, queues
  <2> QED
    BY <2>1, LineUntouched
<1> QED
  BY <1>1, <1>2, <1>3, <1>4, <1>5, <1>6, <1>7, <1>8, <1>9, <1>10, <1>11, <1>12, <1>13, <1>14
  DEF Next, Step

\* Engine.NoOvertaking: under "fcfs" no request runs, or has run and been preempted, while one
\* that arrived before it still waits for its first admission.
THEOREM FirstComeFirstServed == Spec => []NoOvertaking
<1>1. Init => LineInv
  <2> SUFFICES ASSUME Init PROVE InLine /\ NoOvertaking
    BY InitEstablishes DEF LineInv
  <2>1. waiting = << >> /\ \A id \in SeqId : seqs[id].status = "absent"
    BY DEF Init, ManagerInit, Blank
  <2> QED
    BY <2>1 DEF InLine, NoOvertaking
<1>2. LineInv => NoOvertaking
  BY DEF LineInv
<1> QED
  BY <1>1, <1>2, NextLine, PTL DEF Spec

----------------------------------------------------------------------------
(* Without chunked prefill, whatever is scheduled is scheduled to the end  *)

WholeSafe == IInv /\ WholeInv

\* A step that schedules nothing, and gives nobody in the batch a token.
LEMMA WholeKept ==
  ASSUME WholeInv, phase' # "emit", ToSet(batch') \subseteq ToSet(batch),
         \A i \in DOMAIN batch' : seqs'[batch'[i].id].tokens = seqs[batch'[i].id].tokens
  PROVE  WholeInv'
<1> SUFFICES ASSUME NEW i \in DOMAIN batch' PROVE batch'[i].end = Len(seqs'[batch'[i].id].tokens)
  BY DEF WholeInv, NumTokens
<1>1. PICK j \in DOMAIN batch : batch'[i] = batch[j]
  BY DEF ToSet
<1> QED
  BY <1>1 DEF WholeInv, NumTokens

LEMMA EmitWhole ==
  ASSUME IInv, WholeInv, ~ ChunkedPrefill, NEW id \in SeqId, ~ Exhausted,
         Emit(id, NewTokens(id)), ~ MustNotSplit(Uncomputed(id)), phase' # "emit"
  PROVE  WholeInv'
<1> DEFINE n == NewTokens(id)
           start == seqs[id].computed
           isPrefill == start < seqs[id].prompt
           item == [id |-> id, start |-> start, end |-> start + n, prefill |-> isPrefill,
                    chunk |-> isPrefill /\ start + n < seqs[id].prompt,
                    table |-> seqs'[id].table]
<1>1. AppendSlots(id, n) /\ batch' = Append(batch, item) /\ batch \in Seq(Item)
  BY DEF Emit, IInv, StepTypeOK
<1>2. /\ n \in Nat /\ n <= Uncomputed(id) /\ start + n <= NumTokens(id)
      /\ Uncomputed(id) \in Nat
  BY NewTokensFacts
<1>3. start \in Nat /\ NumTokens(id) \in Nat /\ seqs \in [SeqId -> Sequence]
  BY DEF IInv, MemoryInv, ManagerTypeOK, Sequence, NumTokens
<1>4. start + n = NumTokens(id)
  <2>1. n = NumNew(Uncomputed(id), budget.tokens)
    BY DEF NewTokens
  <2>2. ~ (n < Uncomputed(id))
    BY <2>1 DEF MustNotSplit
  <2>3. Uncomputed(id) = NumTokens(id) - start
    BY DEF Uncomputed
  <2> HIDE DEF n, start
  <2> QED
    BY <1>2, <1>3, <2>2, <2>3
<1>5. PICK s \in Sequence : seqs' = [seqs EXCEPT ![id] = s] /\ s.tokens = seqs[id].tokens
  <2> HIDE DEF n
  <2> QED
    BY <1>1, <1>2, AppendStep DEF IInv
<1>6. item.id = id /\ item.end = start + n
  OBVIOUS
<1> HIDE DEF item, n, start
<1>7. \A x \in SeqId : seqs'[x].tokens = seqs[x].tokens
  BY <1>3, <1>5
<1> SUFFICES ASSUME NEW i \in DOMAIN batch' PROVE batch'[i].end = Len(seqs'[batch'[i].id].tokens)
  BY DEF WholeInv, NumTokens
<1>8. \/ i \in DOMAIN batch /\ batch'[i] = batch[i] /\ batch[i] \in Item
      \/ batch'[i] = item
  BY <1>1
<1>9. CASE i \in DOMAIN batch /\ batch'[i] = batch[i] /\ batch[i] \in Item
  <2>1. batch[i].id \in SeqId /\ batch[i].end = NumTokens(batch[i].id)
    BY <1>9 DEF Item, WholeInv
  <2> QED
    BY <1>7, <1>9, <2>1 DEF NumTokens
<1>10. CASE batch'[i] = item
  BY <1>4, <1>6, <1>7, <1>10 DEF NumTokens
<1> QED
  BY <1>8, <1>9, <1>10

LEMMA AdmitWhole ==
  ASSUME IInv, WholeInv, Admit
  PROVE  WholeInv'
<1>1. preempted \o waiting # << >>
  BY DEF Admit, Admissible
<1>2. PICK c \in SeqId : c = Candidate
  BY <1>1, CandidateFacts
<1> DEFINE m == Len(Hits(c)) * BlockSize
<1>3. /\ seqs' = [seqs EXCEPT ![c].status = "running", ![c].table = Hits(c),
                              ![c].published = Len(Hits(c)), ![c].computed = m]
      /\ todo' = <<c>> /\ budget' = budget /\ batch' = batch /\ phase' = "emit"
  BY <1>2 DEF Admit, AllocateHits
<1>4. ~ MustNotSplit(NumTokens(c) - m)
  BY <1>2 DEF Admit, Admissible
<1>5. /\ seqs'[c].tokens = seqs[c].tokens /\ seqs'[c].computed = m
      /\ \A other \in SeqId : seqs'[other].tokens = seqs[other].tokens
  <2>1. seqs \in [SeqId -> Sequence]
    BY DEF IInv, MemoryInv, ManagerTypeOK
  <2> HIDE DEF m
  <2> QED
    BY <1>3, <2>1 DEF Sequence
<1> HIDE DEF m
<1>6. ~ MustNotSplit(Uncomputed(Head(todo)))'
  <2>1. Head(todo)' = c
    BY <1>3
  <2>2. Uncomputed(Head(todo))' = NumTokens(c) - m
    BY <1>5, <2>1 DEF Uncomputed, NumTokens
  <2>3. budget'.tokens = budget.tokens
    BY <1>3
  <2> QED
    BY <1>4, <2>2, <2>3 DEF MustNotSplit, NumNew
<1>7. ASSUME NEW i \in DOMAIN batch' PROVE batch'[i].end = Len(seqs'[batch'[i].id].tokens)
  <2>1. batch[i] \in Item /\ batch'[i] = batch[i]
    BY <1>3 DEF IInv, StepTypeOK
  <2>2. batch[i].id \in SeqId
    BY <2>1 DEF Item
  <2> QED
    BY <1>3, <1>5, <2>1, <2>2 DEF WholeInv, NumTokens
<1> QED
  BY <1>6, <1>7 DEF WholeInv, NumTokens

LEMMA ProcessWhole ==
  ASSUME IInv, WholeInv, NEW token \in Token, NEW stops \in BOOLEAN, Process(token, stops)
  PROVE  WholeInv'
<1>1. /\ batch \in Seq(Item) /\ batch # << >> /\ seqs \in [SeqId -> Sequence]
      /\ batch' = Tail(batch) /\ phase' # "emit"
  BY DEF Process, IInv, LoopInv, StepTypeOK, MemoryInv, ManagerTypeOK
<1>2. /\ Head(batch) \in Item /\ 1 \in DOMAIN batch /\ Head(batch) = batch[1]
      /\ DOMAIN batch = 1 .. Len(batch) /\ DOMAIN batch' = 1 .. Len(batch) - 1
      /\ Len(batch) \in Nat /\ ToSet(batch') \subseteq ToSet(batch)
      /\ \A i \in DOMAIN batch' : i + 1 \in DOMAIN batch /\ batch'[i] = batch[i + 1]
  BY <1>1, TailFacts
<1>3. PICK id \in SeqId : id = Head(batch).id
  BY <1>2 DEF Item
<1> DEFINE t == [seqs[id] EXCEPT !.tokens = Append(@, token)]
<1>4. FeedBack(id, t, stops)
  BY <1>3 DEF Process
<1> HIDE DEF t
<1>5. \A other \in SeqId \ {id} : seqs'[other] = seqs[other]
  <2>1. CASE Retire(id)
    BY <1>1, <2>1 DEF Retire, FreeBlocks
  <2>2. CASE seqs' = [seqs EXCEPT ![id] = t]
    BY <1>1, <2>2
  <2> QED
    BY <1>4, <2>1, <2>2 DEF FeedBack
<1>6. ASSUME NEW i \in DOMAIN batch'
      PROVE  seqs'[batch'[i].id].tokens = seqs[batch'[i].id].tokens
  <2>1. i + 1 \in DOMAIN batch /\ i + 1 # 1 /\ batch'[i] = batch[i + 1]
    BY <1>2
  <2>2. batch[i + 1] \in Item
    BY <1>1, <2>1
  <2>3. batch[i + 1].id # batch[1].id
    BY <1>2, <2>1 DEF IInv, LoopInv
  <2>4. batch'[i].id \in SeqId \ {id}
    BY <1>2, <1>3, <2>1, <2>2, <2>3 DEF Item
  <2> QED
    BY <1>5, <2>4
<1> QED
  BY <1>1, <1>2, <1>6, WholeKept

LEMMA PreemptWhole ==
  ASSUME IInv, WholeInv, NEW v \in SeqId, Preempt(v), batch' = batch, phase' # "emit"
  PROVE  WholeInv'
<1>1. seqs' = [seqs EXCEPT ![v] = ForRecompute(seqs[v])] /\ seqs \in [SeqId -> Sequence]
  BY DEF Preempt, FreeBlocks, IInv, MemoryInv, ManagerTypeOK
<1>2. ForRecompute(seqs[v]).tokens = seqs[v].tokens
  BY <1>1, RecomputeFacts
<1>3. \A x \in SeqId : seqs'[x].tokens = seqs[x].tokens
  BY <1>1, <1>2
<1>4. ASSUME NEW i \in DOMAIN batch'
      PROVE  seqs'[batch'[i].id].tokens = seqs[batch'[i].id].tokens
  <2>1. batch'[i] \in Item
    BY DEF IInv, StepTypeOK
  <2>2. batch'[i].id \in SeqId
    BY <2>1 DEF Item
  <2> QED
    BY <1>3, <2>2
<1> QED
  BY <1>4, WholeKept

LEMMA NextWhole ==
  ASSUME ~ ChunkedPrefill
  PROVE  WholeSafe /\ [Next]_vars => WholeSafe'
<1> SUFFICES ASSUME IInv, WholeInv, [Next]_vars PROVE WholeInv'
  BY NextKeeps DEF WholeSafe
<1>1. ASSUME phase' # "emit", batch' = << >> PROVE WholeInv'
  BY <1>1, WholeKept DEF ToSet
<1>2. ASSUME phase' # "emit", batch' = batch, seqs' = seqs PROVE WholeInv'
  BY <1>2, WholeKept
<1>3. phase \in {"idle", "publish"} => batch = << >>
  BY DEF IInv, LoopInv
<1>4. ASSUME NEW shape \in Shape, AddRequest(shape) PROVE WholeInv'
  BY <1>1, <1>3, <1>4 DEF AddRequest, stepVars
<1>5. ASSUME NEW id \in SeqId, Abort(id) PROVE WholeInv'
  BY <1>1, <1>3, <1>5 DEF Abort, stepVars
<1>6. CASE Close
  BY <1>1, <1>3, <1>6 DEF Close
<1>7. CASE BeginStep \/ PublishNext \/ ExecuteFails
  BY <1>1, <1>3, <1>7 DEF BeginStep, PublishNext, ExecuteFails
<1>8. CASE EndPublish \/ EndRunning \/ EndSchedule
  BY <1>2, <1>8 DEF EndPublish, EndRunning, EndSchedule, managerVars
<1>9. ASSUME NEW id \in SeqId, SkipRunning(id) PROVE WholeInv'
  BY <1>2, <1>9 DEF SkipRunning, Visiting, managerVars
<1>10. ASSUME NEW id \in SeqId, PreemptVictim(id) PROVE WholeInv'
  <2>1. /\ Candidates(id) # {} /\ Preempt(Victim(id)) /\ StepTypeOK
        /\ batch' = batch /\ phase' # "emit"
    BY <1>10 DEF PreemptVictim, Visiting, IInv
  <2>2. Victim(id) \in Candidates(id)
    BY <2>1, VictimFacts
  <2>3. Victim(id) \in SeqId
    BY <2>1, <2>2 DEF Candidates, StepTypeOK, ToSet
  <2> QED
    BY <2>1, <2>3, PreemptWhole
<1>11. ASSUME NEW id \in SeqId, PreemptSelf(id) PROVE WholeInv'
  <2>1. Preempt(id) /\ batch' = batch /\ phase' # "emit"
    BY <1>11 DEF PreemptSelf, Visiting
  <2> QED
    BY <2>1, PreemptWhole
<1>12. ASSUME NEW id \in SeqId, EmitRunning(id) PROVE WholeInv'
  <2>1. /\ ~ Exhausted /\ Emit(id, NewTokens(id)) /\ ~ MustNotSplit(Uncomputed(id))
        /\ phase' # "emit"
    BY <1>12 DEF EmitRunning, Visiting, Passed
  <2> QED
    BY <2>1, EmitWhole
<1>13. CASE Admit
  BY <1>13, AdmitWhole
<1>14. CASE EmitAdmitted
  <2>1. phase = "emit" /\ Emit(Head(todo), NewTokens(Head(todo))) /\ phase' # "emit"
    BY <1>14 DEF EmitAdmitted
  <2>2. PICK id \in SeqId : todo = <<id>> /\ ~ Exhausted
    BY <2>1 DEF IInv, LoopInv
  <2>3. id = Head(todo)
    BY <2>2
  <2>4. Emit(id, NewTokens(id)) /\ ~ MustNotSplit(Uncomputed(id))
    BY <2>1, <2>3 DEF WholeInv
  <2> QED
    BY <2>1, <2>2, <2>4, EmitWhole
<1>15. CASE Execute
  <2>1. batch' = Sampled /\ phase' # "emit" /\ seqs' = seqs
    BY <1>15 DEF Execute
  <2>2. ToSet(batch') \subseteq ToSet(batch)
    BY <2>1, SampledFacts DEF IInv, LoopInv, StepTypeOK
  <2> QED
    BY <2>1, <2>2, WholeKept
<1>16. ASSUME NEW token \in Token, NEW stops \in BOOLEAN, Process(token, stops) PROVE WholeInv'
  BY <1>16, ProcessWhole
<1>17. CASE UNCHANGED vars
  <2>1. batch' = batch /\ seqs' = seqs /\ phase' = phase /\ todo' = todo /\ budget' = budget
    BY <1>17 DEF vars, managerVars, stepVars
  <2> QED
    BY <2>1 DEF WholeInv, NumTokens, MustNotSplit, NumNew, Uncomputed
<1> QED
  BY <1>4, <1>5, <1>6, <1>7, <1>8, <1>9, <1>10, <1>11, <1>12, <1>13, <1>14, <1>15, <1>16, <1>17
  DEF Next, Step

\* Engine.SamplesAtEnd, where prompts may not be split: a token is sampled from the last position
\* only.  With chunked prefill a sequence preempted after its prompt is sampled too early.
THEOREM WholeSampled ==
  ASSUME ~ ChunkedPrefill
  PROVE  Spec => []SamplesAtEnd
<1>1. Init => WholeSafe
  <2> SUFFICES ASSUME Init PROVE WholeInv
    BY InitEstablishes DEF WholeSafe
  <2>1. batch = << >> /\ phase = "idle"
    BY DEF Init
  <2> QED
    BY <2>1 DEF WholeInv
<1>2. WholeSafe => SamplesAtEnd
  <2> SUFFICES ASSUME IInv, WholeInv, phase = "process"
               PROVE  Head(batch).end = NumTokens(Head(batch).id)
    BY DEF WholeSafe, SamplesAtEnd
  <2>1. batch \in Seq(Item) /\ batch # << >>
    BY DEF IInv, LoopInv, StepTypeOK
  <2>2. 1 \in DOMAIN batch /\ Head(batch) = batch[1]
    BY <2>1, TailFacts
  <2> QED
    BY <2>2 DEF WholeInv
<1>3. WholeSafe /\ [Next]_vars => WholeSafe'
  BY NextWhole
<1> QED
  BY <1>1, <1>2, <1>3, PTL DEF Spec

----------------------------------------------------------------------------
(* The engine makes no move that the block pool does not offer             *)

\* Publishing, and releasing, a sequence's full blocks is a move of the pool.
LEMMA EntriesTyped ==
  ASSUME MemoryInv, NEW id \in SeqId
  PROVE  /\ DOMAIN NewEntries(id) \in SUBSET Block
         /\ NewEntries(id) \in [DOMAIN NewEntries(id) -> Context]
         /\ ToSet(seqs[id].table) \in SUBSET Block
<1>1. ToSet(seqs[id].table) \in SUBSET Block
  BY DEF MemoryInv, ManagerTypeOK, Sequence, ToSet
<1>2. DOMAIN NewEntries(id) \in SUBSET Block
  BY <1>1, EntriesFacts
<1>3. \A b \in DOMAIN NewEntries(id) : NewEntries(id)[b] \in Context
  BY EntriesFacts
<1>4. NewEntries(id) = [b \in DOMAIN NewEntries(id) |-> NewEntries(id)[b]]
  BY DEF NewEntries
<1> QED
  BY <1>1, <1>2, <1>3, <1>4

LEMMA ReleaseMoves ==
  ASSUME MemoryInv, NEW id \in SeqId, NEW after, FreeBlocks(id, after)
  PROVE  Pool!PoolNext
<1>1. Pool!Release(ToSet(seqs[id].table), NewEntries(id))
  BY DEF FreeBlocks
<1> QED
  BY <1>1, EntriesTyped DEF Pool!PoolNext

LEMMA EmitMoves ==
  ASSUME MemoryInv, NEW id \in SeqId, NEW n, Emit(id, n)
  PROVE  Pool!PoolNext
<1>1. PICK ext \in Extensions(id, n) : Pool!Allocate(ToSet(ext))
  BY DEF Emit, AppendSlots
<1>2. ToSet(ext) \in SUBSET Block
  <2>1. Pool!Allocatable \subseteq Block
    BY DEF MemoryInv, ManagerTypeOK, Pool!PoolTypeOK, Pool!Allocatable
  <2> QED
    BY <2>1 DEF Extensions, ToSet
<1> QED
  BY <1>1, <1>2 DEF Pool!PoolNext

LEMMA NextMoves == IInv /\ [Next]_vars => [Pool!PoolNext]_(Pool!poolVars)
<1> SUFFICES ASSUME IInv, [Next]_vars, ~ UNCHANGED Pool!poolVars PROVE Pool!PoolNext
  OBVIOUS
<1>1. MemoryInv /\ StepTypeOK
  BY DEF IInv
<1>2. ASSUME UNCHANGED <<refs, free, retained, index>> PROVE FALSE
  BY <1>2 DEF Pool!poolVars
<1>3. ASSUME NEW shape \in Shape, AddRequest(shape) PROVE FALSE
  BY <1>2, <1>3 DEF AddRequest
<1>4. ASSUME NEW id \in SeqId, Abort(id) PROVE Pool!PoolNext
  BY <1>1, <1>4, ReleaseMoves DEF Abort, Retire
<1>5. CASE Close
  BY <1>5 DEF Close, Pool!PoolNext
<1>6. CASE BeginStep \/ EndPublish \/ EndRunning \/ EndSchedule \/ Execute \/ ExecuteFails
  BY <1>2, <1>6 DEF BeginStep, EndPublish, EndRunning, EndSchedule, Execute, ExecuteFails,
                    managerVars
<1>7. CASE PublishNext
  <2>1. todo # << >> /\ PublishComputed(Head(todo)) /\ todo \in Seq(SeqId)
    BY <1>1, <1>7 DEF PublishNext, StepTypeOK
  <2>2. PICK id \in SeqId : id = Head(todo)
    BY <2>1, TailFacts
  <2>3. Pool!Publish(NewEntries(id))
    BY <2>1, <2>2 DEF PublishComputed
  <2> QED
    BY <1>1, <2>3, EntriesTyped DEF Pool!PoolNext
<1>8. ASSUME NEW id \in SeqId, SkipRunning(id) PROVE FALSE
  BY <1>2, <1>8 DEF SkipRunning, managerVars
<1>9. ASSUME NEW id \in SeqId, PreemptVictim(id) PROVE Pool!PoolNext
  <2>1. Candidates(id) # {} /\ Preempt(Victim(id))
    BY <1>9 DEF PreemptVictim
  <2>2. Victim(id) \in Candidates(id)
    BY <1>1, <2>1, VictimFacts
  <2>3. Victim(id) \in SeqId
    BY <1>1, <2>2 DEF Candidates, StepTypeOK, ToSet
  <2> QED
    BY <1>1, <2>1, <2>3, ReleaseMoves DEF Preempt
<1>10. ASSUME NEW id \in SeqId, PreemptSelf(id) PROVE Pool!PoolNext
  BY <1>1, <1>10, ReleaseMoves DEF PreemptSelf, Preempt
<1>11. ASSUME NEW id \in SeqId, EmitRunning(id) PROVE Pool!PoolNext
  BY <1>1, <1>11, EmitMoves DEF EmitRunning
<1>12. CASE Admit
  <2>1. preempted \o waiting # << >>
    BY <1>12 DEF Admit, Admissible
  <2>2. PICK c \in SeqId : c = Candidate
    BY <2>1, CandidateFacts
  <2>3. seqs[c].tokens # << >> /\ Pool!Share(ToSet(Hits(c)))
    BY <1>12, <2>1, <2>2, CandidateFacts DEF Admit, AllocateHits
  <2>4. ToSet(Hits(c)) \in SUBSET Block
    <3>1. ToSet(Hits(c)) \subseteq DOMAIN index
      BY <1>1, <2>3, HitsFacts
    <3> QED
      BY <1>1, <3>1 DEF MemoryInv, ManagerTypeOK, Pool!PoolTypeOK
  <2> QED
    BY <2>3, <2>4 DEF Pool!PoolNext
<1>13. CASE EmitAdmitted
  <2>1. phase = "emit" /\ Emit(Head(todo), NewTokens(Head(todo)))
    BY <1>13 DEF EmitAdmitted
  <2>2. PICK id \in SeqId : todo = <<id>>
    BY <2>1 DEF IInv, LoopInv
  <2>3. Emit(id, NewTokens(id))
    BY <2>1, <2>2
  <2> QED
    BY <1>1, <2>3, EmitMoves
<1>14. ASSUME NEW token \in Token, NEW stops \in BOOLEAN, Process(token, stops)
       PROVE  Pool!PoolNext
  <2>1. batch \in Seq(Item) /\ batch # << >>
    BY <1>14 DEF Process, IInv, LoopInv, StepTypeOK
  <2>2. PICK id \in SeqId : id = Head(batch).id
    <3>1. Head(batch) \in Item
      BY <2>1, TailFacts
    <3> QED
      BY <3>1 DEF Item
  <2>3. FeedBack(id, [seqs[id] EXCEPT !.tokens = Append(@, token)], stops)
    BY <1>14, <2>2 DEF Process
  <2>4. Retire(id)
    BY <1>2, <2>3 DEF FeedBack
  <2> QED
    BY <1>1, <2>4, ReleaseMoves DEF Retire
<1>15. CASE UNCHANGED vars
  BY <1>2, <1>15 DEF vars, managerVars
<1> QED
  BY <1>3, <1>4, <1>5, <1>6, <1>7, <1>8, <1>9, <1>10, <1>11, <1>12, <1>13, <1>14, <1>15
  DEF Next, Step

\* The engine implements the contract of the block pool: seen through the reference counts, the
\* free and retained blocks and the prefix index, each of its steps is one of the pool's moves,
\* on blocks the pool allows it for, or changes nothing there.
THEOREM EngineKeepsPoolContract == Spec => Pool!PoolSpec
<1>1. Init => Pool!PoolInit
  BY DEF Init, ManagerInit
<1>2. [](IInv) /\ [][Next]_vars => [][Pool!PoolNext]_(Pool!poolVars)
  BY NextMoves, PTL
<1>3. Init => IInv
  BY InitEstablishes
<1> QED
  BY <1>1, <1>2, <1>3, NextKeeps, PTL DEF Spec, Pool!PoolSpec

----------------------------------------------------------------------------
(* And the guards of the pool's moves hold back none of the engine's       *)

\* What the allocator and the prefix cache ask of a call, for each call the engine may make: a
\* block is released or published by a sequence that holds it, a block is shared that the
\* cache answers with, and where can_append says so there are blocks to allocate, free ones
\* before retained ones.
CallsAllowed ==
  \A id \in SeqId :
    /\ \A b \in ToSet(seqs[id].table) : refs[b] > 0
    /\ DOMAIN NewEntries(id) \subseteq ToSet(seqs[id].table) /\ IsInjective(NewEntries(id))
    /\ seqs[id].tokens # << >> => ToSet(Hits(id)) \subseteq DOMAIN index
    /\ \A n \in Nat : CanAppend(id, n) =>
         \E ext \in Extensions(id, n) : \/ ToSet(ext) \subseteq free
                                        \/ free \subseteq ToSet(ext)

\* As many elements of a finite set as one likes, those of a subset first.
LEMMA SomeOf ==
  ASSUME NEW A, IsFiniteSet(A), NEW F \in SUBSET A, NEW g \in Nat, g <= Cardinality(A)
  PROVE  \E ext \in [1 .. g -> A] :
           IsInjective(ext) /\ (ToSet(ext) \subseteq F \/ F \subseteq ToSet(ext))
<1> DEFINE k == Cardinality(F)
           l == Cardinality(A \ F)
<1>1. /\ IsFiniteSet(F) /\ IsFiniteSet(A \ F) /\ k \in Nat /\ l \in Nat
      /\ ExistsBijection(1 .. k, F) /\ ExistsBijection(1 .. l, A \ F)
  <2>1. IsFiniteSet(F) /\ IsFiniteSet(A \ F)
    BY FS_Subset
  <2> QED
    BY <2>1, FS_CardinalityType
<1>2. g <= k + l
  <2>1. Cardinality(F \cup (A \ F)) = k + l - Cardinality(F \cap (A \ F))
    BY <1>1, FS_Union
  <2>2. F \cup (A \ F) = A /\ F \cap (A \ F) = {}
    OBVIOUS
  <2>3. Cardinality({}) = 0
    BY FS_EmptySet
  <2>4. Cardinality(A) = k + l - 0
    BY ONLY <2>1, <2>2, <2>3
  <2> HIDE DEF k, l
  <2> QED
    BY <1>1, <2>4
<1> HIDE DEF k, l
<1>3. PICK p \in [1 .. k -> F] :
        /\ \A a, b \in 1 .. k : p[a] = p[b] => a = b
        /\ \A x \in F : \E a \in 1 .. k : p[a] = x
  BY <1>1 DEF ExistsBijection, Bijection, Injection, Surjection, IsInjective
<1>4. PICK q \in [1 .. l -> A \ F] : \A a, b \in 1 .. l : q[a] = q[b] => a = b
  BY <1>1 DEF ExistsBijection, Bijection, Injection, IsInjective
<1> DEFINE ext == [i \in 1 .. g |-> IF i <= k THEN p[i] ELSE q[i - k]]
<1>5. \A i \in 1 .. g : (i <= k => i \in 1 .. k) /\ (~ (i <= k) => i - k \in 1 .. l)
  BY <1>1, <1>2
<1>6. ext \in [1 .. g -> A]
  BY <1>3, <1>4, <1>5
<1>7. IsInjective(ext)
  <2>1. ASSUME NEW i \in 1 .. g, NEW j \in 1 .. g, ext[i] = ext[j] PROVE i = j
    <3>1. CASE i <= k /\ j <= k
      BY <1>3, <1>5, <2>1, <3>1
    <3>2. CASE ~ (i <= k) /\ ~ (j <= k)
      <4>1. i - k = j - k
        BY <1>4, <1>5, <2>1, <3>2
      <4> QED
        BY <1>1, <4>1
    <3>3. CASE i <= k /\ ~ (j <= k)
      BY <1>3, <1>4, <1>5, <2>1, <3>3
    <3>4. CASE ~ (i <= k) /\ j <= k
      BY <1>3, <1>4, <1>5, <2>1, <3>4
    <3> QED
      BY <3>1, <3>2, <3>3, <3>4
  <2> QED
    BY <2>1 DEF IsInjective
<1>8. CASE g <= k
  <2>1. \A i \in 1 .. g : ext[i] \in F
    BY <1>1, <1>3, <1>5, <1>8
  <2> QED
    BY <1>6, <1>7, <2>1 DEF ToSet
<1>9. CASE k <= g
  <2>1. ASSUME NEW x \in F PROVE \E i \in 1 .. g : ext[i] = x
    <3>1. PICK a \in 1 .. k : p[a] = x
      BY <1>3
    <3>2. a \in 1 .. g /\ a <= k
      BY <1>1, <1>9
    <3> QED
      BY <3>1, <3>2
  <2> QED
    BY <1>6, <1>7, <2>1 DEF ToSet
<1> QED
  BY <1>1, <1>8, <1>9

\* Different blocks of a table are published under different hashes: one prefix is longer.
LEMMA EntriesDiffer ==
  ASSUME MemoryInv, NEW id \in SeqId
  PROVE  IsInjective(NewEntries(id))
<1> DEFINE s == seqs[id]
           e == NewEntries(id)
<1>1. s.tokens \in Seq(Token) /\ s.computed \in Nat /\ s.computed <= Len(s.tokens)
  BY DEF MemoryInv, ManagerTypeOK, TablesTidy, NumTokens, Sequence
<1>2. ASSUME NEW i \in DOMAIN s.table, i * BlockSize <= s.computed
      PROVE  i \in Nat /\ i * BlockSize \in Nat /\ Len(BlockHash(id, i)[2]) = i * BlockSize
  <2>1. i \in Nat
    BY DEF MemoryInv, ManagerTypeOK, Sequence
  <2>2. i * BlockSize \in Nat
    BY <2>1, Multiples
  <2>3. Len(Prefix(s.tokens, i * BlockSize)) = i * BlockSize
    BY <1>1, <1>2, <2>2, PrefixFacts
  <2>4. BlockHash(id, i)[2] = Prefix(s.tokens, i * BlockSize)
    BY DEF BlockHash, ContextAt, Prefix
  <2> QED
    BY <2>1, <2>2, <2>3, <2>4
<1>3. ASSUME NEW b \in DOMAIN e, NEW c \in DOMAIN e, e[b] = e[c] PROVE b = c
  <2>1. PICK i \in DOMAIN s.table : /\ i * BlockSize <= s.computed
                                    /\ b = s.table[i] /\ e[b] = BlockHash(id, i)
    BY EntriesFacts
  <2>2. PICK j \in DOMAIN s.table : /\ j * BlockSize <= s.computed
                                    /\ c = s.table[j] /\ e[c] = BlockHash(id, j)
    BY EntriesFacts
  <2>3. /\ i \in Nat /\ j \in Nat /\ i * BlockSize = j * BlockSize /\ i * BlockSize \in Nat
    BY <1>2, <1>3, <2>1, <2>2
  <2>4. ~ (i < j) /\ ~ (j < i)
    <3>1. i < j => i * BlockSize + BlockSize <= j * BlockSize
      BY <2>3, Multiples
    <3>2. j < i => j * BlockSize + BlockSize <= i * BlockSize
      BY <2>3, Multiples
    <3> QED
      BY <2>3, <3>1, <3>2, BlockSizeAssumption
  <2> QED
    BY <2>1, <2>2, <2>3, <2>4
<1> QED
  BY <1>3 DEF IsInjective

\* What the calls of the allocator rest on follows from the invariant on memory.
LEMMA CallsFollow == MemoryInv => CallsAllowed
<1> SUFFICES ASSUME MemoryInv, NEW id \in SeqId
             PROVE  /\ \A b \in ToSet(seqs[id].table) : refs[b] > 0
                    /\ DOMAIN NewEntries(id) \subseteq ToSet(seqs[id].table)
                    /\ IsInjective(NewEntries(id))
                    /\ seqs[id].tokens # << >> => ToSet(Hits(id)) \subseteq DOMAIN index
                    /\ \A n \in Nat : CanAppend(id, n) =>
                         \E ext \in Extensions(id, n) : \/ ToSet(ext) \subseteq free
                                                        \/ free \subseteq ToSet(ext)
  BY DEF CallsAllowed
<1>1. ToSet(seqs[id].table) \subseteq Block
  BY DEF MemoryInv, ManagerTypeOK, Sequence, ToSet
<1>2. ASSUME NEW b \in ToSet(seqs[id].table) PROVE refs[b] > 0
  BY <1>1, <1>2, Counting
<1>3. ASSUME NEW n \in Nat, CanAppend(id, n)
      PROVE  \E ext \in Extensions(id, n) : ToSet(ext) \subseteq free \/ free \subseteq ToSet(ext)
  <2> DEFINE A == Pool!Allocatable
             g == Growth(id, n)
  <2>1. IsFiniteSet(A) /\ free \subseteq A
    <3>1. A \subseteq Block
      BY DEF MemoryInv, ManagerTypeOK, Pool!PoolTypeOK, Pool!Allocatable
    <3> QED
      BY <3>1, FS_Subset, PoolAssumption DEF Pool!Allocatable
  <2>2. g \in Int
    <3>1. seqs[id].computed \in Nat /\ Len(seqs[id].table) \in Nat
      BY DEF MemoryInv, ManagerTypeOK, TablesTidy, Sequence
    <3>2. PICK c \in Nat : c = seqs[id].computed
      BY <3>1
    <3>3. c + n \in Nat
      OBVIOUS
    <3>4. BlocksFor(c + n) \in Nat
      BY <3>3, BlocksForFacts
    <3> QED
      BY <3>1, <3>2, <3>4 DEF Growth
  <2>3. g <= Cardinality(A)
    BY <1>3 DEF CanAppend
  <2> HIDE DEF A, g
  <2> DEFINE l == IF g > 0 THEN g ELSE 0
  <2>4. l \in Nat /\ l <= Cardinality(A) /\ 1 .. g = 1 .. l
    BY <2>1, <2>2, <2>3, FS_CardinalityType
  <2> HIDE DEF l
  <2>5. \E ext \in [1 .. l -> A] :
          IsInjective(ext) /\ (ToSet(ext) \subseteq free \/ free \subseteq ToSet(ext))
    BY <2>1, <2>4, SomeOf
  <2>6. \E ext \in [1 .. g -> A] :
          IsInjective(ext) /\ (ToSet(ext) \subseteq free \/ free \subseteq ToSet(ext))
    BY <2>4, <2>5
  <2> QED
    BY <2>6 DEF Extensions, A, g
<1> QED
  BY <1>2, <1>3, EntriesFacts, EntriesDiffer, HitsFacts

\* No move of the engine on the pool is one the pool refuses (kv_cache.py raises KVCacheError on
\* a decref below zero, an adoption of a free block, an allocation beyond the pool): the
\* guards in BlockPool keep no call of the block manager from happening.
THEOREM PoolNeverRefuses == Spec => []CallsAllowed
<1>1. Init => IInv
  BY InitEstablishes
<1>2. IInv => CallsAllowed
  BY CallsFollow DEF IInv
<1>3. IInv /\ [Next]_vars => IInv'
  BY NextKeeps
<1> QED
  BY <1>1, <1>2, <1>3, PTL DEF Spec
=============================================================================
