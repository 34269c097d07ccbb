----------------------------- MODULE ChaosProofs -----------------------------
(***************************************************************************)
(* Chaos, for any fleet, schedules, load, and lost control calls: the      *)
(* fleet suffers the faults of the timeline and no others, and what the    *)
(* report says of them is what happened.                                   *)
(*                                                                         *)
(* The properties speak of a driver at rest.  The invariant says how far   *)
(* the timeline has been played (Played), what is still to come for a      *)
(* replica that is not as it should be (Ahead), and, where no two faults   *)
(* hit a replica at once, that a replica is what its last event made of it *)
(* (AsLeft).  For the report it adds which requests a kill must have cut   *)
(* (Severed).                                                              *)
(***************************************************************************)
EXTENDS Chaos, FiniteSetTheorems, WellFoundedInduction, TLAPS

Up == {"restart", "partition_end"}

\* What the expansion makes of a fault: one event of each of its actions, all on one
\* replica, the way back last.
WellFormed(E) ==
  /\ \A e \in E :
       /\ e = Event(e.t, e.action, e.target, e.kind, e.id)
       /\ e.t \in Nat /\ e.target \in Workers /\ e.id \in Nat \X Nat
       /\ e.action \in (IF e.kind = "kill" THEN {"drain", "kill", "restart"}
                        ELSE {"partition_start", "partition_end"})
       /\ e.kind \in {"kill", "partition"}
  /\ \A a, b \in E : a.id = b.id =>
       a.target = b.target /\ a.kind = b.kind /\ (a.action = b.action => a = b)
  /\ \A e \in E : \E c \in E : c.id = e.id /\ c.action \in Up
  /\ \A e \in E : e.action \in Up => \E d \in E : d.id = e.id /\ d.action \in {"kill", "partition_start"}
  /\ \A e \in E : e.action = "drain" => \E k \in E : k.id = e.id /\ k.action = "kill" /\ e.t < k.t
  /\ \A a, b \in E : a.id = b.id =>
       /\ a.action = "drain" /\ b.action = "kill" => a.t < b.t
       /\ a.action = "kill" /\ b.action = "restart" => a.t <= b.t
       /\ a.action = "partition_start" /\ b.action = "partition_end" => a.t < b.t

\* No process is restarted at the very moment it is killed.
Lasting(E) ==
  \A e \in E : e.action = "restart" => \A k \in E : k.action = "kill" /\ k.id = e.id => k.t < e.t

Disruption == [target : Workers, kind : {"kill", "partition"}, state : {"out", "back", "recovered"},
               proven : BOOLEAN]

RequestState ==
  [at : {"new", "routing", "waiting", "streaming", "done"}, on : Workers \cup {Nobody},
   generation : Nat, tokens : 0 .. MaxTokens, tried : SUBSET Workers, born : Nat,
   cause : {"none", "unavailable", "interrupted", "timeout"}, missed : BOOLEAN]

Replica == [alive : BOOLEAN, draining : BOOLEAN, generation : Nat, faults : Faults, wish : Faults]

Types ==
  /\ mode \in {"inprocess", "subprocess"} /\ now \in 0 .. MaxTime /\ phase \in {"load", "over"}
  /\ WellFormed(timeline)
  /\ applied \subseteq timeline /\ driver \in timeline \cup {NoEvent}
  /\ fleet \in [Workers -> Replica]
  /\ trouble \subseteq Workers /\ (mode = "inprocess" => trouble = {})
  /\ disruptions \in Seq(Disruption)
  /\ open \in [Workers -> 0 .. Len(disruptions)]
  /\ req \in [Requests -> RequestState]

\* The events are applied in their order, and the driver is at the first that is pending or
\* the last that was applied.
Played ==
  /\ \A a \in applied, p \in Pending : Before(a, p)
  /\ driver # NoEvent =>
       /\ phase = "load" /\ driver.action = "restart"
       /\ \A p \in Pending \ {driver} : Before(driver, p)
       /\ driver \in applied => \A a \in applied \ {driver} : Before(a, driver)

\* A disruption is open while it is out.
Books ==
  \A d \in DOMAIN disruptions : disruptions[d].state = "out" <=> open[disruptions[d].target] = d
BooksOpen == \A w \in Workers : open[w] # 0 => disruptions[open[w]].target = w

InFlight(r) == req[r].at \in {"waiting", "streaming"}

\* A stream knows a generation of its replica that is not to come, and a past one if the
\* replica is down.
Flight ==
  \A r \in Requests :
    /\ req[r].on \notin req[r].tried
    /\ Cardinality(req[r].tried) <= MaxAttempts
    /\ req[r].at # "done" => req[r].cause = "none"
    /\ InFlight(r) =>
         /\ req[r].on \in Workers /\ Cardinality(req[r].tried) < MaxAttempts
         /\ req[r].generation <= fleet[req[r].on].generation
         /\ ~fleet[req[r].on].alive => req[r].generation < fleet[req[r].on].generation
         /\ req[r].born <= Len(disruptions)

\* Replicas do not die by themselves.
Slain ==
  \A w \in Workers : fleet[w].generation > 0 \/ ~fleet[w].alive =>
    \E e \in applied : e.action = "kill" /\ e.target = w

\* Its restart is done but its faults are not restored yet.
Restoring(w) == driver \in applied /\ driver.target = w

\* A replica in this process always has the faults it was given; a child process when it runs.
InStep == mode = "inprocess" => \A w \in Workers : fleet[w].faults = fleet[w].wish
Even ==
  phase = "load" => \A w \in Workers \ trouble : fleet[w].alive =>
    \/ fleet[w].faults = fleet[w].wish
    \/ Restoring(w) /\ fleet[w].faults = Calm

\* The event that ends it is still to come.
Ahead ==
  Lasting(timeline) => \A w \in Workers \ trouble :
    /\ ~fleet[w].alive => \E e \in Pending : e.action = "restart" /\ e.target = w
    /\ fleet[w].alive /\ fleet[w].draining => \E e \in Pending : e.action = "kill" /\ e.target = w
    /\ fleet[w].wish.partitioned => \E e \in Pending : e.action = "partition_end" /\ e.target = w

\* The last event of a replica.
Mine(w) == {e \in applied : e.target = w}
Latest(w, l) == l \in Mine(w) /\ \A o \in Mine(w) \ {l} : Before(o, l)

Healthy(w) == /\ Mine(w) = {} \/ (\E l \in Mine(w) : Latest(w, l) /\ l.action \in Up)
              /\ fleet[w].alive /\ ~fleet[w].draining
              /\ ~fleet[w].faults.partitioned /\ ~fleet[w].wish.partitioned
              /\ phase = "load" => (open[w] # 0 <=> Restoring(w))
AfterDrain(w) == /\ \E l \in Mine(w) : Latest(w, l) /\ l.action = "drain"
                 /\ fleet[w].alive /\ fleet[w].draining
                 /\ ~fleet[w].faults.partitioned /\ ~fleet[w].wish.partitioned
                 /\ open[w] # 0
AfterKill(w) == /\ \E l \in Mine(w) : Latest(w, l) /\ l.action = "kill"
                /\ ~fleet[w].alive
                /\ ~fleet[w].faults.partitioned /\ ~fleet[w].wish.partitioned
                /\ open[w] # 0
CutOff(w) == /\ \E l \in Mine(w) : Latest(w, l) /\ l.action = "partition_start"
             /\ fleet[w].alive /\ ~fleet[w].draining
             /\ fleet[w].faults.partitioned /\ fleet[w].wish.partitioned
             /\ open[w] # 0

\* Where faults do not overlap, a replica is what its last event made of it.
Left(w) == Healthy(w) \/ AfterDrain(w) \/ AfterKill(w) \/ CutOff(w)
AsLeft == Clean(timeline) => \A w \in Workers \ trouble : Left(w)

\* A stream that began before a kill's disruption is cut, unless the replica is still only
\* draining.
Severed ==
  Clean(timeline) => \A d \in DOMAIN disruptions, r \in Requests :
    /\ disruptions[d].kind = "kill" /\ InFlight(r)
    /\ req[r].on = disruptions[d].target /\ req[r].born < d
    => \/ Cut(r)
       \/ /\ disruptions[d].state = "out"
          /\ \E l \in Mine(req[r].on) : Latest(req[r].on, l) /\ l.action = "drain"

Reported ==
  Clean(timeline) =>
    /\ \A d \in DOMAIN disruptions : disruptions[d].kind = "kill" => disruptions[d].proven
    /\ trouble = {} => \A r \in Requests : ~req[r].missed

CInv == /\ Types /\ Played /\ Books /\ BooksOpen /\ Flight /\ Slain /\ InStep /\ Even /\ Ahead /\ AsLeft
        /\ Severed /\ Reported /\ DrainSpares

----------------------------------------------------------------------------
(* The order of the events                                                 *)

\* Every set of natural numbers has a least element.
LEMMA Least ==
  ASSUME NEW T \in SUBSET Nat, T # {}
  PROVE  \E x \in T : \A y \in T : x <= y
<1>1. \E x \in T : \A y \in T : ~ (<<y, x>> \in OpToRel(<, Nat))
  BY ONLY T \subseteq Nat, T # {}, NatLessThanWellFounded, WFMin
<1>2. ASSUME NEW x \in T, NEW y \in T, ~ (<<y, x>> \in OpToRel(<, Nat))
      PROVE  x <= y
  BY <1>2 DEF OpToRel
<1> QED
  BY <1>1, <1>2

\* What an event is sorted by.
LEMMA KeyFacts ==
  ASSUME NEW E, WellFormed(E), NEW e \in E
  PROVE  /\ e.t \in Nat /\ Order(e.action) \in 0 .. 4 /\ Place(e.target) \in Nat
         /\ e.id[1] \in Nat /\ e.id[2] \in Nat /\ e.id = <<e.id[1], e.id[2]>>
         /\ e.action \in Down \cup Up
         /\ e.action \in Up <=> Order(e.action) < 2
<1>1. e.t \in Nat /\ e.target \in Workers /\ e.id \in Nat \X Nat
  BY DEF WellFormed
<1>2. e.action \in {"drain", "kill", "restart", "partition_start", "partition_end"}
  BY DEF WellFormed
<1>3. Place(e.target) \in DOMAIN Fleet
  <2>1. \E i \in DOMAIN Fleet : Fleet[i] = e.target
    BY <1>1 DEF Workers
  <2> QED
    BY <2>1 DEF Place
<1>4. DOMAIN Fleet \subseteq Nat
  <2>1. Fleet \in Seq({Fleet[i] : i \in DOMAIN Fleet})
    BY FleetAssumption
  <2> QED
    BY <2>1
<1>5. Order(e.action) \in 0 .. 4 /\ e.action \in Down \cup Up
      /\ (e.action \in Up <=> Order(e.action) < 2)
  BY <1>2 DEF Order, Up, Down
<1> QED
  BY <1>1, <1>3, <1>4, <1>5

\* The lexicographic order, spelled out.
LEMMA BeforeIs ==
  ASSUME NEW E, WellFormed(E), NEW a \in E, NEW b \in E
  PROVE  Before(a, b) <=>
           \/ a.t < b.t
           \/ /\ a.t = b.t
              /\ \/ Order(a.action) < Order(b.action)
                 \/ /\ Order(a.action) = Order(b.action)
                    /\ \/ Place(a.target) < Place(b.target)
                       \/ /\ Place(a.target) = Place(b.target)
                          /\ \/ a.id[1] < b.id[1]
                             \/ a.id[1] = b.id[1] /\ a.id[2] < b.id[2]
<1> DEFINE k == Key(a)
           m == Key(b)
<1>1. /\ k[1] = a.t /\ k[2] = Order(a.action) /\ k[3] = Place(a.target)
      /\ k[4] = a.id[1] /\ k[5] = a.id[2]
      /\ m[1] = b.t /\ m[2] = Order(b.action) /\ m[3] = Place(b.target)
      /\ m[4] = b.id[1] /\ m[5] = b.id[2]
  BY DEF Key
<1> HIDE DEF k, m
<1> DEFINE Same(i) == \A j \in 1 .. i - 1 : k[j] = m[j]
<1>2. /\ Same(1)
      /\ Same(2) <=> k[1] = m[1]
      /\ Same(3) <=> k[1] = m[1] /\ k[2] = m[2]
      /\ Same(4) <=> k[1] = m[1] /\ k[2] = m[2] /\ k[3] = m[3]
      /\ Same(5) <=> k[1] = m[1] /\ k[2] = m[2] /\ k[3] = m[3] /\ k[4] = m[4]
  <2>1. 1 .. 1 - 1 = {} /\ 1 .. 2 - 1 = {1} /\ 1 .. 3 - 1 = {1, 2} /\ 1 .. 4 - 1 = {1, 2, 3}
        /\ 1 .. 5 - 1 = {1, 2, 3, 4}
    OBVIOUS
  <2> QED
    BY <2>1
<1>3. Before(a, b) <=> \E i \in 1 .. 5 : k[i] < m[i] /\ Same(i)
  BY DEF Before, k, m
<1>4. 1 .. 5 = {1, 2, 3, 4, 5}
  OBVIOUS
<1> HIDE DEF Same
<1> QED
  BY <1>1, <1>2, <1>3, <1>4

\* It is a total order of the events.
LEMMA OrderFacts ==
  ASSUME NEW E, WellFormed(E), NEW a \in E, NEW b \in E
  PROVE  /\ ~ (Before(a, b) /\ Before(b, a))
         /\ a # b => Before(a, b) \/ Before(b, a)
         /\ Before(a, b) => a.t <= b.t /\ (a.t = b.t /\ a.action \in Down => b.action \in Down)
         /\ a.t < b.t => Before(a, b)
         /\ a.t = b.t /\ a.action \in Up /\ b.action \in Down => Before(a, b)
         /\ \A c \in E : Before(a, b) /\ Before(b, c) => Before(a, c)
<1>1. \A e \in E : /\ e.t \in Nat /\ Order(e.action) \in 0 .. 4 /\ Place(e.target) \in Nat
                   /\ e.id[1] \in Nat /\ e.id[2] \in Nat /\ e.id = <<e.id[1], e.id[2]>>
                   /\ e.action \in Down \cup Up
                   /\ e.action \in Up <=> Order(e.action) < 2
  BY KeyFacts
<1>2. Down \cap Up = {}
  BY DEF Down, Up
<1>3. ~ (Before(a, b) /\ Before(b, a))
  BY <1>1, BeforeIs
<1>4. ASSUME a # b PROVE Before(a, b) \/ Before(b, a)
  <2>1. ASSUME a.id = b.id, Order(a.action) = Order(b.action) PROVE FALSE
    <3>1. a.kind = b.kind /\ a.action # b.action
      <4>1. \A x, y \in E : x.id = y.id =>
              x.target = y.target /\ x.kind = y.kind /\ (x.action = y.action => x = y)
        BY DEF WellFormed
      <4> QED
        BY <1>4, <2>1, <4>1
    <3>2. /\ a.action \in {"drain", "kill", "restart", "partition_start", "partition_end"}
          /\ b.action \in {"drain", "kill", "restart", "partition_start", "partition_end"}
      BY DEF WellFormed
    <3> QED
      BY <2>1, <3>1, <3>2 DEF Order
  <2>2. a.id[1] # b.id[1] \/ a.id[2] # b.id[2] \/ Order(a.action) # Order(b.action)
    BY <1>1, <2>1
  <2> QED
    BY <1>1, <2>2, BeforeIs
<1>5. Before(a, b) => a.t <= b.t /\ (a.t = b.t /\ a.action \in Down => b.action \in Down)
  <2>1. Before(a, b) => a.t <= b.t /\ (a.t = b.t => Order(a.action) <= Order(b.action))
    BY <1>1, BeforeIs
  <2>2. /\ a.t \in Nat /\ b.t \in Nat /\ Order(a.action) \in 0 .. 4 /\ Order(b.action) \in 0 .. 4
        /\ (a.action \in Up <=> Order(a.action) < 2) /\ (b.action \in Up <=> Order(b.action) < 2)
        /\ a.action \in Down \cup Up /\ b.action \in Down \cup Up
    BY <1>1
  <2> QED
    BY <1>2, <2>1, <2>2
<1>6. a.t < b.t => Before(a, b)
  BY <1>1, BeforeIs
<1>7. a.t = b.t /\ a.action \in Up /\ b.action \in Down => Before(a, b)
  <2>1. a.action \in Up /\ b.action \in Down => Order(a.action) < Order(b.action)
    BY <1>1, <1>2
  <2> QED
    BY <1>1, <2>1, BeforeIs
<1>8. ASSUME NEW c \in E, Before(a, b), Before(b, c) PROVE Before(a, c)
  BY <1>1, <1>8, BeforeIs
<1> QED
  BY <1>3, <1>4, <1>5, <1>6, <1>7, <1>8

\* A number that each element of a set is given is least for one of them.
LEMMA LeastOf ==
  ASSUME NEW S, S # {}, NEW f \in [S -> Nat]
  PROVE  \E x \in S : \A y \in S : f[x] <= f[y]
<1> DEFINE T == {f[y] : y \in S}
<1>1. T \in SUBSET Nat /\ T # {}
  OBVIOUS
<1>2. \E n \in T : \A m \in T : n <= m
  BY <1>1, Least
<1> QED
  BY <1>2

\* Events that are left have a first.
LEMMA FirstFacts ==
  ASSUME NEW E, WellFormed(E), NEW P \in SUBSET E, P # {}
  PROVE  First(P) \in P /\ \A o \in P \ {First(P)} : Before(First(P), o)
<1>1. \A e \in E : /\ e.t \in Nat /\ Order(e.action) \in 0 .. 4 /\ Place(e.target) \in Nat
                   /\ e.id[1] \in Nat /\ e.id[2] \in Nat
  BY KeyFacts
<1>2. PICK e1 \in P : \A y \in P : e1.t <= y.t
  <2> DEFINE f == [e \in P |-> e.t]
  <2>1. f \in [P -> Nat]
    BY <1>1
  <2>2. \E x \in P : \A y \in P : f[x] <= f[y]
    BY <2>1, LeastOf
  <2> QED
    BY <2>2
<1> DEFINE P1 == {e \in P : e.t = e1.t}
<1>3. PICK e2 \in P1 : \A y \in P1 : Order(e2.action) <= Order(y.action)
  <2> DEFINE f == [e \in P1 |-> Order(e.action)]
  <2>1. f \in [P1 -> Nat] /\ P1 # {}
    BY <1>1
  <2>2. \E x \in P1 : \A y \in P1 : f[x] <= f[y]
    BY <2>1, LeastOf
  <2> QED
    BY <2>2
<1> DEFINE P2 == {e \in P1 : Order(e.action) = Order(e2.action)}
<1>4. PICK e3 \in P2 : \A y \in P2 : Place(e3.target) <= Place(y.target)
  <2> DEFINE f == [e \in P2 |-> Place(e.target)]
  <2>1. f \in [P2 -> Nat] /\ P2 # {}
    BY <1>1
  <2>2. \E x \in P2 : \A y \in P2 : f[x] <= f[y]
    BY <2>1, LeastOf
  <2> QED
    BY <2>2
<1> DEFINE P3 == {e \in P2 : Place(e.target) = Place(e3.target)}
<1>5. PICK e4 \in P3 : \A y \in P3 : e4.id[1] <= y.id[1]
  <2> DEFINE f == [e \in P3 |-> e.id[1]]
  <2>1. f \in [P3 -> Nat] /\ P3 # {}
    BY <1>1
  <2>2. \E x \in P3 : \A y \in P3 : f[x] <= f[y]
    BY <2>1, LeastOf
  <2> QED
    BY <2>2
<1> DEFINE P4 == {e \in P3 : e.id[1] = e4.id[1]}
<1>6. PICK e5 \in P4 : \A y \in P4 : e5.id[2] <= y.id[2]
  <2> DEFINE f == [e \in P4 |-> e.id[2]]
  <2>1. f \in [P4 -> Nat] /\ P4 # {}
    BY <1>1
  <2>2. \E x \in P4 : \A y \in P4 : f[x] <= f[y]
    BY <2>1, LeastOf
  <2> QED
    BY <2>2
<1>7. ASSUME NEW o \in P \ {e5} PROVE Before(e5, o)
  <2>1. ~ Before(o, e5)
    <3>1. /\ Before(o, e5) => o.t <= e5.t
          /\ Before(o, e5) /\ o.t = e5.t => Order(o.action) <= Order(e5.action)
          /\ Before(o, e5) /\ o.t = e5.t /\ Order(o.action) = Order(e5.action)
               => Place(o.target) <= Place(e5.target)
          /\ Before(o, e5) /\ o.t = e5.t /\ Order(o.action) = Order(e5.action)
             /\ Place(o.target) = Place(e5.target) => o.id[1] <= e5.id[1]
          /\ Before(o, e5) /\ o.t = e5.t /\ Order(o.action) = Order(e5.action)
             /\ Place(o.target) = Place(e5.target) /\ o.id[1] = e5.id[1] => o.id[2] < e5.id[2]
      BY <1>1, <1>7, BeforeIs
    <3>2. o.t <= e5.t => o \in P1
      BY <1>1, <1>2, <1>7
    <3>3. o \in P1 /\ Order(o.action) <= Order(e5.action) => o \in P2
      BY <1>1, <1>3
    <3>4. o \in P2 /\ Place(o.target) <= Place(e5.target) => o \in P3
      BY <1>1, <1>4
    <3>5. o \in P3 /\ o.id[1] <= e5.id[1] => o \in P4
      BY <1>1, <1>5
    <3>6. o \in P4 => ~ (o.id[2] < e5.id[2])
      BY <1>1, <1>6
    <3> QED
      BY <3>1, <3>2, <3>3, <3>4, <3>5, <3>6
  <2> QED
    BY <1>7, <2>1, OrderFacts
<1>8. \E e \in P : \A o \in P \ {e} : Before(e, o)
  BY <1>7
<1> QED
  BY <1>8 DEF First

\* The last of a set of events is the one that no other follows.
LEMMA LastFacts ==
  ASSUME NEW E, WellFormed(E), NEW P \in SUBSET E, NEW l \in P, \A o \in P \ {l} : Before(o, l)
  PROVE  Last(P) = l
<1>1. ASSUME NEW m \in P, \A o \in P \ {m} : Before(o, m) PROVE m = l
  BY <1>1, OrderFacts
<1> QED
  BY <1>1 DEF Last

----------------------------------------------------------------------------
(* The timeline                                                            *)

\* The events of one round of a kill fault, or of a partition.
KillRound(at, mid, last, target, id) ==
  {Event(mid, "kill", target, "kill", id), Event(last, "restart", target, "kill", id)}
  \cup (IF at < mid THEN {Event(at, "drain", target, "kill", id)} ELSE {})
CutRound(at, last, target, id) ==
  {Event(at, "partition_start", target, "partition", id),
   Event(last, "partition_end", target, "partition", id)}

LEMMA KillRoundFacts ==
  ASSUME NEW at \in Nat, NEW mid \in Nat, NEW last \in Nat, at <= mid, mid <= last,
         NEW target \in Workers, NEW id \in Nat \X Nat
  PROVE  /\ WellFormed(KillRound(at, mid, last, target, id))
         /\ mid < last => Lasting(KillRound(at, mid, last, target, id))
         /\ \A e \in KillRound(at, mid, last, target, id) : e.id = id
<1> DEFINE R == KillRound(at, mid, last, target, id)
           k == Event(mid, "kill", target, "kill", id)
           u == Event(last, "restart", target, "kill", id)
           d == Event(at, "drain", target, "kill", id)
<1>1. /\ k.t = mid /\ k.action = "kill" /\ k.target = target /\ k.kind = "kill" /\ k.id = id
      /\ u.t = last /\ u.action = "restart" /\ u.target = target /\ u.kind = "kill" /\ u.id = id
      /\ d.t = at /\ d.action = "drain" /\ d.target = target /\ d.kind = "kill" /\ d.id = id
  BY DEF Event
<1>2. /\ k \in R /\ u \in R /\ \A e \in R : e = k \/ e = u \/ (e = d /\ at < mid)
  BY DEF KillRound
<1>3. \A e \in R : e = Event(e.t, e.action, e.target, e.kind, e.id)
  BY <1>1, <1>2
<1> HIDE DEF R, k, u, d
<1>4. \A e \in R :
       /\ e.t \in Nat /\ e.target \in Workers /\ e.id \in Nat \X Nat
       /\ e.action \in (IF e.kind = "kill" THEN {"drain", "kill", "restart"}
                        ELSE {"partition_start", "partition_end"})
       /\ e.kind \in {"kill", "partition"} /\ e.id = id
  BY <1>1, <1>2
<1>5. \A a, b \in R : a.id = b.id =>
       a.target = b.target /\ a.kind = b.kind /\ (a.action = b.action => a = b)
  BY <1>1, <1>2
<1>6. /\ \A e \in R : \E c \in R : c.id = e.id /\ c.action \in Up
      /\ \A e \in R : e.action \in Up => \E x \in R : x.id = e.id /\ x.action \in {"kill", "partition_start"}
      /\ \A e \in R : e.action = "drain" => \E x \in R : x.id = e.id /\ x.action = "kill" /\ e.t < x.t
  BY <1>1, <1>2, <1>4 DEF Up
<1>7. \A a, b \in R : a.id = b.id =>
       /\ a.action = "drain" /\ b.action = "kill" => a.t < b.t
       /\ a.action = "kill" /\ b.action = "restart" => a.t <= b.t
       /\ a.action = "partition_start" /\ b.action = "partition_end" => a.t < b.t
  BY <1>1, <1>2
<1>8. WellFormed(R)
  BY <1>3, <1>4, <1>5, <1>6, <1>7 DEF WellFormed
<1>9. mid < last => Lasting(R)
  BY <1>1, <1>2 DEF Lasting
<1> QED
  BY <1>4, <1>8, <1>9 DEF R

LEMMA CutRoundFacts ==
  ASSUME NEW at \in Nat, NEW last \in Nat, at < last,
         NEW target \in Workers, NEW id \in Nat \X Nat
  PROVE  /\ WellFormed(CutRound(at, last, target, id))
         /\ Lasting(CutRound(at, last, target, id))
         /\ \A e \in CutRound(at, last, target, id) : e.id = id
<1> DEFINE R == CutRound(at, last, target, id)
           s == Event(at, "partition_start", target, "partition", id)
           u == Event(last, "partition_end", target, "partition", id)
<1>1. /\ s.t = at /\ s.action = "partition_start" /\ s.target = target /\ s.kind = "partition" /\ s.id = id
      /\ u.t = last /\ u.action = "partition_end" /\ u.target = target /\ u.kind = "partition" /\ u.id = id
  BY DEF Event
<1>2. s \in R /\ u \in R /\ \A e \in R : e = s \/ e = u
  BY DEF CutRound
<1>3. \A e \in R : e = Event(e.t, e.action, e.target, e.kind, e.id)
  BY <1>1, <1>2
<1> HIDE DEF R, s, u
<1>4. \A e \in R :
       /\ e.t \in Nat /\ e.target \in Workers /\ e.id \in Nat \X Nat
       /\ e.action \in (IF e.kind = "kill" THEN {"drain", "kill", "restart"}
                        ELSE {"partition_start", "partition_end"})
       /\ e.kind \in {"kill", "partition"} /\ e.id = id
  BY <1>1, <1>2
<1>5. \A a, b \in R : a.id = b.id =>
       a.target = b.target /\ a.kind = b.kind /\ (a.action = b.action => a = b)
  BY <1>1, <1>2
<1>6. /\ \A e \in R : \E c \in R : c.id = e.id /\ c.action \in Up
      /\ \A e \in R : e.action \in Up => \E x \in R : x.id = e.id /\ x.action \in {"kill", "partition_start"}
      /\ \A e \in R : e.action # "drain" /\ e.action # "restart" /\ e.action # "kill"
  BY <1>1, <1>2, <1>4 DEF Up
<1>7. \A a, b \in R : a.id = b.id =>
       (a.action = "partition_start" /\ b.action = "partition_end" => a.t < b.t)
  BY <1>1, <1>2
<1>8. WellFormed(R)
  BY <1>3, <1>4, <1>5, <1>6, <1>7 DEF WellFormed
<1>9. Lasting(R)
  BY <1>6 DEF Lasting
<1> QED
  BY <1>4, <1>8, <1>9 DEF R

\* Rounds with names of their own make a timeline.
LEMMA Assemble ==
  ASSUME NEW E,
         \A e \in E : \E R \in SUBSET E : e \in R /\ WellFormed(R) /\ \A x \in E : x.id = e.id => x \in R
  PROVE  WellFormed(E)
<1>1. \A e \in E :
       /\ e = Event(e.t, e.action, e.target, e.kind, e.id)
       /\ e.t \in Nat /\ e.target \in Workers /\ e.id \in Nat \X Nat
       /\ e.action \in (IF e.kind = "kill" THEN {"drain", "kill", "restart"}
                        ELSE {"partition_start", "partition_end"})
       /\ e.kind \in {"kill", "partition"}
  BY DEF WellFormed
<1>2. ASSUME NEW a \in E, NEW b \in E, a.id = b.id
      PROVE  /\ a.target = b.target /\ a.kind = b.kind /\ (a.action = b.action => a = b)
             /\ a.action = "drain" /\ b.action = "kill" => a.t < b.t
             /\ a.action = "kill" /\ b.action = "restart" => a.t <= b.t
             /\ a.action = "partition_start" /\ b.action = "partition_end" => a.t < b.t
  <2>1. PICK R \in SUBSET E : a \in R /\ WellFormed(R) /\ \A x \in E : x.id = a.id => x \in R
    OBVIOUS
  <2>2. b \in R
    BY <1>2, <2>1
  <2>3. \A x, y \in R : x.id = y.id =>
          x.target = y.target /\ x.kind = y.kind /\ (x.action = y.action => x = y)
    BY <2>1 DEF WellFormed
  <2>4. \A x, y \in R : x.id = y.id =>
          /\ x.action = "drain" /\ y.action = "kill" => x.t < y.t
          /\ x.action = "kill" /\ y.action = "restart" => x.t <= y.t
          /\ x.action = "partition_start" /\ y.action = "partition_end" => x.t < y.t
    BY <2>1 DEF WellFormed
  <2> QED
    BY <1>2, <2>1, <2>2, <2>3, <2>4
<1>3. ASSUME NEW e \in E
      PROVE  /\ \E c \in E : c.id = e.id /\ c.action \in Up
             /\ e.action \in Up => \E d \in E : d.id = e.id /\ d.action \in {"kill", "partition_start"}
             /\ e.action = "drain" => \E k \in E : k.id = e.id /\ k.action = "kill" /\ e.t < k.t
  <2>1. PICK R \in SUBSET E : e \in R /\ WellFormed(R)
    OBVIOUS
  <2>2. /\ \E c \in R : c.id = e.id /\ c.action \in Up
        /\ e.action \in Up => \E d \in R : d.id = e.id /\ d.action \in {"kill", "partition_start"}
        /\ e.action = "drain" => \E k \in R : k.id = e.id /\ k.action = "kill" /\ e.t < k.t
    BY <2>1 DEF WellFormed
  <2> QED
    BY <2>2
<1>4. \A a, b \in E : a.id = b.id =>
        a.target = b.target /\ a.kind = b.kind /\ (a.action = b.action => a = b)
  BY <1>2
<1>5. \A a, b \in E : a.id = b.id =>
        /\ a.action = "drain" /\ b.action = "kill" => a.t < b.t
        /\ a.action = "kill" /\ b.action = "restart" => a.t <= b.t
        /\ a.action = "partition_start" /\ b.action = "partition_end" => a.t < b.t
  BY <1>2
<1>6. /\ \A e \in E : \E c \in E : c.id = e.id /\ c.action \in Up
      /\ \A e \in E : e.action \in Up => \E d \in E : d.id = e.id /\ d.action \in {"kill", "partition_start"}
      /\ \A e \in E : e.action = "drain" => \E k \in E : k.id = e.id /\ k.action = "kill" /\ e.t < k.t
  BY <1>3
<1> QED
  BY <1>1, <1>4, <1>5, <1>6 DEF WellFormed

\* A kill fault is expanded into its rounds.
LEMMA KillEventsFacts ==
  ASSUME NEW f \in Fault, f.kind = "kill", NEW n \in Nat, NEW offset \in Nat,
         NEW e \in KillEvents(f, n, offset)
  PROVE  \E k \in Nat : \E R \in SUBSET KillEvents(f, n, offset) :
           /\ e \in R /\ WellFormed(R) /\ (f.restart > 0 => Lasting(R))
           /\ \A x \in R : x.id = <<n, k>>
           /\ \A x \in KillEvents(f, n, offset) : x.id[1] = n /\ (x.id = <<n, k>> => x \in R)
<1>1. /\ f.first \in Nat /\ f.every \in Nat /\ f.grace \in Nat /\ f.restart \in Nat
      /\ f.target \in Workers \cup {Anyone}
  BY DEF Fault
<1> DEFINE at(k) == f.first + k * f.every
           target(k) == IF f.target # Anyone THEN f.target ELSE Fleet[1 + ((offset + k) % Len(Fleet))]
           K == {k \in 0 .. Duration : f.first + k * f.every < Duration}
           Rd(k) == KillRound(at(k), at(k) + f.grace, at(k) + f.grace + f.restart, target(k), <<n, k>>)
<1>2. ASSUME NEW k \in Nat
      PROVE  /\ at(k) \in Nat
             /\ target(k) \in Workers
  <2>1. k * f.every \in Nat
    BY <1>1
  <2>2. at(k) \in Nat
    BY <1>1, <2>1
  <2>3. Fleet[1 + ((offset + k) % Len(Fleet))] \in Workers
    <3>1. Len(Fleet) \in Nat \ {0} /\ DOMAIN Fleet = 1 .. Len(Fleet)
      <4>1. Fleet \in Seq({Fleet[i] : i \in DOMAIN Fleet}) \ {<< >>}
        BY FleetAssumption
      <4> QED
        BY <4>1
    <3>2. (offset + k) % Len(Fleet) \in 0 .. Len(Fleet) - 1
      BY <3>1
    <3> QED
      BY <3>1, <3>2 DEF Workers
  <2> QED
    BY <1>1, <2>2, <2>3
<1>3. ASSUME NEW k \in K
      PROVE  Rd(k) = {Event(at(k) + f.grace, "kill", target(k), "kill", <<n, k>>),
                      Event(at(k) + f.grace + f.restart, "restart", target(k), "kill", <<n, k>>)}
                     \cup (IF f.grace > 0 THEN {Event(at(k), "drain", target(k), "kill", <<n, k>>)} ELSE {})
  <2>1. at(k) < at(k) + f.grace <=> f.grace > 0
    <3>1. at(k) \in Nat
      BY <1>2
    <3> HIDE DEF at
    <3> QED
      BY <1>1, <3>1
  <2> HIDE DEF at, target
  <2> QED
    BY <2>1 DEF KillRound
<1>4. KillEvents(f, n, offset) =
        UNION {{Event(at(k) + f.grace, "kill", target(k), "kill", <<n, k>>),
                Event(at(k) + f.grace + f.restart, "restart", target(k), "kill", <<n, k>>)}
               \cup (IF f.grace > 0 THEN {Event(at(k), "drain", target(k), "kill", <<n, k>>)} ELSE {})
               : k \in K}
  BY DEF KillEvents
<1>5. \A k \in K : k \in Nat
  BY DurationAssumption
<1> HIDE DEF at, target, K
<1>6. ASSUME NEW k \in K
      PROVE  /\ WellFormed(Rd(k)) /\ (f.restart > 0 => Lasting(Rd(k)))
             /\ \A x \in Rd(k) : x.id = <<n, k>>
  <2>1. k \in Nat /\ at(k) \in Nat /\ target(k) \in Workers
    BY <1>2, <1>5
  <2>2. <<n, k>> \in Nat \X Nat
    BY <2>1
  <2>3. /\ at(k) + f.grace \in Nat /\ at(k) + f.grace + f.restart \in Nat
        /\ at(k) <= at(k) + f.grace /\ at(k) + f.grace <= at(k) + f.grace + f.restart
        /\ f.restart > 0 => at(k) + f.grace < at(k) + f.grace + f.restart
    BY <1>1, <2>1
  <2> QED
    BY <2>1, <2>2, <2>3, KillRoundFacts
<1> HIDE DEF Rd
<1>7. \A x : x \in KillEvents(f, n, offset) <=> \E k \in K : x \in Rd(k)
  <2>1. KillEvents(f, n, offset) = UNION {Rd(k) : k \in K}
    BY <1>3, <1>4
  <2> QED
    BY <2>1
<1>8. PICK k \in K : e \in Rd(k)
  BY <1>7
<1>9. \A x \in KillEvents(f, n, offset) : x.id[1] = n /\ (x.id = <<n, k>> => x \in Rd(k))
  <2> SUFFICES ASSUME NEW x \in KillEvents(f, n, offset)
               PROVE  x.id[1] = n /\ (x.id = <<n, k>> => x \in Rd(k))
    OBVIOUS
  <2>1. PICK j \in K : x \in Rd(j)
    BY <1>7
  <2>2. x.id = <<n, j>>
    BY <1>6, <2>1
  <2> QED
    BY <2>1, <2>2
<1>10. Rd(k) \in SUBSET KillEvents(f, n, offset)
  BY <1>7
<1>11. k \in Nat
  BY <1>5
<1> QED
  BY <1>6, <1>8, <1>9, <1>10, <1>11

LEMMA PartitionEventsFacts ==
  ASSUME NEW f \in Fault, f.kind = "partition", NEW n \in Nat,
         NEW e \in PartitionEvents(f, n)
  PROVE  LET R == PartitionEvents(f, n)
         IN  /\ WellFormed(R) /\ Lasting(R)
             /\ \A x \in R : x.id = <<n, 0>>
<1>1. f.at \in Nat /\ f.for \in Nat \ {0} /\ f.target \in Workers
  BY DEF Fault
<1>2. PartitionEvents(f, n) = CutRound(f.at, f.at + f.for, f.target, <<n, 0>>)
  BY DEF PartitionEvents, CutRound
<1>3. f.at + f.for \in Nat /\ f.at < f.at + f.for /\ <<n, 0>> \in Nat \X Nat
  BY <1>1
<1> QED
  BY <1>1, <1>2, <1>3, CutRoundFacts

\* The timeline of a schedule is well formed; and if no restart is instant, each takes time.
LEMMA EventsWellFormed ==
  ASSUME NEW s \in Seq(Fault), NEW offset \in Nat
  PROVE  /\ WellFormed(Events(s, offset))
         /\ (\A n \in DOMAIN s : s[n].kind = "kill" => s[n].restart > 0) => Lasting(Events(s, offset))
<1> DEFINE Of(n) == IF s[n].kind = "kill" THEN KillEvents(s[n], n, offset) ELSE PartitionEvents(s[n], n)
           E == Events(s, offset)
           Slow == \A n \in DOMAIN s : s[n].kind = "kill" => s[n].restart > 0
<1>1. \A n \in DOMAIN s : n \in Nat /\ s[n] \in Fault /\ s[n].kind \in {"kill", "partition"}
  BY DEF Fault
<1>2. \A x : x \in E <=> \E n \in DOMAIN s : x \in Of(n)
  BY DEF Events
<1>3. ASSUME NEW n \in DOMAIN s, NEW x \in Of(n) PROVE x.id[1] = n
  <2>1. CASE s[n].kind = "kill"
    BY <1>1, <2>1, KillEventsFacts
  <2>2. CASE s[n].kind = "partition"
    <3>1. x \in PartitionEvents(s[n], n)
      BY <2>2
    <3>2. x.id = <<n, 0>>
      BY <1>1, <2>2, <3>1, PartitionEventsFacts
    <3> QED
      BY <3>2
  <2> QED
    BY <1>1, <2>1, <2>2
<1>4. ASSUME NEW n \in DOMAIN s, NEW e \in Of(n)
      PROVE  \E R \in SUBSET Of(n) : /\ e \in R /\ WellFormed(R) /\ (Slow => Lasting(R))
                                     /\ \A x \in Of(n) : x.id = e.id => x \in R
  <2>1. CASE s[n].kind = "kill"
    <3>1. e \in KillEvents(s[n], n, offset) /\ Of(n) = KillEvents(s[n], n, offset)
      BY <2>1
    <3>2. n \in Nat /\ s[n] \in Fault
      BY <1>1
    <3> HIDE DEF Of
    <3>3. PICK k \in Nat, R \in SUBSET Of(n) :
           /\ e \in R /\ WellFormed(R) /\ (s[n].restart > 0 => Lasting(R))
           /\ \A x \in R : x.id = <<n, k>>
           /\ \A x \in Of(n) : x.id[1] = n /\ (x.id = <<n, k>> => x \in R)
      BY <2>1, <3>1, <3>2, KillEventsFacts
    <3> QED
      BY <2>1, <3>3
  <2>2. CASE s[n].kind = "partition"
    <3>1. e \in PartitionEvents(s[n], n) /\ Of(n) = PartitionEvents(s[n], n)
      BY <2>2
    <3> HIDE DEF Of
    <3> QED
      BY <1>1, <2>2, <3>1, PartitionEventsFacts
  <2> QED
    BY <1>1, <2>1, <2>2
<1> HIDE DEF Of, E
<1>5. ASSUME NEW e \in E
      PROVE  \E R \in SUBSET E : /\ e \in R /\ WellFormed(R) /\ (Slow => Lasting(R))
                                 /\ \A x \in E : x.id = e.id => x \in R
  <2>1. PICK n \in DOMAIN s : e \in Of(n)
    BY <1>2
  <2>2. PICK R \in SUBSET Of(n) : /\ e \in R /\ WellFormed(R) /\ (Slow => Lasting(R))
                                  /\ \A x \in Of(n) : x.id = e.id => x \in R
    BY <1>4, <2>1
  <2>3. ASSUME NEW x \in E, x.id = e.id PROVE x \in R
    <3>1. PICK m \in DOMAIN s : x \in Of(m)
      BY <1>2
    <3>2. m = n
      BY <1>3, <2>1, <2>3, <3>1
    <3> QED
      BY <2>2, <2>3, <3>1, <3>2
  <2>4. R \in SUBSET E
    BY <1>2, <2>2
  <2> HIDE DEF Slow
  <2> QED
    BY <2>2, <2>3, <2>4
<1>6. WellFormed(E)
  BY <1>5, Assemble
<1>7. ASSUME Slow PROVE Lasting(E)
  <2>1. ASSUME NEW e \in E, e.action = "restart", NEW k \in E, k.action = "kill", k.id = e.id
        PROVE  k.t < e.t
    <3>1. PICK R \in SUBSET E : e \in R /\ Lasting(R) /\ k \in R
      BY <1>5, <1>7, <2>1
    <3> QED
      BY <2>1, <3>1 DEF Lasting
  <2> QED
    BY <2>1 DEF Lasting
<1> QED
  BY <1>6, <1>7 DEF E

\* Each event has one that ends its round, later than every disruption of the round.
LEMMA Closing ==
  ASSUME NEW E, WellFormed(E), Lasting(E), NEW e \in E
  PROVE  \E c \in E : /\ c.id = e.id /\ c.action \in Up /\ c.target = e.target
                      /\ c.action = "restart" <=> e.action \in {"drain", "kill", "restart"}
                      /\ \A x \in E : x.id = e.id =>
                           (x.action \in Down => x.t < c.t) /\ (x.action \in Up => x = c)
<1>1. PICK c \in E : c.id = e.id /\ c.action \in Up
  BY DEF WellFormed
<1>2. \A x \in E : x.id = e.id => x.target = c.target /\ x.kind = c.kind /\ (x.action = c.action => x = c)
  <2>1. \A a, b \in E : a.id = b.id =>
          a.target = b.target /\ a.kind = b.kind /\ (a.action = b.action => a = b)
    BY DEF WellFormed
  <2> QED
    BY <1>1, <2>1
<1>3. \A x \in E : /\ x.action \in (IF x.kind = "kill" THEN {"drain", "kill", "restart"}
                                    ELSE {"partition_start", "partition_end"})
                   /\ x.kind \in {"kill", "partition"} /\ x.t \in Nat
  BY DEF WellFormed
<1>4. \A x \in E : x.id = e.id /\ x.action \in Up => x = c
  BY <1>1, <1>2, <1>3 DEF Up
<1>5. ASSUME NEW x \in E, x.id = e.id, x.action \in Down PROVE x.t < c.t
  <2>1. CASE x.action = "partition_start"
    <3>1. c.action = "partition_end"
      BY <1>1, <1>2, <1>3, <1>5, <2>1 DEF Up
    <3> QED
      BY <1>1, <1>5, <2>1, <3>1 DEF WellFormed
  <2>2. CASE x.action = "kill"
    <3>1. c.action = "restart"
      BY <1>1, <1>2, <1>3, <1>5, <2>2 DEF Up
    <3> QED
      BY <1>1, <1>5, <2>2, <3>1 DEF Lasting
  <2>3. CASE x.action = "drain"
    <3>1. c.action = "restart"
      BY <1>1, <1>2, <1>3, <1>5, <2>3 DEF Up
    <3>2. PICK k \in E : k.id = x.id /\ k.action = "kill" /\ x.t < k.t
      BY <2>3 DEF WellFormed
    <3>3. k.t < c.t
      BY <1>1, <1>5, <3>1, <3>2 DEF Lasting
    <3>4. x.t \in Nat /\ k.t \in Nat /\ c.t \in Nat
      BY <1>3
    <3> QED
      BY <3>2, <3>3, <3>4
  <2> QED
    BY <1>5, <2>1, <2>2, <2>3 DEF Down
<1>6. c.action = "restart" <=> e.action \in {"drain", "kill", "restart"}
  BY <1>1, <1>2, <1>3 DEF Up
<1> QED
  BY <1>1, <1>2, <1>4, <1>5, <1>6

\* And before the end of a round its replica is hit.
LEMMA Opening ==
  ASSUME NEW E, WellFormed(E), Lasting(E), NEW e \in E, e.action \in Up
  PROVE  \E d \in E : /\ d.id = e.id /\ d.target = e.target /\ d.t < e.t
                      /\ d.action \in Down
<1>1. PICK d \in E : d.id = e.id /\ d.action \in {"kill", "partition_start"}
  BY DEF WellFormed
<1>2. d.action \in Down
  BY <1>1 DEF Down
<1>3. d.target = e.target
  BY <1>1 DEF WellFormed
<1>4. \E c \in E : \A x \in E : x.id = e.id =>
        (x.action \in Down => x.t < c.t) /\ (x.action \in Up => x = c)
  BY Closing
<1> QED
  BY <1>1, <1>2, <1>3, <1>4

\* When a round starts and ends, and on which replica it is.
LEMMA Spans ==
  ASSUME NEW E, WellFormed(E), Lasting(E), NEW c \in E, c.action \in Up
  PROVE  /\ End(E, c.id) = c.t /\ c.id \in Ids(E) /\ TargetOf(E, c.id) = c.target
         /\ \A x \in E : x.id = c.id => Start(E, c.id) <= x.t /\ x.t <= c.t
         /\ Start(E, c.id) \in Nat
<1> DEFINE S == {e \in E : e.id = c.id}
           T == {e.t : e \in S}
<1>1. \A x \in E : x.t \in Nat /\ x.action \in Down \cup Up
  BY KeyFacts
<1>2. \A x \in E : x.id = c.id => x.t <= c.t
  <2>1. \E m \in E : \A x \in E : x.id = c.id =>
          (x.action \in Down => x.t < m.t) /\ (x.action \in Up => x = m)
    BY Closing
  <2> QED
    BY <1>1, <2>1
<1>3. T \in SUBSET Nat /\ c.t \in T
  BY <1>1
<1>4. End(E, c.id) = c.t
  <2>1. End(E, c.id) = CHOOSE t \in T : \A u \in T : t >= u
    BY DEF End
  <2>2. \A u \in T : c.t >= u
    BY <1>1, <1>2
  <2>3. \A t \in T : (\A u \in T : t >= u) => t = c.t
    BY <1>3, <2>2
  <2> HIDE DEF T
  <2> QED
    BY <1>3, <2>1, <2>2, <2>3
<1>5. Start(E, c.id) \in T /\ \A u \in T : Start(E, c.id) <= u
  <2>1. Start(E, c.id) = CHOOSE t \in T : \A u \in T : t <= u
    BY DEF Start
  <2>2. \E t \in T : \A u \in T : t <= u
    BY <1>3, Least
  <2> HIDE DEF T
  <2> QED
    BY <2>1, <2>2
<1>6. TargetOf(E, c.id) = c.target
  <2>1. \A x \in E : x.id = c.id => x.target = c.target
    BY DEF WellFormed
  <2> QED
    BY <2>1 DEF TargetOf
<1> QED
  BY <1>2, <1>3, <1>4, <1>5, <1>6 DEF Ids

\* Two rounds on one replica do not overlap.
LEMMA Apart ==
  ASSUME NEW E, WellFormed(E), Clean(E), NEW a \in E, NEW b \in E, a.action \in Up, b.action \in Up,
         a.id # b.id, a.target = b.target
  PROVE  \/ \A x \in E : x.id = b.id => a.t <= x.t
         \/ \A x \in E : x.id = a.id => b.t <= x.t
<1>1. Lasting(E)
  BY DEF Clean, Lasting
<1>2. /\ End(E, a.id) = a.t /\ a.id \in Ids(E) /\ TargetOf(E, a.id) = a.target
      /\ \A x \in E : x.id = a.id => Start(E, a.id) <= x.t
      /\ Start(E, a.id) \in Nat
  BY <1>1, Spans
<1>3. /\ End(E, b.id) = b.t /\ b.id \in Ids(E) /\ TargetOf(E, b.id) = b.target
      /\ \A x \in E : x.id = b.id => Start(E, b.id) <= x.t
      /\ Start(E, b.id) \in Nat
  BY <1>1, Spans
<1>4. End(E, a.id) <= Start(E, b.id) \/ End(E, b.id) <= Start(E, a.id)
  BY <1>2, <1>3 DEF Clean
<1>5. \A x \in E : x.t \in Nat
  BY KeyFacts
<1> QED
  BY <1>2, <1>3, <1>4, <1>5

\* The first event of a replica hits it.
LEMMA NextFirst ==
  ASSUME NEW E, WellFormed(E), Clean(E), NEW A \in SUBSET E, NEW e \in E \ A,
         \A p \in E \ A : p # e => Before(e, p),
         \A o \in A : o.target # e.target
  PROVE  e.action \in Down
<1>1. Lasting(E)
  BY DEF Clean, Lasting
<1>2. ASSUME e.action \in Up PROVE FALSE
  <2>1. PICK d \in E : d.id = e.id /\ d.target = e.target /\ d.t < e.t
    BY <1>1, <1>2, Opening
  <2>2. d \notin A
    BY <2>1
  <2>3. d # e
    BY <2>1, KeyFacts
  <2>4. Before(e, d) /\ Before(d, e)
    BY <2>1, <2>2, <2>3, OrderFacts
  <2> QED
    BY <2>4, OrderFacts
<1> QED
  BY <1>2, KeyFacts

\* What may come after the last event of a replica, where faults do not overlap.
LEMMA NextAfter ==
  ASSUME NEW E, WellFormed(E), Clean(E), NEW A \in SUBSET E, NEW e \in E \ A,
         \A a \in A, p \in E \ A : Before(a, p),
         \A p \in E \ A : p # e => Before(e, p),
         NEW l \in A, l.target = e.target,
         \A o \in A : o.target = e.target /\ o # l => Before(o, l)
  PROVE  /\ e.action \in {"drain", "partition_start"} => l.action \in Up
         /\ e.action = "kill" => l.action \in Up \cup {"drain"}
         /\ e.action = "restart" => l.action = "kill"
         /\ e.action = "partition_end" => l.action = "partition_start"
<1>1. Lasting(E)
  BY DEF Clean, Lasting
<1>2. \A x \in E : /\ x.t \in Nat /\ x.action \in Down \cup Up
                   /\ x.action \in {"drain", "kill", "restart", "partition_start", "partition_end"}
  <2>1. \A x \in E : x.action \in {"drain", "kill", "restart", "partition_start", "partition_end"}
    BY DEF WellFormed
  <2> QED
    BY <2>1, KeyFacts
<1>3. Down \cap Up = {} /\ "drain" \in Down /\ "kill" \in Down /\ "partition_start" \in Down
      /\ "restart" \in Up /\ "partition_end" \in Up
  BY DEF Down, Up
<1>4. Before(l, e) /\ l # e /\ l.t <= e.t /\ (l.t = e.t /\ l.action \in Down => e.action \in Down)
  BY OrderFacts
<1>5. PICK cl \in E : /\ cl.id = l.id /\ cl.action \in Up /\ cl.target = l.target
                      /\ \A x \in E : x.id = l.id =>
                           (x.action \in Down => x.t < cl.t) /\ (x.action \in Up => x = cl)
  BY <1>1, Closing
<1>6. PICK ce \in E : /\ ce.id = e.id /\ ce.action \in Up /\ ce.target = e.target
                      /\ \A x \in E : x.id = e.id =>
                           (x.action \in Down => x.t < ce.t) /\ (x.action \in Up => x = ce)
  BY <1>1, Closing
\* What is earlier than a pending event is not pending, and what is after the last is.
<1>7. ASSUME NEW x \in E, x.target = e.target, x # l
      PROVE  /\ x.t < e.t => x \in A /\ Before(x, l)
             /\ l.t < x.t => x \in E \ A /\ (x # e => Before(e, x))
  <2>1. x.t < e.t => Before(x, e)
    BY OrderFacts
  <2>2. x.t < e.t => x # e
    BY <1>2
  <2>3. x.t < e.t => x \in A
    BY <2>1, <2>2, OrderFacts
  <2>4. l.t < x.t => Before(l, x)
    BY OrderFacts
  <2>5. l.t < x.t => x \notin A
    BY <1>7, <2>4, OrderFacts
  <2> QED
    BY <1>7, <2>3, <2>5
<1>8. CASE l.id = e.id
  <2>1. l.kind = e.kind /\ l.action # e.action
    <3>1. \A a, b \in E : a.id = b.id =>
            a.target = b.target /\ a.kind = b.kind /\ (a.action = b.action => a = b)
      BY DEF WellFormed
    <3> QED
      BY <1>4, <1>8, <3>1
  <2>2. /\ e.kind = "kill" <=> e.action \in {"drain", "kill", "restart"}
        /\ l.kind = "kill" <=> l.action \in {"drain", "kill", "restart"}
    BY DEF WellFormed
  <2>3. ~ (e.action \in Down /\ l.action \in Up)
    <3>1. l.action \in Up => l = ce
      BY <1>6, <1>8
    <3>2. e.action \in Down => e.t < ce.t
      BY <1>6
    <3> QED
      BY <1>2, <1>4, <3>1, <3>2
  <2>4. ~ (e.action = "drain" /\ l.action = "kill")
    <3>1. e.action = "drain" /\ l.action = "kill" => e.t < l.t
      <4>1. \A a, b \in E : a.id = b.id => (a.action = "drain" /\ b.action = "kill" => a.t < b.t)
        BY DEF WellFormed
      <4> QED
        BY <1>8, <4>1
    <3> QED
      BY <1>2, <1>4, <3>1
  <2>5. ~ (e.action = "restart" /\ l.action = "drain")
    <3> SUFFICES ASSUME e.action = "restart", l.action = "drain" PROVE FALSE
      OBVIOUS
    <3>1. PICK k \in E : k.id = l.id /\ k.action = "kill" /\ l.t < k.t
      BY DEF WellFormed
    <3>2. k.target = e.target /\ k # l /\ k # e
      <4>1. \A a, b \in E : a.id = b.id => a.target = b.target
        BY DEF WellFormed
      <4> QED
        BY <1>2, <1>8, <3>1, <4>1
    <3>3. k.t < e.t
      BY <1>1, <1>8, <3>1 DEF Lasting
    <3> QED
      BY <1>7, <3>1, <3>2, <3>3
  <2> QED
    BY <1>2, <1>3, <2>1, <2>2, <2>3, <2>4, <2>5
<1>9. CASE l.id # e.id
  <2>1. \/ \A x \in E : x.id = e.id => cl.t <= x.t
        \/ \A x \in E : x.id = l.id => ce.t <= x.t
    <3>1. cl.id # ce.id /\ cl.target = ce.target
      BY <1>5, <1>6, <1>9
    <3> QED
      BY <1>5, <1>6, <3>1, Apart
  <2>2. CASE \A x \in E : x.id = l.id => ce.t <= x.t
    <3>1. ce.t <= l.t
      BY <2>2
    <3>2. e.action \in Up /\ l.t = e.t
      BY <1>2, <1>4, <1>6, <3>1
    <3>3. l.action \in Up
      BY <1>2, <1>3, <1>4, <3>2
    <3>4. PICK d \in E : d.id = l.id /\ d.t < l.t
      BY <1>1, <3>3, Opening
    <3>5. e = ce
      BY <1>6, <3>2
    <3>6. ce.t <= d.t
      BY <2>2, <3>4
    <3> QED
      BY <1>2, <3>2, <3>4, <3>5, <3>6
  <2>3. CASE \A x \in E : x.id = e.id => cl.t <= x.t
    <3>1. cl.t <= e.t
      BY <2>3
    <3>2. l.action \in Up
      <4> SUFFICES ASSUME l.action \in Down PROVE FALSE
        BY <1>2
      <4>1. l.t < cl.t /\ cl # l /\ cl # e
        BY <1>2, <1>3, <1>5, <1>9
      <4>2. Before(e, cl)
        BY <1>5, <1>7, <4>1
      <4>3. e.t = cl.t /\ e.action \in Up
        <5>1. e.t <= cl.t /\ (e.t = cl.t /\ e.action \in Down => cl.action \in Down)
          BY <4>2, OrderFacts
        <5> QED
          BY <1>2, <1>3, <1>5, <3>1, <5>1
      <4>4. PICK d \in E : d.id = e.id /\ d.t < e.t
        BY <1>1, <4>3, Opening
      <4>5. cl.t <= d.t
        BY <2>3, <4>4
      <4> QED
        BY <1>2, <4>3, <4>4, <4>5
    <3>3. e.action \in Down
      <4> SUFFICES ASSUME e.action \in Up PROVE FALSE
        BY <1>2
      <4>1. PICK d \in E : d.id = e.id /\ d.target = e.target /\ d.t < e.t /\ d.action \in Down
        BY <1>1, Opening
      <4>2. d # l /\ d \in E
        BY <1>9, <4>1
      <4>3. Before(d, l)
        BY <1>7, <4>1, <4>2
      <4>4. d.t <= l.t /\ (d.t = l.t => l.action \in Down)
        BY <4>1, <4>2, <4>3, OrderFacts
      <4>5. l = cl /\ cl.t <= d.t
        BY <1>5, <2>3, <3>2, <4>1
      <4> QED
        BY <1>2, <1>3, <3>2, <4>4, <4>5
    <3> QED
      BY <1>3, <3>2, <3>3
  <2> QED
    BY <2>1, <2>2, <2>3
<1> QED
  BY <1>8, <1>9

----------------------------------------------------------------------------
(* A replica                                                               *)

LEMMA CalmFacts ==
  /\ Calm \in Faults /\ ~ Calm.partitioned
  /\ Fresh \in Replica /\ Fresh.alive /\ ~ Fresh.draining /\ Fresh.generation = 0
  /\ Fresh.faults = Fresh.wish /\ ~ Fresh.faults.partitioned
<1>1. Calm \in Faults /\ ~ Calm.partitioned
  BY DEF Calm, Faults
<1>2. [Calm EXCEPT !.steady = Steady] \in Faults /\ ~ [Calm EXCEPT !.steady = Steady].partitioned
  BY ChaosAssumption DEF Calm, Faults
<1> QED
  BY <1>1, <1>2 DEF Fresh, Replica

LEMMA DrainedFacts ==
  ASSUME NEW f \in Replica
  PROVE  LET g == Drained(f)
         IN  /\ g \in Replica /\ g.alive = f.alive /\ g.generation = f.generation
             /\ g.faults = f.faults /\ g.wish = f.wish /\ (f.alive => g.draining)
BY DEF Drained, Replica

LEMMA KilledFacts ==
  ASSUME NEW f \in Replica, mode \in {"inprocess", "subprocess"}
  PROVE  LET g == Killed(f)
         IN  /\ g \in Replica /\ ~ g.alive /\ g.wish = f.wish /\ g.generation >= f.generation
             /\ f.alive => g.generation > f.generation
             /\ mode = "inprocess" => g.faults = f.faults
             /\ ~ f.faults.partitioned => ~ g.faults.partitioned
<1> DEFINE n == f.generation + 1
<1>1. f.generation \in Nat /\ f.alive \in BOOLEAN /\ f.faults \in Faults /\ f.wish \in Faults
      /\ n \in Nat /\ n > f.generation
  BY DEF Replica
<1> HIDE DEF n
<1>2. CASE mode = "inprocess"
  <2> DEFINE g == [f EXCEPT !.alive = FALSE, !.draining = TRUE, !.generation = n]
  <2>1. Killed(f) = g
    BY <1>2 DEF Killed, Replica, n
  <2>2. ~ g.alive /\ g.wish = f.wish /\ g.generation = n /\ g.faults = f.faults
    BY DEF Replica
  <2>3. g \in Replica
    BY <1>1 DEF Replica
  <2> HIDE DEF g
  <2> QED
    BY <1>1, <1>2, <2>1, <2>2, <2>3
<1>3. CASE mode = "subprocess" /\ ~ f.alive
  <2>1. Killed(f) = f
    BY <1>3 DEF Killed, ProcessKilled
  <2> QED
    BY <1>1, <1>3, <2>1
<1>4. CASE mode = "subprocess" /\ f.alive
  <2> DEFINE g == [f EXCEPT !.alive = FALSE, !.draining = FALSE, !.generation = n, !.faults = Calm]
  <2>1. Killed(f) = g
    BY <1>4 DEF Killed, ProcessKilled, Replica, n
  <2>2. ~ g.alive /\ g.wish = f.wish /\ g.generation = n /\ g.faults = Calm
    BY DEF Replica
  <2>3. g \in Replica
    BY <1>1, CalmFacts DEF Replica
  <2> HIDE DEF g
  <2> QED
    BY <1>1, <1>4, <2>1, <2>2, <2>3, CalmFacts
<1> QED
  BY <1>2, <1>3, <1>4

LEMMA PartitionedFacts ==
  ASSUME NEW f \in Replica, NEW on \in BOOLEAN, NEW heard \in BOOLEAN
  PROVE  LET g == Partitioned(f, on, heard)
         IN  /\ g \in Replica /\ g.alive = f.alive /\ g.generation = f.generation
             /\ g.draining = f.draining /\ g.wish.partitioned = on
             /\ heard /\ (f.alive \/ mode = "inprocess") =>
                  g.faults.partitioned = on /\ (f.faults = f.wish => g.faults = g.wish)
<1> DEFINE g == Partitioned(f, on, heard)
           h == IF heard /\ (mode = "inprocess" \/ f.alive) THEN on ELSE f.faults.partitioned
<1>1. f.faults \in Faults /\ f.wish \in Faults
  BY DEF Replica
<1>2. h \in BOOLEAN
  BY <1>1 DEF Faults
<1>3. g = [f EXCEPT !.wish = [f.wish EXCEPT !.partitioned = on],
                    !.faults = [f.faults EXCEPT !.partitioned = h]]
  BY DEF Partitioned, Replica
<1>4. /\ [f.wish EXCEPT !.partitioned = on] \in Faults
      /\ [f.faults EXCEPT !.partitioned = h] \in Faults
      /\ [f.wish EXCEPT !.partitioned = on].partitioned = on
      /\ [f.faults EXCEPT !.partitioned = h].partitioned = h
  BY <1>1, <1>2 DEF Faults
<1> HIDE DEF g
<1>5. /\ g.alive = f.alive /\ g.generation = f.generation /\ g.draining = f.draining
      /\ g.wish = [f.wish EXCEPT !.partitioned = on]
      /\ g.faults = [f.faults EXCEPT !.partitioned = h]
      /\ g \in Replica
  BY <1>3, <1>4 DEF Replica
<1> QED
  BY <1>4, <1>5 DEF g

LEMMA RevivedFacts ==
  ASSUME NEW f \in Replica, mode \in {"inprocess", "subprocess"}
  PROVE  LET g == Revived(f)
         IN  /\ g \in Replica /\ g.alive /\ g.generation = f.generation /\ g.wish = f.wish
             /\ ~ f.alive => ~ g.draining
             /\ f.alive => g.faults = f.faults /\ (g.draining => f.draining)
             /\ mode = "inprocess" => g.faults = f.faults
             /\ mode = "subprocess" /\ ~ f.alive => g.faults = Calm
BY CalmFacts DEF Revived, Replica

LEMMA RestoredFacts ==
  ASSUME NEW f \in Replica
  PROVE  LET g == Restored(f)
         IN  /\ g \in Replica /\ g.alive = f.alive /\ g.generation = f.generation
             /\ g.draining = f.draining /\ g.wish = f.wish
             /\ g.faults = f.faults \/ g.faults = f.wish
             /\ mode = "subprocess" /\ f.alive /\ f.faults \in {f.wish, Calm} => g.faults = f.wish
BY DEF Restored, Replica

----------------------------------------------------------------------------
(* The driver                                                              *)

LEMMA NoEventFacts ==
  ASSUME Types
  PROVE  NoEvent \notin timeline
<1>1. \A e \in timeline : e.target \in Workers
  BY DEF Types, WellFormed
<1>2. NoEvent.target = Nobody
  BY DEF NoEvent, Event
<1> QED
  BY <1>1, <1>2, ChaosNames

LEMMA DueFacts ==
  ASSUME Types, Played, Due
  PROVE  LET e == First(Pending)
         IN  /\ e \in Pending /\ (\A p \in Pending \ {e} : Before(e, p))
             /\ driver = NoEvent /\ phase = "load"
<1>1. WellFormed(timeline) /\ Pending \in SUBSET timeline
  BY DEF Types, Pending
<1> QED
  BY <1>1, FirstFacts DEF Due

\* The next event is applied.
Advances(e) ==
  /\ e \in Pending /\ (\A p \in Pending \ {e} : Before(e, p))
  /\ applied' = applied \cup {e} /\ timeline' = timeline

LEMMA Advance ==
  ASSUME Types, Played, NEW e, Advances(e)
  PROVE  /\ e \in timeline /\ e \notin applied /\ e.target \in Workers
         /\ applied' \subseteq timeline' /\ WellFormed(timeline')
         /\ Pending' = Pending \ {e}
         /\ Mine(e.target)' = Mine(e.target) \cup {e}
         /\ Latest(e.target, e)' /\ \A l : Latest(e.target, l)' => l = e
         /\ \A v \in Workers \ {e.target} : Mine(v)' = Mine(v)
         /\ \A a \in applied', p \in Pending' : Before(a, p)
         /\ \A a \in applied : Before(a, e)
<1>1. WellFormed(timeline) /\ applied \subseteq timeline
  BY DEF Types
<1>2. e \in timeline /\ e \notin applied
  BY DEF Advances, Pending
<1>3. e.target \in Workers
  BY <1>1, <1>2 DEF WellFormed
<1>4. Pending' = Pending \ {e}
  BY DEF Advances, Pending
<1>5. \A a \in applied : Before(a, e)
  BY DEF Played, Advances
<1>6. Mine(e.target)' = Mine(e.target) \cup {e} /\ \A v \in Workers \ {e.target} : Mine(v)' = Mine(v)
  BY DEF Mine, Advances
<1>7. Latest(e.target, e)'
  BY <1>5, <1>6 DEF Latest, Mine
<1>8. ASSUME NEW l, Latest(e.target, l)' PROVE l = e
  <2>1. l \in Mine(e.target)' /\ (l # e => Before(e, l))
    BY <1>7, <1>8 DEF Latest
  <2>2. l # e => Before(l, e) /\ l \in timeline
    BY <1>1, <1>5, <1>6, <2>1 DEF Mine
  <2> QED
    BY <1>1, <1>2, <2>1, <2>2, OrderFacts
<1>9. \A a \in applied', p \in Pending' : Before(a, p)
  BY <1>4 DEF Played, Advances
<1>10. applied' \subseteq timeline' /\ WellFormed(timeline')
  BY <1>1, <1>2 DEF Advances
<1> QED
  BY <1>2, <1>3, <1>4, <1>5, <1>6, <1>7, <1>8, <1>9, <1>10

\* Where faults do not overlap, the next event of a replica goes on from its last.
LEMMA Follows ==
  ASSUME Types, Played, Clean(timeline), NEW e, Advances(e), NEW l, Latest(e.target, l)
  PROVE  /\ e.action \in {"drain", "partition_start"} => l.action \in Up
         /\ e.action = "kill" => l.action \in Up \cup {"drain"}
         /\ e.action = "restart" => l.action = "kill"
         /\ e.action = "partition_end" => l.action = "partition_start"
<1>1. /\ WellFormed(timeline) /\ applied \in SUBSET timeline /\ e \in timeline \ applied
      /\ \A a \in applied, p \in timeline \ applied : Before(a, p)
      /\ \A p \in timeline \ applied : p # e => Before(e, p)
  BY Advance DEF Types, Played, Advances, Pending
<1>2. l \in applied /\ l.target = e.target /\ \A o \in applied : o.target = e.target /\ o # l => Before(o, l)
  BY DEF Latest, Mine
<1> QED
  BY <1>1, <1>2, NextAfter

\* What the next event can find, where faults do not overlap: a replica that is well, or the
\* disruption that it goes on with.
LEMMA Finds ==
  ASSUME Types, Played, AsLeft, Clean(timeline), NEW e, Advances(e), e.target \notin trouble
  PROVE  /\ e.action \in {"drain", "partition_start"} => Healthy(e.target)
         /\ e.action = "kill" => Healthy(e.target) \/ AfterDrain(e.target)
         /\ e.action = "restart" => AfterKill(e.target)
         /\ e.action = "partition_end" => CutOff(e.target)
<1> DEFINE w == e.target
<1>1. /\ WellFormed(timeline) /\ applied \in SUBSET timeline /\ e \in timeline \ applied /\ w \in Workers
      /\ \A a \in applied, p \in timeline \ applied : Before(a, p)
      /\ \A p \in timeline \ applied : p # e => Before(e, p)
  BY Advance DEF Types, Played, Advances, Pending
<1>2. Healthy(w) \/ AfterDrain(w) \/ AfterKill(w) \/ CutOff(w)
  BY <1>1 DEF AsLeft, Left
<1>3. ASSUME Mine(w) = {} PROVE e.action \in Down
  <2>1. \A o \in applied : o.target # e.target
    BY <1>3 DEF Mine
  <2> QED
    BY <1>1, <2>1, NextFirst
<1>4. ASSUME NEW l \in Mine(w), Latest(w, l)
      PROVE  /\ e.action \in {"drain", "partition_start"} => l.action \in Up
             /\ e.action = "kill" => l.action \in Up \cup {"drain"}
             /\ e.action = "restart" => l.action = "kill"
             /\ e.action = "partition_end" => l.action = "partition_start"
  BY <1>4, Follows
<1>5. /\ AfterDrain(w) => \E l \in Mine(w) : Latest(w, l) /\ l.action = "drain"
      /\ AfterKill(w) => \E l \in Mine(w) : Latest(w, l) /\ l.action = "kill"
      /\ CutOff(w) => \E l \in Mine(w) : Latest(w, l) /\ l.action = "partition_start"
      /\ Healthy(w) => Mine(w) = {} \/ \E l \in Mine(w) : Latest(w, l) /\ l.action \in Up
  BY DEF AfterDrain, AfterKill, CutOff, Healthy
<1>6. /\ "restart" \notin Down /\ "partition_end" \notin Down
      /\ \A a \in Up : a \notin {"drain", "kill", "partition_start"}
  BY DEF Down, Up
<1> HIDE DEF w
<1>7. e.action \in {"drain", "partition_start"} => Healthy(w)
  BY <1>2, <1>4, <1>5, <1>6
<1>8. e.action = "kill" => Healthy(w) \/ AfterDrain(w)
  BY <1>2, <1>4, <1>5, <1>6
<1>9. e.action = "restart" => AfterKill(w)
  BY <1>2, <1>3, <1>4, <1>5, <1>6
<1>10. e.action = "partition_end" => CutOff(w)
  BY <1>2, <1>3, <1>4, <1>5, <1>6
<1> QED
  BY <1>7, <1>8, <1>9, <1>10 DEF w

----------------------------------------------------------------------------
(* The books                                                               *)

LEMMA BeginFacts ==
  ASSUME Types, Books, BooksOpen, NEW e, e.target \in Workers, e.action \in Down,
         e.kind \in {"kill", "partition"}, Begin(e)
  PROVE  /\ disruptions' \in Seq(Disruption) /\ open' \in [Workers -> 0 .. Len(disruptions')]
         /\ Books' /\ BooksOpen' /\ open'[e.target] # 0
         /\ Len(disruptions) \in Nat /\ Len(disruptions') >= Len(disruptions)
         /\ \A v \in Workers \ {e.target} : open'[v] = open[v]
         /\ \A d \in DOMAIN disruptions : d \in DOMAIN disruptions' /\ disruptions'[d] = disruptions[d]
         /\ \A d \in DOMAIN disruptions' \ DOMAIN disruptions :
              /\ d > Len(disruptions) /\ disruptions'[d].target = e.target
              /\ disruptions'[d].state = "out" /\ disruptions'[d].proven
              /\ disruptions'[d].kind = e.kind
<1> DEFINE w == e.target
           n == Len(disruptions)
           r == [target |-> e.target, kind |-> e.kind, state |-> "out", proven |-> TRUE]
<1>1. /\ disruptions \in Seq(Disruption) /\ open \in [Workers -> 0 .. n]
      /\ n \in Nat /\ DOMAIN disruptions = 1 .. n
  BY DEF Types
<1>2. r \in Disruption /\ r.target = w /\ r.state = "out" /\ r.proven /\ r.kind = e.kind
  BY DEF Disruption
<1>3. CASE open[w] # 0
  <2>1. disruptions' = disruptions /\ open' = open
    BY <1>3 DEF Begin
  <2>2. Books' /\ BooksOpen'
    BY <2>1 DEF Books, BooksOpen
  <2> QED
    BY <1>1, <1>3, <2>1, <2>2
<1>4. CASE open[w] = 0
  <2>1. disruptions' = Append(disruptions, r) /\ open' = [open EXCEPT ![w] = n + 1]
    BY <1>4 DEF Begin, Begins
  <2> HIDE DEF r
  <2>2. /\ disruptions' \in Seq(Disruption) /\ Len(disruptions') = n + 1
        /\ DOMAIN disruptions' = 1 .. n + 1
        /\ \A d \in 1 .. n : disruptions'[d] = disruptions[d]
        /\ disruptions'[n + 1] = r
    BY <1>1, <1>2, <2>1
  <2>3. /\ open' \in [Workers -> 0 .. n + 1] /\ open'[w] = n + 1
        /\ \A v \in Workers \ {w} : open'[v] = open[v]
    BY <1>1, <2>1
  <2>4. \A d \in DOMAIN disruptions' \ DOMAIN disruptions : d = n + 1
    BY <1>1, <2>2
  <2>5. BooksOpen'
    <3>1. ASSUME NEW v \in Workers, open'[v] # 0 PROVE disruptions'[open'[v]].target = v
      <4>1. CASE v = w
        BY <1>2, <2>2, <2>3, <4>1
      <4>2. CASE v # w
        <5>1. open[v] \in 1 .. n /\ open'[v] = open[v]
          BY <1>1, <2>3, <3>1, <4>2
        <5> QED
          BY <2>2, <5>1 DEF BooksOpen
      <4> QED
        BY <4>1, <4>2
    <3> QED
      BY <3>1 DEF BooksOpen
  <2>6. Books'
    <3>1. ASSUME NEW d \in DOMAIN disruptions'
          PROVE  disruptions'[d].state = "out" <=> open'[disruptions'[d].target] = d
      <4>1. CASE d = n + 1
        BY <1>2, <2>2, <2>3, <4>1
      <4>2. CASE d \in 1 .. n
        <5>1. disruptions'[d] = disruptions[d] /\ disruptions[d].target \in Workers
          <6>1. disruptions'[d] = disruptions[d] /\ disruptions[d] \in Disruption
            BY <1>1, <2>2, <4>2
          <6> QED
            BY <6>1 DEF Disruption
        <5>2. disruptions[d].state = "out" <=> open[disruptions[d].target] = d
          BY <1>1, <4>2 DEF Books
        <5>3. CASE disruptions[d].target = w
          BY <1>1, <1>4, <2>3, <4>2, <5>1, <5>2, <5>3
        <5>4. CASE disruptions[d].target # w
          BY <2>3, <5>1, <5>2, <5>4
        <5> QED
          BY <5>3, <5>4
      <4> QED
        BY <1>1, <2>2, <3>1, <4>1, <4>2
    <3> QED
      BY <3>1 DEF Books
  <2> QED
    BY <1>1, <1>2, <2>2, <2>3, <2>4, <2>5, <2>6
<1> QED
  BY <1>3, <1>4

LEMMA CloseFacts ==
  ASSUME Types, Books, BooksOpen, NEW w \in Workers, Close(w)
  PROVE  /\ disruptions' \in Seq(Disruption) /\ open' \in [Workers -> 0 .. Len(disruptions')]
         /\ Books' /\ BooksOpen' /\ open'[w] = 0
         /\ Len(disruptions') = Len(disruptions) /\ DOMAIN disruptions' = DOMAIN disruptions
         /\ \A v \in Workers \ {w} : open'[v] = open[v]
         /\ \A d \in DOMAIN disruptions :
              /\ disruptions'[d].target = disruptions[d].target
              /\ disruptions'[d].kind = disruptions[d].kind
              /\ disruptions'[d].proven = disruptions[d].proven
              /\ disruptions[d].target # w => disruptions'[d] = disruptions[d]
<1> DEFINE n == Len(disruptions)
<1>1. /\ disruptions \in Seq(Disruption) /\ open \in [Workers -> 0 .. n]
      /\ n \in Nat /\ DOMAIN disruptions = 1 .. n
  BY DEF Types
<1>2. open' \in [Workers -> 0 .. n] /\ open'[w] = 0 /\ \A v \in Workers \ {w} : open'[v] = open[v]
  BY <1>1 DEF Close
<1>3. /\ disruptions' \in Seq(Disruption) /\ Len(disruptions') = n /\ DOMAIN disruptions' = 1 .. n
      /\ \A d \in 1 .. n :
           /\ disruptions'[d].target = disruptions[d].target
           /\ disruptions'[d].kind = disruptions[d].kind
           /\ disruptions'[d].proven = disruptions[d].proven
           /\ disruptions'[d].state = IF d = open[w] THEN "back" ELSE disruptions[d].state
           /\ d # open[w] => disruptions'[d] = disruptions[d]
  <2>1. CASE open[w] = 0
    <3>1. disruptions' = disruptions /\ \A d \in 1 .. n : d # open[w]
      BY <2>1 DEF Close
    <3> QED
      BY <1>1, <3>1
  <2>2. CASE open[w] # 0
    <3> DEFINE c == open[w]
               r == [disruptions[c] EXCEPT !.state = "back"]
    <3>1. c \in 1 .. n
      BY <1>1, <2>2
    <3>2. disruptions' = [disruptions EXCEPT ![c] = r]
      BY <2>2 DEF Close
    <3>3. disruptions[c] \in Disruption
      BY <1>1, <3>1
    <3>4. /\ r \in Disruption /\ r.target = disruptions[c].target /\ r.kind = disruptions[c].kind
          /\ r.proven = disruptions[c].proven /\ r.state = "back"
      BY <3>3 DEF Disruption
    <3> HIDE DEF r, c
    <3>5. /\ disruptions' \in Seq(Disruption) /\ Len(disruptions') = n /\ DOMAIN disruptions' = 1 .. n
          /\ \A d \in 1 .. n : disruptions'[d] = IF d = c THEN r ELSE disruptions[d]
      BY <1>1, <3>1, <3>2, <3>4
    <3> QED
      BY <3>4, <3>5 DEF c
  <2> QED
    BY <2>1, <2>2
<1>4. \A d \in 1 .. n : disruptions[d].target \in Workers
  <2>1. \A d \in 1 .. n : disruptions[d] \in Disruption
    BY <1>1
  <2> QED
    BY <2>1 DEF Disruption
<1>5. \A d \in 1 .. n : disruptions[d].target # w => d # open[w]
  BY <1>1 DEF BooksOpen
<1>6. BooksOpen'
  <2>1. ASSUME NEW v \in Workers, open'[v] # 0 PROVE disruptions'[open'[v]].target = v
    <3>1. open'[v] = open[v] /\ open[v] \in 1 .. n
      BY <1>1, <1>2, <2>1
    <3> QED
      BY <1>3, <3>1 DEF BooksOpen
  <2> QED
    BY <2>1 DEF BooksOpen
<1>7. Books'
  <2>1. ASSUME NEW d \in 1 .. n
        PROVE  disruptions'[d].state = "out" <=> open'[disruptions'[d].target] = d
    <3>1. disruptions[d].state = "out" <=> open[disruptions[d].target] = d
      BY <1>1 DEF Books
    <3>2. CASE disruptions[d].target = w
      BY <1>2, <1>3, <3>1, <3>2
    <3>3. CASE disruptions[d].target # w
      BY <1>2, <1>3, <1>4, <1>5, <3>1, <3>3
    <3> QED
      BY <3>2, <3>3
  <2> QED
    BY <1>3, <2>1 DEF Books
<1> QED
  BY <1>1, <1>2, <1>3, <1>5, <1>6, <1>7

----------------------------------------------------------------------------
(* What a step of the driver leaves alone                                  *)

\* Only w changes, and it does not get younger.
OnlyAt(w) ==
  /\ fleet' \in [Workers -> Replica]
  /\ \A v \in Workers \ {w} : fleet'[v] = fleet[v]
  /\ fleet'[w].generation >= fleet[w].generation
  /\ ~ fleet'[w].alive => ~ fleet[w].alive \/ fleet'[w].generation > fleet[w].generation

LEMMA FlightKept ==
  ASSUME Types, Flight, NEW w \in Workers, OnlyAt(w), req' = req,
         Len(disruptions') \in Nat, Len(disruptions') >= Len(disruptions)
  PROVE  /\ Flight'
         /\ \A r \in Requests : InFlight(r) /\ Cut(r) => Cut(r)'
<1>1. /\ \A v \in Workers : fleet[v].generation \in Nat /\ fleet'[v].generation \in Nat
      /\ Len(disruptions) \in Nat
  BY DEF Types, OnlyAt, Replica
<1>2. \A r \in Requests : req[r].generation \in Nat /\ req[r].born \in Nat
  BY DEF Types, RequestState
<1>3. \A v \in Workers : /\ fleet'[v].generation >= fleet[v].generation
                         /\ ~ fleet'[v].alive => ~ fleet[v].alive \/ fleet'[v].generation > fleet[v].generation
  BY <1>1 DEF OnlyAt
<1>4. ASSUME NEW r \in Requests, InFlight(r)
      PROVE  /\ req[r].generation <= fleet'[req[r].on].generation
             /\ ~ fleet'[req[r].on].alive => req[r].generation < fleet'[req[r].on].generation
             /\ req[r].born <= Len(disruptions')
             /\ Cut(r) => Cut(r)'
  <2>1. /\ req[r].on \in Workers
        /\ req[r].generation <= fleet[req[r].on].generation
        /\ ~ fleet[req[r].on].alive => req[r].generation < fleet[req[r].on].generation
        /\ req[r].born <= Len(disruptions)
    BY <1>4 DEF Flight
  <2> DEFINE a == fleet[req[r].on].generation
             b == fleet'[req[r].on].generation
             g == req[r].generation
  <2>2. a \in Nat /\ b \in Nat /\ g \in Nat /\ b >= a
    BY <1>1, <1>2, <1>3, <2>1
  <2>3. ~ fleet'[req[r].on].alive => g < a \/ b > a
    BY <1>3, <2>1
  <2>4. Cut(r) => g < a
    BY <2>1, <2>2 DEF Cut
  <2>5. g # b => Cut(r)'
    BY DEF Cut
  <2> HIDE DEF a, b, g
  <2>6. g <= a
    BY <2>1 DEF a, g
  <2>7. /\ g <= b /\ (~ fleet'[req[r].on].alive => g < b) /\ (Cut(r) => Cut(r)')
    BY <2>2, <2>3, <2>4, <2>5, <2>6
  <2>8. req[r].born <= Len(disruptions')
    BY <1>1, <1>2, <2>1
  <2> QED
    BY <2>7, <2>8 DEF a, b, g
<1>5. Flight'
  <2>1. \A r \in Requests : InFlight(r)' <=> InFlight(r)
    BY DEF InFlight
  <2>2. ASSUME NEW r \in Requests
        PROVE  (/\ req[r].on \notin req[r].tried
                /\ Cardinality(req[r].tried) <= MaxAttempts
                /\ req[r].at # "done" => req[r].cause = "none"
                /\ InFlight(r) =>
                     /\ req[r].on \in Workers /\ Cardinality(req[r].tried) < MaxAttempts
                     /\ req[r].generation <= fleet[req[r].on].generation
                     /\ ~fleet[req[r].on].alive => req[r].generation < fleet[req[r].on].generation
                     /\ req[r].born <= Len(disruptions))'
    BY <1>4, <2>1 DEF Flight
  <2> QED
    BY <2>2 DEF Flight
<1> QED
  BY <1>4, <1>5

\* A replica that is left alone is as it was left.
LEMMA LeftKept ==
  ASSUME NEW v \in Workers, Left(v), fleet'[v] = fleet[v], open'[v] = open[v], Mine(v)' = Mine(v),
         phase' = "load" => phase = "load" /\ (Restoring(v)' <=> Restoring(v))
  PROVE  Left(v)'
<1>1. \A l : Latest(v, l)' <=> Latest(v, l)
  BY DEF Latest
<1>2. Healthy(v) => Healthy(v)'
  BY <1>1 DEF Healthy
<1>3. AfterDrain(v) => AfterDrain(v)'
  BY <1>1 DEF AfterDrain
<1>4. AfterKill(v) => AfterKill(v)'
  BY <1>1 DEF AfterKill
<1>5. CutOff(v) => CutOff(v)'
  BY <1>1 DEF CutOff
<1> QED
  BY <1>2, <1>3, <1>4, <1>5 DEF Left

\* What a kill must have cut, as it is said of one replica.
SeveredAt(w) ==
  \A d \in DOMAIN disruptions, r \in Requests :
    /\ disruptions[d].kind = "kill" /\ InFlight(r)
    /\ req[r].on = w /\ disruptions[d].target = w /\ req[r].born < d
    => \/ Cut(r)
       \/ /\ disruptions[d].state = "out"
          /\ \E l \in Mine(w) : Latest(w, l) /\ l.action = "drain"

LEMMA SeveredKept ==
  ASSUME Types, Severed, NEW w \in Workers, OnlyAt(w), req' = req, timeline' = timeline,
         \A v \in Workers \ {w} : Mine(v)' = Mine(v),
         \A d \in DOMAIN disruptions' : disruptions'[d].target # w =>
            d \in DOMAIN disruptions /\ disruptions'[d] = disruptions[d],
         Clean(timeline) => SeveredAt(w)', Flight
  PROVE  Severed'
<1> SUFFICES ASSUME Clean(timeline),
                    NEW d \in DOMAIN disruptions', NEW r \in Requests,
                    disruptions'[d].kind = "kill", InFlight(r)',
                    req[r].on = disruptions'[d].target, req[r].born < d
             PROVE  Cut(r)' \/ (/\ disruptions'[d].state = "out"
                                /\ \E l \in Mine(req[r].on)' : Latest(req[r].on, l)' /\ l.action = "drain")
  BY DEF Severed
<1> DEFINE v == req[r].on
<1>1. CASE v = w
  BY <1>1 DEF SeveredAt
<1>2. CASE v # w
  <2>1. d \in DOMAIN disruptions /\ disruptions'[d] = disruptions[d]
    BY <1>2
  <2>2. InFlight(r)
    BY DEF InFlight
  <2>3. v \in Workers
    BY <2>2 DEF Flight
  <2>4. Mine(v)' = Mine(v) /\ fleet'[v] = fleet[v]
    BY <1>2, <2>3 DEF OnlyAt
  <2>5. Cut(r)' <=> Cut(r)
    BY <2>4 DEF Cut
  <2>6. \A l : Latest(v, l)' <=> Latest(v, l)
    BY <2>4 DEF Latest
  <2>7. \/ Cut(r)
        \/ disruptions[d].state = "out" /\ \E l \in Mine(v) : Latest(v, l) /\ l.action = "drain"
    BY <2>1, <2>2 DEF Severed
  <2> QED
    BY <2>1, <2>4, <2>5, <2>6, <2>7
<1> QED
  BY <1>1, <1>2

----------------------------------------------------------------------------
(* Disrupt                                                                 *)

Struck(e, heard, f) ==
  CASE e.action = "drain" -> IF heard THEN Drained(f) ELSE f
    [] e.action = "kill" -> Killed(f)
    [] OTHER -> Partitioned(f, TRUE, heard)

LEMMA StruckFacts ==
  ASSUME NEW f \in Replica, NEW heard \in BOOLEAN, NEW e, e.action \in Down,
         mode \in {"inprocess", "subprocess"}
  PROVE  LET g == Struck(e, heard, f)
         IN  /\ g \in Replica /\ g.generation >= f.generation
             /\ e.action # "kill" => g.alive = f.alive /\ g.generation = f.generation
             /\ e.action = "kill" => /\ ~ g.alive
                                     /\ f.alive => g.generation > f.generation
                                     /\ ~ f.faults.partitioned => ~ g.faults.partitioned
             /\ e.action # "partition_start" => g.wish = f.wish
             /\ e.action = "partition_start" => g.wish.partitioned /\ g.draining = f.draining
             /\ e.action = "drain" => g.faults = f.faults
             /\ e.action = "drain" /\ heard /\ f.alive => g.draining
             /\ e.action = "partition_start" /\ heard /\ f.alive => g.faults.partitioned
             /\ heard /\ f.faults = f.wish /\ (g.alive \/ mode = "inprocess") => g.faults = g.wish
<1>0. f.generation \in Nat
  BY DEF Replica
<1>1. CASE e.action = "drain"
  <2>1. Struck(e, heard, f) = IF heard THEN Drained(f) ELSE f
    BY <1>1 DEF Struck
  <2> QED
    BY <1>0, <1>1, <2>1, DrainedFacts
<1>2. CASE e.action = "kill"
  <2>1. Struck(e, heard, f) = Killed(f)
    BY <1>2 DEF Struck
  <2> QED
    BY <1>0, <1>2, <2>1, KilledFacts
<1>3. CASE e.action = "partition_start"
  <2>1. Struck(e, heard, f) = Partitioned(f, TRUE, heard)
    BY <1>3 DEF Struck
  <2> DEFINE g == Partitioned(f, TRUE, heard)
  <2>2. /\ g \in Replica /\ g.alive = f.alive /\ g.generation = f.generation
        /\ g.draining = f.draining /\ g.wish.partitioned = TRUE
        /\ heard /\ (f.alive \/ mode = "inprocess") =>
             g.faults.partitioned = TRUE /\ (f.faults = f.wish => g.faults = g.wish)
    BY PartitionedFacts
  <2> HIDE DEF g
  <2>3. /\ g.generation >= f.generation /\ g.wish.partitioned
        /\ heard /\ f.alive => g.faults.partitioned
        /\ heard /\ f.faults = f.wish /\ (g.alive \/ mode = "inprocess") => g.faults = g.wish
    BY <1>0, <2>2
  <2>4. Struck(e, heard, f) = g
    BY <2>1 DEF g
  <2> QED
    BY <1>3, <2>2, <2>3, <2>4
<1> QED
  BY <1>1, <1>2, <1>3 DEF Down

\* A disruption, spelled out.
Disrupts(e, heard) ==
  /\ Advances(e) /\ e.action \in Down /\ Begin(e)
  /\ driver = NoEvent /\ phase = "load"
  /\ mode = "inprocess" \/ e.action = "kill" => heard
  /\ fleet' = [fleet EXCEPT ![e.target] = Struck(e, heard, @)]
  /\ trouble' = IF heard THEN trouble ELSE trouble \cup {e.target}
  /\ UNCHANGED <<mode, timeline, now, driver, req, phase>>

LEMMA DisruptIs ==
  ASSUME Types, Played, Disrupt
  PROVE  \E e : \E heard \in BOOLEAN : Disrupts(e, heard)
<1>1. PICK e : e = First(Pending)
  OBVIOUS
<1>2. PICK heard \in (IF e.action = "kill" THEN {TRUE} ELSE Heard(e.target)) :
           /\ fleet' = [fleet EXCEPT ![e.target] =
                CASE e.action = "drain" -> IF heard THEN Drained(@) ELSE @
                  [] e.action = "kill" -> Killed(@)
                  [] OTHER -> Partitioned(@, TRUE, heard)]
           /\ Note(e.target, heard)
  BY <1>1 DEF Disrupt
<1>3. heard \in BOOLEAN /\ (mode = "inprocess" \/ e.action = "kill" => heard)
  BY <1>2 DEF Heard
<1>4. /\ Due /\ e.action \in Down /\ Begin(e) /\ applied' = applied \cup {e}
      /\ UNCHANGED <<mode, timeline, now, driver, req, phase>>
  BY <1>1 DEF Disrupt
<1>5. Advances(e) /\ driver = NoEvent /\ phase = "load"
  BY <1>1, <1>4, DueFacts DEF Advances
<1>6. fleet' = [fleet EXCEPT ![e.target] = Struck(e, heard, @)]
  BY <1>2 DEF Struck
<1>7. trouble' = IF heard THEN trouble ELSE trouble \cup {e.target}
  BY <1>2 DEF Note
<1> QED
  BY <1>3, <1>4, <1>5, <1>6, <1>7 DEF Disrupts

LEMMA DisruptStep ==
  ASSUME CInv, Disrupt
  PROVE  CInv'
<1>0. \E e : \E heard \in BOOLEAN : Disrupts(e, heard)
  BY DisruptIs DEF CInv
<1>1. PICK e : \E heard \in BOOLEAN : Disrupts(e, heard)
  BY <1>0
<1>100. PICK heard \in BOOLEAN : Disrupts(e, heard)
  BY <1>1
<1> DEFINE w == e.target
<1>2. /\ Types /\ Played /\ Books /\ BooksOpen /\ Flight /\ Slain /\ InStep /\ Even /\ Ahead /\ AsLeft
      /\ Severed /\ Reported /\ DrainSpares
  BY DEF CInv
<1>3. /\ Advances(e) /\ e.action \in Down /\ Begin(e) /\ driver = NoEvent /\ phase = "load"
      /\ (mode = "inprocess" \/ e.action = "kill" => heard)
      /\ fleet' = [fleet EXCEPT ![w] = Struck(e, heard, @)]
      /\ trouble' = (IF heard THEN trouble ELSE trouble \cup {w})
      /\ mode' = mode /\ timeline' = timeline /\ now' = now /\ driver' = driver /\ req' = req /\ phase' = phase
  BY <1>100 DEF Disrupts
<1>4. /\ e \in timeline /\ e \notin applied /\ w \in Workers
      /\ applied' \subseteq timeline' /\ WellFormed(timeline')
      /\ Pending' = Pending \ {e} /\ applied' = applied \cup {e}
      /\ Mine(w)' = Mine(w) \cup {e}
      /\ Latest(w, e)' /\ (\A l : Latest(w, l)' => l = e)
      /\ \A v \in Workers \ {w} : Mine(v)' = Mine(v)
      /\ \A a \in applied', p \in Pending' : Before(a, p)
      /\ \A a \in applied : Before(a, e)
  BY <1>2, <1>3, Advance DEF Advances
<1>5. e.kind \in {"kill", "partition"} /\ WellFormed(timeline)
  BY <1>2, <1>4 DEF Types, WellFormed
<1>6. /\ disruptions' \in Seq(Disruption) /\ open' \in [Workers -> 0 .. Len(disruptions')]
      /\ Books' /\ BooksOpen' /\ open'[w] # 0
      /\ Len(disruptions) \in Nat /\ Len(disruptions') >= Len(disruptions)
      /\ \A v \in Workers \ {w} : open'[v] = open[v]
      /\ \A d \in DOMAIN disruptions : d \in DOMAIN disruptions' /\ disruptions'[d] = disruptions[d]
      /\ \A d \in DOMAIN disruptions' \ DOMAIN disruptions :
           /\ d > Len(disruptions) /\ disruptions'[d].target = w
           /\ disruptions'[d].state = "out" /\ disruptions'[d].proven
           /\ disruptions'[d].kind = e.kind
  BY <1>2, <1>3, <1>4, <1>5, BeginFacts
<1>7. fleet \in [Workers -> Replica] /\ mode \in {"inprocess", "subprocess"} /\ trouble \subseteq Workers
  BY <1>2 DEF Types
<1> DEFINE f == fleet[w]
           g == fleet'[w]
<1>8. /\ f \in Replica /\ g = Struck(e, heard, f) /\ fleet' \in [Workers -> Replica]
      /\ \A v \in Workers \ {w} : fleet'[v] = fleet[v]
  <2>1. Struck(e, heard, f) \in Replica
    BY <1>3, <1>4, <1>7, StruckFacts
  <2> QED
    BY <1>3, <1>4, <1>7, <2>1
<1>9. /\ g \in Replica /\ g.generation >= f.generation
      /\ e.action # "kill" => g.alive = f.alive /\ g.generation = f.generation
      /\ e.action = "kill" => /\ ~ g.alive
                              /\ f.alive => g.generation > f.generation
                              /\ ~ f.faults.partitioned => ~ g.faults.partitioned
      /\ e.action # "partition_start" => g.wish = f.wish
      /\ e.action = "partition_start" => g.wish.partitioned /\ g.draining = f.draining
      /\ e.action = "drain" => g.faults = f.faults
      /\ e.action = "drain" /\ heard /\ f.alive => g.draining
      /\ e.action = "partition_start" /\ heard /\ f.alive => g.faults.partitioned
      /\ heard /\ f.faults = f.wish /\ (g.alive \/ mode = "inprocess") => g.faults = g.wish
  <2> HIDE DEF g
  <2> QED
    BY <1>3, <1>7, <1>8, StruckFacts
<1>10. \A v \in Workers \ trouble' : v \notin trouble /\ (v = w => heard)
  BY <1>3
<1>11. NoEvent \notin applied /\ NoEvent \notin applied'
  BY <1>2, <1>4, NoEventFacts DEF Types
<1>12. \A v \in Workers : ~ Restoring(v) /\ ~ Restoring(v)'
  BY <1>3, <1>11 DEF Restoring
<1>13. e.action \in {"drain", "kill", "partition_start"}
  BY <1>3 DEF Down
<1> HIDE DEF w, f, g
<1>14. OnlyAt(w)
  <2>1. ~ g.alive => ~ f.alive \/ g.generation > f.generation
    BY <1>9
  <2> QED
    BY <1>8, <1>9, <2>1 DEF OnlyAt, f, g
<1>20. Types'
  <2>1. trouble' \subseteq Workers /\ (mode' = "inprocess" => trouble' = {})
    BY <1>2, <1>3, <1>4 DEF Types
  <2>2. driver' \in timeline' \cup {NoEvent}
    BY <1>3
  <2> QED
    BY <1>2, <1>3, <1>4, <1>6, <1>8, <2>1, <2>2 DEF Types
<1>21. Played'
  BY <1>3, <1>4 DEF Played
<1>22. /\ Flight'
       /\ \A r \in Requests : InFlight(r) /\ Cut(r) => Cut(r)'
  <2>1. Len(disruptions') \in Nat
    BY <1>6
  <2> QED
    BY <1>2, <1>3, <1>4, <1>6, <1>14, <2>1, FlightKept
<1>23. Slain'
  <2>1. ASSUME NEW v \in Workers, fleet'[v].generation > 0 \/ ~ fleet'[v].alive
        PROVE  \E x \in applied' : x.action = "kill" /\ x.target = v
    <3>1. CASE v = w /\ e.action = "kill"
      BY <1>4, <3>1 DEF w
    <3>2. CASE v # w \/ e.action # "kill"
      <4>1. fleet[v].generation > 0 \/ ~ fleet[v].alive
        BY <1>8, <1>9, <2>1, <3>2 DEF f, g
      <4>2. \E x \in applied : x.action = "kill" /\ x.target = v
        BY <1>2, <4>1 DEF Slain
      <4> QED
        BY <1>4, <4>2
    <3> QED
      BY <3>1, <3>2
  <2> QED
    BY <2>1 DEF Slain
<1>24. InStep'
  <2>1. ASSUME mode = "inprocess", NEW v \in Workers PROVE fleet'[v].faults = fleet'[v].wish
    <3>1. fleet[v].faults = fleet[v].wish /\ heard
      BY <1>2, <1>3, <2>1 DEF InStep
    <3>2. v = w => g.faults = g.wish
      BY <1>9, <2>1, <3>1 DEF f
    <3> QED
      BY <1>8, <3>1, <3>2 DEF g
  <2> QED
    BY <1>3, <2>1 DEF InStep
<1>25. Even'
  <2>1. ASSUME NEW v \in Workers \ trouble', fleet'[v].alive PROVE fleet'[v].faults = fleet'[v].wish
    <3>1. v \notin trouble /\ (v = w => heard)
      BY <1>10
    <3>2. fleet[v].alive
      BY <1>8, <1>9, <1>13, <2>1 DEF f, g
    <3>3. fleet[v].faults = fleet[v].wish
      BY <1>2, <1>3, <1>12, <3>1, <3>2 DEF Even
    <3> QED
      BY <1>8, <1>9, <2>1, <3>1, <3>3 DEF f, g
  <2> QED
    BY <2>1 DEF Even
<1>26. Ahead'
  <2> SUFFICES ASSUME Lasting(timeline), NEW v \in Workers \ trouble'
               PROVE  /\ ~fleet'[v].alive => \E x \in Pending' : x.action = "restart" /\ x.target = v
                      /\ fleet'[v].alive /\ fleet'[v].draining => \E x \in Pending' : x.action = "kill" /\ x.target = v
                      /\ fleet'[v].wish.partitioned => \E x \in Pending' : x.action = "partition_end" /\ x.target = v
    BY <1>3 DEF Ahead
  <2>1. /\ ~fleet[v].alive => \E x \in Pending : x.action = "restart" /\ x.target = v
        /\ fleet[v].alive /\ fleet[v].draining => \E x \in Pending : x.action = "kill" /\ x.target = v
        /\ fleet[v].wish.partitioned => \E x \in Pending : x.action = "partition_end" /\ x.target = v
    BY <1>2, <1>10 DEF Ahead
  <2>2. \A x \in Pending : x.action \in {"restart", "partition_end"} \/ x.target # w => x \in Pending'
    BY <1>4, <1>13 DEF w
  <2>3. \A x \in timeline : e.t < x.t => x \in Pending'
    <3>1. ASSUME NEW x \in timeline, e.t < x.t PROVE x \in Pending'
      <4>1. Before(e, x)
        BY <1>4, <1>5, <3>1, OrderFacts
      <4>2. x \notin applied /\ x # e
        BY <1>4, <1>5, <4>1, OrderFacts
      <4> QED
        BY <1>4, <4>2 DEF Pending
    <3> QED
      BY <3>1
  <2>4. CASE v # w
    BY <1>8, <2>1, <2>2, <2>4
  <2>5. CASE v = w
    <3>1. PICK c \in timeline : /\ c.id = e.id /\ c.action \in Up /\ c.target = w
                                /\ c.action = "restart" <=> e.action \in {"drain", "kill", "restart"}
                                /\ \A x \in timeline : x.id = e.id =>
                                     (x.action \in Down => x.t < c.t) /\ (x.action \in Up => x = c)
      BY <1>4, <1>5, Closing DEF w
    <3>2. c \in Pending'
      BY <1>3, <1>4, <2>3, <3>1
    <3>3. CASE e.action = "kill"
      <4>1. c.action = "restart"
        BY <3>1, <3>3
      <4>2. ~ g.alive /\ g.wish = f.wish
        BY <1>9, <3>3
      <4> QED
        BY <2>1, <2>2, <2>5, <3>1, <3>2, <4>1, <4>2 DEF f, g
    <3>4. CASE e.action = "drain"
      <4>1. PICK k \in timeline : k.id = e.id /\ k.action = "kill" /\ e.t < k.t
        BY <1>4, <1>5, <3>4 DEF WellFormed
      <4>2. k \in Pending' /\ k.target = w
        <5>1. \A a, b \in timeline : a.id = b.id => a.target = b.target
          BY <1>5 DEF WellFormed
        <5> QED
          BY <1>4, <2>3, <4>1, <5>1 DEF w
      <4>3. g.alive = f.alive /\ g.wish = f.wish
        BY <1>9, <3>4
      <4> QED
        BY <2>1, <2>2, <2>5, <4>1, <4>2, <4>3 DEF f, g
    <3>5. CASE e.action = "partition_start"
      <4>1. c.action = "partition_end"
        BY <3>1, <3>5 DEF Up
      <4>2. g.alive = f.alive /\ g.draining = f.draining
        BY <1>9, <3>5
      <4>3. \A x \in Pending : x.action = "kill" => x \in Pending'
        BY <1>4, <3>5
      <4> QED
        BY <2>1, <2>2, <2>5, <3>1, <3>2, <4>1, <4>2, <4>3 DEF f, g
    <3> QED
      BY <1>13, <3>3, <3>4, <3>5
  <2> QED
    BY <2>4, <2>5
<1>27. ASSUME Clean(timeline), w \notin trouble, heard PROVE Left(w)'
  <2>1. /\ e.action \in {"drain", "partition_start"} => Healthy(w)
        /\ e.action = "kill" => Healthy(w) \/ AfterDrain(w)
    BY <1>2, <1>3, <1>27, Finds DEF w
  <2>2. /\ Healthy(w) => f.alive /\ ~ f.draining /\ ~ f.faults.partitioned /\ ~ f.wish.partitioned
        /\ AfterDrain(w) => f.alive /\ ~ f.faults.partitioned /\ ~ f.wish.partitioned
    BY DEF Healthy, AfterDrain, f
  <2>3. e \in Mine(w)'
    BY <1>4
  <2>4. CASE e.action = "drain"
    <3>1. g.alive /\ g.draining /\ ~ g.faults.partitioned /\ ~ g.wish.partitioned
      BY <1>9, <1>27, <2>1, <2>2, <2>4
    <3>2. AfterDrain(w)'
      BY <1>4, <1>6, <2>3, <2>4, <3>1 DEF AfterDrain, g
    <3> QED
      BY <3>2 DEF Left
  <2>5. CASE e.action = "kill"
    <3>1. ~ g.alive /\ ~ g.faults.partitioned /\ ~ g.wish.partitioned
      BY <1>9, <2>1, <2>2, <2>5
    <3>2. AfterKill(w)'
      BY <1>4, <1>6, <2>3, <2>5, <3>1 DEF AfterKill, g
    <3> QED
      BY <3>2 DEF Left
  <2>6. CASE e.action = "partition_start"
    <3>1. g.alive /\ ~ g.draining /\ g.faults.partitioned /\ g.wish.partitioned
      BY <1>9, <1>27, <2>1, <2>2, <2>6
    <3>2. CutOff(w)'
      BY <1>4, <1>6, <2>3, <2>6, <3>1 DEF CutOff, g
    <3> QED
      BY <3>2 DEF Left
  <2> QED
    BY <1>13, <2>4, <2>5, <2>6
<1>28. AsLeft'
  <2>1. ASSUME Clean(timeline), NEW v \in Workers \ trouble', v # w PROVE Left(v)'
    <3>1. Left(v)
      BY <1>2, <1>10, <2>1 DEF AsLeft
    <3> QED
      BY <1>3, <1>4, <1>6, <1>8, <1>12, <2>1, <3>1, LeftKept
  <2> QED
    BY <1>3, <1>10, <1>27, <2>1 DEF AsLeft
<1>29. Severed'
  <2>1. ASSUME Clean(timeline) PROVE SeveredAt(w)'
    <3> SUFFICES ASSUME NEW d \in DOMAIN disruptions', NEW r \in Requests,
                        disruptions'[d].kind = "kill", InFlight(r)',
                        req'[r].on = w, disruptions'[d].target = w, req'[r].born < d
                 PROVE  Cut(r)' \/ (/\ disruptions'[d].state = "out"
                                    /\ \E l \in Mine(w)' : Latest(w, l)' /\ l.action = "drain")
      BY DEF SeveredAt
    <3>1. InFlight(r) /\ req[r].on = w /\ req[r].born < d
      BY <1>3 DEF InFlight
    <3>2. CASE e.action = "kill"
      <4>1. Cut(r)'
        BY <1>3, <1>9, <3>1, <3>2 DEF Cut, g
      <4> QED
        BY <4>1
    <3>3. CASE e.action = "drain"
      <4>1. \E l \in Mine(w)' : Latest(w, l)' /\ l.action = "drain"
        BY <1>4, <3>3
      <4>2. CASE d \notin DOMAIN disruptions
        BY <1>6, <4>1, <4>2
      <4>3. CASE d \in DOMAIN disruptions
        <5>1. Cut(r) \/ disruptions[d].state = "out"
          BY <1>2, <1>6, <2>1, <3>1, <4>3 DEF Severed
        <5> QED
          BY <1>6, <1>22, <3>1, <4>1, <4>3, <5>1
      <4> QED
        BY <4>2, <4>3
    <3>4. CASE e.action = "partition_start"
      <4>1. e.kind # "kill"
        BY <1>4, <1>5, <3>4 DEF WellFormed
      <4>2. d \in DOMAIN disruptions /\ disruptions'[d] = disruptions[d]
        BY <1>6, <4>1
      <4>3. \A l : Latest(w, l) => l.action # "drain"
        BY <1>2, <1>3, <2>1, <3>4, Follows DEF w, Up
      <4>4. Cut(r)
        BY <1>2, <2>1, <3>1, <4>2, <4>3 DEF Severed
      <4> QED
        BY <1>22, <3>1, <4>4
    <3> QED
      BY <1>13, <3>2, <3>3, <3>4
  <2>2. \A d \in DOMAIN disruptions' : disruptions'[d].target # w =>
            d \in DOMAIN disruptions /\ disruptions'[d] = disruptions[d]
    BY <1>6
  <2> QED
    BY <1>2, <1>3, <1>4, <1>14, <2>1, <2>2, SeveredKept
<1>30. Reported'
  BY <1>2, <1>3, <1>6 DEF Reported
<1>31. DrainSpares'
  BY <1>2, <1>3, <1>4 DEF DrainSpares
<1> QED
  BY <1>6, <1>20, <1>21, <1>22, <1>23, <1>24, <1>25, <1>26, <1>28, <1>29, <1>30, <1>31 DEF CInv

----------------------------------------------------------------------------
(* Reconnect                                                               *)

Reconnects(e, heard) ==
  /\ Advances(e) /\ e.action = "partition_end" /\ Close(e.target)
  /\ driver = NoEvent /\ phase = "load"
  /\ mode = "inprocess" => heard
  /\ fleet' = [fleet EXCEPT ![e.target] = Partitioned(@, FALSE, heard)]
  /\ trouble' = IF heard THEN trouble ELSE trouble \cup {e.target}
  /\ UNCHANGED <<mode, timeline, now, driver, req, phase>>

LEMMA ReconnectIs ==
  ASSUME Types, Played, Reconnect
  PROVE  \E e : \E heard \in BOOLEAN : Reconnects(e, heard)
<1>1. PICK e : e = First(Pending)
  OBVIOUS
<1>2. PICK heard \in Heard(e.target) :
           fleet' = [fleet EXCEPT ![e.target] = Partitioned(@, FALSE, heard)] /\ Note(e.target, heard)
  BY <1>1 DEF Reconnect
<1>3. heard \in BOOLEAN /\ (mode = "inprocess" => heard)
  BY <1>2 DEF Heard
<1>4. /\ Due /\ e.action = "partition_end" /\ Close(e.target) /\ applied' = applied \cup {e}
      /\ UNCHANGED <<mode, timeline, now, driver, req, phase>>
  BY <1>1 DEF Reconnect
<1>5. Advances(e) /\ driver = NoEvent /\ phase = "load"
  BY <1>1, <1>4, DueFacts DEF Advances
<1>6. trouble' = IF heard THEN trouble ELSE trouble \cup {e.target}
  BY <1>2 DEF Note
<1> QED
  BY <1>2, <1>3, <1>4, <1>5, <1>6 DEF Reconnects

LEMMA ReconnectStep ==
  ASSUME CInv, Reconnect
  PROVE  CInv'
<1>0. \E e : \E heard \in BOOLEAN : Reconnects(e, heard)
  BY ReconnectIs DEF CInv
<1>1. PICK e : \E heard \in BOOLEAN : Reconnects(e, heard)
  BY <1>0
<1>100. PICK heard \in BOOLEAN : Reconnects(e, heard)
  BY <1>1
<1> DEFINE w == e.target
<1>2. /\ Types /\ Played /\ Books /\ BooksOpen /\ Flight /\ Slain /\ InStep /\ Even /\ Ahead /\ AsLeft
      /\ Severed /\ Reported /\ DrainSpares
  BY DEF CInv
<1>3. /\ Advances(e) /\ e.action = "partition_end" /\ Close(w) /\ driver = NoEvent /\ phase = "load"
      /\ (mode = "inprocess" => heard)
      /\ fleet' = [fleet EXCEPT ![w] = Partitioned(@, FALSE, heard)]
      /\ trouble' = (IF heard THEN trouble ELSE trouble \cup {w})
      /\ mode' = mode /\ timeline' = timeline /\ now' = now /\ driver' = driver /\ req' = req /\ phase' = phase
  BY <1>100 DEF Reconnects
<1>4. /\ e \in timeline /\ e \notin applied /\ w \in Workers
      /\ applied' \subseteq timeline' /\ WellFormed(timeline')
      /\ Pending' = Pending \ {e} /\ applied' = applied \cup {e}
      /\ Mine(w)' = Mine(w) \cup {e}
      /\ Latest(w, e)' /\ (\A l : Latest(w, l)' => l = e)
      /\ \A v \in Workers \ {w} : Mine(v)' = Mine(v)
      /\ \A a \in applied', p \in Pending' : Before(a, p)
      /\ \A a \in applied : Before(a, e)
  BY <1>2, <1>3, Advance DEF Advances
<1>6. /\ disruptions' \in Seq(Disruption) /\ open' \in [Workers -> 0 .. Len(disruptions')]
      /\ Books' /\ BooksOpen' /\ open'[w] = 0
      /\ Len(disruptions') = Len(disruptions) /\ DOMAIN disruptions' = DOMAIN disruptions
      /\ \A v \in Workers \ {w} : open'[v] = open[v]
      /\ \A d \in DOMAIN disruptions :
           /\ disruptions'[d].target = disruptions[d].target
           /\ disruptions'[d].kind = disruptions[d].kind
           /\ disruptions'[d].proven = disruptions[d].proven
           /\ disruptions[d].target # w => disruptions'[d] = disruptions[d]
  BY <1>2, <1>3, <1>4, CloseFacts
<1>7. fleet \in [Workers -> Replica] /\ mode \in {"inprocess", "subprocess"} /\ trouble \subseteq Workers
  BY <1>2 DEF Types
<1> DEFINE f == fleet[w]
           g == fleet'[w]
<1>8. /\ f \in Replica /\ g = Partitioned(f, FALSE, heard) /\ fleet' \in [Workers -> Replica]
      /\ \A v \in Workers \ {w} : fleet'[v] = fleet[v]
  <2>1. Partitioned(f, FALSE, heard) \in Replica
    BY <1>4, <1>7, PartitionedFacts
  <2> QED
    BY <1>3, <1>4, <1>7, <2>1
<1>9. /\ g.alive = f.alive /\ g.generation = f.generation /\ g.draining = f.draining
      /\ ~ g.wish.partitioned
      /\ heard /\ f.alive => ~ g.faults.partitioned
      /\ heard /\ (f.alive \/ mode = "inprocess") => (f.faults = f.wish => g.faults = g.wish)
  <2> HIDE DEF g
  <2>1. /\ g.alive = f.alive /\ g.generation = f.generation
        /\ g.draining = f.draining /\ g.wish.partitioned = FALSE
        /\ heard /\ (f.alive \/ mode = "inprocess") =>
             g.faults.partitioned = FALSE /\ (f.faults = f.wish => g.faults = g.wish)
    BY <1>7, <1>8, PartitionedFacts
  <2> QED
    BY <2>1
<1>10. \A v \in Workers \ trouble' : v \notin trouble /\ (v = w => heard)
  BY <1>3
<1>11. NoEvent \notin applied /\ NoEvent \notin applied'
  BY <1>2, <1>4, NoEventFacts DEF Types
<1>12. \A v \in Workers : ~ Restoring(v) /\ ~ Restoring(v)'
  BY <1>3, <1>11 DEF Restoring
<1>13. Len(disruptions) \in Nat /\ f.generation \in Nat
  BY <1>2, <1>8 DEF Types, Replica
<1> HIDE DEF w, f, g
<1>14. OnlyAt(w)
  <2>1. g.generation >= f.generation
    BY <1>9, <1>13
  <2> QED
    BY <1>8, <1>9, <2>1 DEF OnlyAt, f, g
<1>20. Types'
  <2>1. trouble' \subseteq Workers /\ (mode' = "inprocess" => trouble' = {})
    BY <1>2, <1>3, <1>4 DEF Types
  <2>2. driver' \in timeline' \cup {NoEvent}
    BY <1>3
  <2> QED
    BY <1>2, <1>3, <1>4, <1>6, <1>8, <2>1, <2>2 DEF Types
<1>21. Played'
  BY <1>3, <1>4 DEF Played
<1>22. /\ Flight'
       /\ \A r \in Requests : InFlight(r) /\ Cut(r) => Cut(r)'
  <2>1. Len(disruptions') \in Nat /\ Len(disruptions') >= Len(disruptions)
    BY <1>6, <1>13
  <2> QED
    BY <1>2, <1>3, <1>4, <1>14, <2>1, FlightKept
<1>23. Slain'
  <2>1. \A v \in Workers : fleet'[v].generation = fleet[v].generation /\ fleet'[v].alive = fleet[v].alive
    BY <1>8, <1>9 DEF f, g
  <2> QED
    BY <1>2, <1>4, <2>1 DEF Slain
<1>24. InStep'
  <2>1. ASSUME mode = "inprocess", NEW v \in Workers PROVE fleet'[v].faults = fleet'[v].wish
    <3>1. fleet[v].faults = fleet[v].wish /\ heard
      BY <1>2, <1>3, <2>1 DEF InStep
    <3>2. v = w => g.faults = g.wish
      BY <1>9, <2>1, <3>1 DEF f
    <3> QED
      BY <1>8, <3>1, <3>2 DEF g
  <2> QED
    BY <1>3, <2>1 DEF InStep
<1>25. Even'
  <2>1. ASSUME NEW v \in Workers \ trouble', fleet'[v].alive PROVE fleet'[v].faults = fleet'[v].wish
    <3>1. v \notin trouble /\ (v = w => heard)
      BY <1>10
    <3>2. fleet[v].alive
      BY <1>8, <1>9, <2>1 DEF f, g
    <3>3. fleet[v].faults = fleet[v].wish
      BY <1>2, <1>3, <1>12, <3>1, <3>2 DEF Even
    <3>4. v = w => g.faults = g.wish
      BY <1>9, <3>1, <3>2, <3>3 DEF f
    <3> QED
      BY <1>8, <3>3, <3>4 DEF g
  <2> QED
    BY <2>1 DEF Even
<1>26. Ahead'
  <2> SUFFICES ASSUME Lasting(timeline), NEW v \in Workers \ trouble'
               PROVE  /\ ~fleet'[v].alive => \E x \in Pending' : x.action = "restart" /\ x.target = v
                      /\ fleet'[v].alive /\ fleet'[v].draining => \E x \in Pending' : x.action = "kill" /\ x.target = v
                      /\ fleet'[v].wish.partitioned => \E x \in Pending' : x.action = "partition_end" /\ x.target = v
    BY <1>3 DEF Ahead
  <2>1. /\ ~fleet[v].alive => \E x \in Pending : x.action = "restart" /\ x.target = v
        /\ fleet[v].alive /\ fleet[v].draining => \E x \in Pending : x.action = "kill" /\ x.target = v
        /\ fleet[v].wish.partitioned => \E x \in Pending : x.action = "partition_end" /\ x.target = v
    BY <1>2, <1>10 DEF Ahead
  <2>2. \A x \in Pending : x.action \in {"restart", "kill"} \/ x.target # w => x \in Pending'
    BY <1>3, <1>4 DEF w
  <2>4. CASE v # w
    BY <1>8, <2>1, <2>2, <2>4
  <2>5. CASE v = w
    BY <1>9, <2>1, <2>2, <2>5 DEF f, g
  <2> QED
    BY <2>4, <2>5
<1>27. ASSUME Clean(timeline), w \notin trouble, heard PROVE Left(w)'
  <2>1. CutOff(w)
    BY <1>2, <1>3, <1>27, Finds DEF w
  <2>2. f.alive /\ ~ f.draining
    BY <2>1 DEF CutOff, f
  <2>3. e \in Mine(w)' /\ e.action \in Up
    BY <1>3, <1>4 DEF Up
  <2>4. g.alive /\ ~ g.draining /\ ~ g.faults.partitioned /\ ~ g.wish.partitioned
    BY <1>9, <1>27, <2>2
  <2>5. Healthy(w)'
    BY <1>4, <1>6, <1>12, <2>3, <2>4 DEF Healthy, g
  <2> QED
    BY <2>5 DEF Left
<1>28. AsLeft'
  <2>1. ASSUME Clean(timeline), NEW v \in Workers \ trouble', v # w PROVE Left(v)'
    <3>1. Left(v)
      BY <1>2, <1>10, <2>1 DEF AsLeft
    <3> QED
      BY <1>3, <1>4, <1>6, <1>8, <1>12, <2>1, <3>1, LeftKept
  <2> QED
    BY <1>3, <1>10, <1>27, <2>1 DEF AsLeft
<1>29. Severed'
  <2>1. ASSUME Clean(timeline) PROVE SeveredAt(w)'
    <3> SUFFICES ASSUME NEW d \in DOMAIN disruptions', NEW r \in Requests,
                        disruptions'[d].kind = "kill", InFlight(r)',
                        req'[r].on = w, disruptions'[d].target = w, req'[r].born < d
                 PROVE  Cut(r)'
      BY DEF SeveredAt
    <3>1. InFlight(r) /\ req[r].on = w /\ req[r].born < d
      BY <1>3 DEF InFlight
    <3>2. d \in DOMAIN disruptions /\ disruptions[d].kind = "kill" /\ disruptions[d].target = w
      BY <1>6
    <3>3. \A l : Latest(w, l) => l.action # "drain"
      BY <1>2, <1>3, <2>1, Follows DEF w
    <3>4. Cut(r)
      BY <1>2, <2>1, <3>1, <3>2, <3>3 DEF Severed
    <3> QED
      BY <1>22, <3>1, <3>4
  <2>2. \A d \in DOMAIN disruptions' : disruptions'[d].target # w =>
            d \in DOMAIN disruptions /\ disruptions'[d] = disruptions[d]
    BY <1>6
  <2> QED
    BY <1>2, <1>3, <1>4, <1>14, <2>1, <2>2, SeveredKept
<1>30. Reported'
  BY <1>2, <1>3, <1>6 DEF Reported
<1>31. DrainSpares'
  BY <1>2, <1>3, <1>4 DEF DrainSpares
<1> QED
  BY <1>6, <1>20, <1>21, <1>22, <1>23, <1>24, <1>25, <1>26, <1>28, <1>29, <1>30, <1>31 DEF CInv

----------------------------------------------------------------------------
(* Restart                                                                 *)

LEMMA RestartStep ==
  ASSUME CInv, Restart
  PROVE  CInv'
<1>1. PICK e : e = First(Pending)
  OBVIOUS
<1>2. /\ Types /\ Played /\ Books /\ BooksOpen /\ Flight /\ Slain /\ InStep /\ Even /\ Ahead /\ AsLeft
      /\ Severed /\ Reported /\ DrainSpares
  BY DEF CInv
<1>3. /\ Due /\ e.action = "restart" /\ driver' = e
      /\ mode' = mode /\ timeline' = timeline /\ now' = now /\ applied' = applied /\ fleet' = fleet
      /\ trouble' = trouble /\ open' = open /\ disruptions' = disruptions /\ req' = req /\ phase' = phase
  BY <1>1 DEF Restart
<1>4. /\ e \in Pending /\ (\A p \in Pending \ {e} : Before(e, p))
      /\ driver = NoEvent /\ phase = "load"
  BY <1>1, <1>2, <1>3, DueFacts
<1>5. e \in timeline /\ e \notin applied /\ Pending' = Pending
  BY <1>3, <1>4 DEF Pending
<1>6. NoEvent \notin applied
  BY <1>2, NoEventFacts DEF Types
<1>7. \A v \in Workers : ~ Restoring(v) /\ ~ Restoring(v)' /\ Mine(v)' = Mine(v)
  BY <1>3, <1>4, <1>5, <1>6 DEF Restoring, Mine
<1>8. \A r \in Requests : (InFlight(r)' <=> InFlight(r)) /\ (Cut(r)' <=> Cut(r))
  BY <1>3 DEF InFlight, Cut
<1>9. Types'
  BY <1>2, <1>3, <1>5 DEF Types
<1>10. Played'
  BY <1>2, <1>3, <1>4, <1>5 DEF Played
<1>11. Books' /\ BooksOpen' /\ Slain' /\ InStep' /\ Reported' /\ DrainSpares'
  BY <1>2, <1>3 DEF Books, BooksOpen, Slain, InStep, Reported, DrainSpares
<1>12. Flight'
  BY <1>2, <1>3, <1>8 DEF Flight
<1>13. Even' /\ Ahead'
  BY <1>2, <1>3, <1>5, <1>7 DEF Even, Ahead
<1>14. AsLeft'
  <2>1. ASSUME NEW v \in Workers, Left(v) PROVE Left(v)'
    BY <1>3, <1>7, <2>1, LeftKept
  <2> QED
    BY <1>2, <1>3, <2>1 DEF AsLeft
<1>15. Severed'
  <2>1. \A v, l : Mine(v)' = Mine(v) /\ (Latest(v, l)' <=> Latest(v, l))
    BY <1>3 DEF Mine, Latest
  <2> QED
    BY <1>2, <1>3, <1>8, <2>1 DEF Severed
<1> QED
  BY <1>9, <1>10, <1>11, <1>12, <1>13, <1>14, <1>15 DEF CInv

----------------------------------------------------------------------------
(* Ready                                                                   *)

LEMMA ReadyStep ==
  ASSUME CInv, Ready
  PROVE  CInv'
<1>1. PICK e : e = driver
  OBVIOUS
<1> DEFINE w == e.target
<1>2. /\ Types /\ Played /\ Books /\ BooksOpen /\ Flight /\ Slain /\ InStep /\ Even /\ Ahead /\ AsLeft
      /\ Severed /\ Reported /\ DrainSpares
  BY DEF CInv
<1>3. /\ driver = e /\ driver' = e /\ e # NoEvent /\ e \notin applied /\ applied' = applied \cup {e}
      /\ fleet' = [fleet EXCEPT ![w] = Revived(@)]
      /\ mode' = mode /\ timeline' = timeline /\ now' = now /\ trouble' = trouble /\ open' = open
      /\ disruptions' = disruptions /\ req' = req /\ phase' = phase
  BY <1>1 DEF Ready
<1>5. e.action = "restart" /\ phase = "load" /\ Advances(e)
  BY <1>2, <1>3 DEF Played, Types, Pending, Advances
<1>4. /\ e \in timeline /\ w \in Workers
      /\ applied' \subseteq timeline' /\ WellFormed(timeline')
      /\ Pending' = Pending \ {e}
      /\ Mine(w)' = Mine(w) \cup {e}
      /\ Latest(w, e)' /\ (\A l : Latest(w, l)' => l = e)
      /\ \A v \in Workers \ {w} : Mine(v)' = Mine(v)
      /\ \A a \in applied', p \in Pending' : Before(a, p)
      /\ \A a \in applied : Before(a, e)
  BY <1>2, <1>5, Advance
<1>7. fleet \in [Workers -> Replica] /\ mode \in {"inprocess", "subprocess"} /\ trouble \subseteq Workers
  BY <1>2 DEF Types
<1> DEFINE f == fleet[w]
           g == fleet'[w]
<1>8. /\ f \in Replica /\ g = Revived(f) /\ fleet' \in [Workers -> Replica]
      /\ \A v \in Workers \ {w} : fleet'[v] = fleet[v]
  <2>1. Revived(f) \in Replica
    BY <1>4, <1>7, RevivedFacts
  <2> QED
    BY <1>3, <1>4, <1>7, <2>1
<1>9. /\ g.alive /\ g.generation = f.generation /\ g.wish = f.wish
      /\ ~ f.alive => ~ g.draining
      /\ f.alive => g.faults = f.faults /\ (g.draining => f.draining)
      /\ mode = "inprocess" => g.faults = f.faults
      /\ mode = "subprocess" /\ ~ f.alive => g.faults = Calm
  <2> HIDE DEF g
  <2> QED
    BY <1>7, <1>8, RevivedFacts
<1>12. \A v \in Workers : ~ Restoring(v) /\ (Restoring(v)' <=> v = w)
  BY <1>3 DEF Restoring
<1>13. Len(disruptions) \in Nat /\ f.generation \in Nat
  BY <1>2, <1>8 DEF Types, Replica
<1> HIDE DEF w, f, g
<1>14. OnlyAt(w)
  <2>1. g.generation >= f.generation
    BY <1>9, <1>13
  <2> QED
    BY <1>8, <1>9, <2>1 DEF OnlyAt, f, g
<1>20. Types'
  BY <1>2, <1>3, <1>4, <1>8 DEF Types
<1>21. Played'
  <2>1. \A p \in Pending' \ {e} : Before(e, p)
    BY <1>3, <1>4
  <2>2. \A a \in applied' \ {e} : Before(a, e)
    BY <1>3, <1>4
  <2> QED
    BY <1>3, <1>4, <1>5, <2>1, <2>2 DEF Played
<1>22. /\ Flight'
       /\ \A r \in Requests : InFlight(r) /\ Cut(r) => Cut(r)'
  <2>1. Len(disruptions') \in Nat /\ Len(disruptions') >= Len(disruptions)
    BY <1>3, <1>13
  <2> QED
    BY <1>2, <1>3, <1>4, <1>14, <2>1, FlightKept
<1>23. Slain'
  <2>1. \A v \in Workers : fleet'[v].generation = fleet[v].generation /\ (~ fleet'[v].alive => ~ fleet[v].alive)
    BY <1>8, <1>9 DEF f, g
  <2> QED
    BY <1>2, <1>3, <2>1 DEF Slain
<1>24. InStep'
  <2>1. ASSUME mode = "inprocess", NEW v \in Workers PROVE fleet'[v].faults = fleet'[v].wish
    <3>1. fleet[v].faults = fleet[v].wish
      BY <1>2, <2>1 DEF InStep
    <3>2. v = w => g.faults = g.wish
      BY <1>9, <2>1, <3>1 DEF f
    <3> QED
      BY <1>8, <3>1, <3>2 DEF g
  <2> QED
    BY <1>3, <2>1 DEF InStep
<1>25. Even'
  <2>1. ASSUME NEW v \in Workers \ trouble, fleet'[v].alive
        PROVE  fleet'[v].faults = fleet'[v].wish \/ (v = w /\ fleet'[v].faults = Calm)
    <3>1. CASE ~ fleet[v].alive
      <4>1. v = w
        BY <1>8, <2>1, <3>1
      <4>2. CASE mode = "inprocess"
        BY <1>3, <1>24, <4>2 DEF InStep
      <4>3. CASE mode = "subprocess"
        BY <1>9, <3>1, <4>1, <4>3 DEF f, g
      <4> QED
        BY <1>7, <4>1, <4>2, <4>3
    <3>2. CASE fleet[v].alive
      <4>1. fleet[v].faults = fleet[v].wish
        BY <1>2, <1>5, <1>12, <3>2 DEF Even
      <4>2. v = w => g.faults = g.wish
        BY <1>9, <3>2, <4>1 DEF f
      <4> QED
        BY <1>8, <4>1, <4>2 DEF g
    <3> QED
      BY <3>1, <3>2
  <2> QED
    BY <1>3, <1>12, <2>1 DEF Even
<1>26. Ahead'
  <2> SUFFICES ASSUME Lasting(timeline), NEW v \in Workers \ trouble
               PROVE  /\ ~fleet'[v].alive => \E x \in Pending' : x.action = "restart" /\ x.target = v
                      /\ fleet'[v].alive /\ fleet'[v].draining => \E x \in Pending' : x.action = "kill" /\ x.target = v
                      /\ fleet'[v].wish.partitioned => \E x \in Pending' : x.action = "partition_end" /\ x.target = v
    BY <1>3 DEF Ahead
  <2>1. /\ ~fleet[v].alive => \E x \in Pending : x.action = "restart" /\ x.target = v
        /\ fleet[v].alive /\ fleet[v].draining => \E x \in Pending : x.action = "kill" /\ x.target = v
        /\ fleet[v].wish.partitioned => \E x \in Pending : x.action = "partition_end" /\ x.target = v
    BY <1>2 DEF Ahead
  <2>2. \A x \in Pending : x.action \in {"partition_end", "kill"} \/ x.target # w => x \in Pending'
    BY <1>4, <1>5 DEF w
  <2>4. CASE v # w
    BY <1>8, <2>1, <2>2, <2>4
  <2>5. CASE v = w
    BY <1>9, <2>1, <2>2, <2>5 DEF f, g
  <2> QED
    BY <2>4, <2>5
<1>27. ASSUME Clean(timeline), w \notin trouble PROVE Left(w)'
  <2>1. AfterKill(w)
    BY <1>2, <1>5, <1>27, Finds DEF w
  <2>2. ~ f.alive /\ ~ f.faults.partitioned /\ ~ f.wish.partitioned /\ open[w] # 0
    BY <2>1 DEF AfterKill, f
  <2>3. e \in Mine(w)' /\ e.action \in Up
    BY <1>4, <1>5 DEF Up
  <2>4. g.alive /\ ~ g.draining /\ ~ g.faults.partitioned /\ ~ g.wish.partitioned
    BY <1>7, <1>9, <2>2, CalmFacts
  <2>5. Healthy(w)'
    BY <1>3, <1>4, <1>12, <2>2, <2>3, <2>4 DEF Healthy, g
  <2> QED
    BY <2>5 DEF Left
<1>28. AsLeft'
  <2>1. ASSUME Clean(timeline), NEW v \in Workers \ trouble, v # w PROVE Left(v)'
    <3>1. Left(v)
      BY <1>2, <2>1 DEF AsLeft
    <3> QED
      BY <1>3, <1>4, <1>8, <1>12, <2>1, <3>1, LeftKept
  <2> QED
    BY <1>3, <1>27, <2>1 DEF AsLeft
<1>29. Severed'
  <2>1. ASSUME Clean(timeline) PROVE SeveredAt(w)'
    <3> SUFFICES ASSUME NEW d \in DOMAIN disruptions', NEW r \in Requests,
                        disruptions'[d].kind = "kill", InFlight(r)',
                        req'[r].on = w, disruptions'[d].target = w, req'[r].born < d
                 PROVE  Cut(r)'
      BY DEF SeveredAt
    <3>1. InFlight(r) /\ req[r].on = w /\ req[r].born < d
      BY <1>3 DEF InFlight
    <3>2. d \in DOMAIN disruptions /\ disruptions[d].kind = "kill" /\ disruptions[d].target = w
      BY <1>3
    <3>3. \A l : Latest(w, l) => l.action # "drain"
      BY <1>2, <1>5, <2>1, Follows DEF w
    <3>4. Cut(r)
      BY <1>2, <2>1, <3>1, <3>2, <3>3 DEF Severed
    <3> QED
      BY <1>22, <3>1, <3>4
  <2>2. \A d \in DOMAIN disruptions' : disruptions'[d].target # w =>
            d \in DOMAIN disruptions /\ disruptions'[d] = disruptions[d]
    BY <1>3
  <2> QED
    BY <1>2, <1>3, <1>4, <1>14, <2>1, <2>2, SeveredKept
<1>30. Reported' /\ Books' /\ BooksOpen'
  BY <1>2, <1>3 DEF Reported, Books, BooksOpen
<1>31. DrainSpares'
  BY <1>2, <1>3 DEF DrainSpares
<1> QED
  BY <1>20, <1>21, <1>22, <1>23, <1>24, <1>25, <1>26, <1>28, <1>29, <1>30, <1>31 DEF CInv

----------------------------------------------------------------------------
(* Restore and RestartFails                                                *)

LEMMA RestoreStep ==
  ASSUME CInv, Restore
  PROVE  CInv'
<1>1. PICK e : e = driver
  OBVIOUS
<1> DEFINE w == e.target
<1>2. /\ Types /\ Played /\ Books /\ BooksOpen /\ Flight /\ Slain /\ InStep /\ Even /\ Ahead /\ AsLeft
      /\ Severed /\ Reported /\ DrainSpares
  BY DEF CInv
<1>100. PICK heard \in Heard(w) :
           fleet' = [fleet EXCEPT ![w] = IF heard THEN Restored(@) ELSE @] /\ Note(w, heard)
  BY <1>1 DEF Restore
<1>3. /\ driver = e /\ driver' = NoEvent /\ e # NoEvent /\ e \in applied /\ applied' = applied
      /\ Close(w) /\ heard \in BOOLEAN /\ (mode = "inprocess" => heard)
      /\ fleet' = [fleet EXCEPT ![w] = IF heard THEN Restored(@) ELSE @]
      /\ trouble' = (IF heard THEN trouble ELSE trouble \cup {w})
      /\ mode' = mode /\ timeline' = timeline /\ now' = now /\ req' = req /\ phase' = phase
  BY <1>1, <1>100 DEF Restore, Heard, Note
<1>4. /\ e.action = "restart" /\ phase = "load" /\ WellFormed(timeline) /\ applied \subseteq timeline
      /\ \A a \in applied \ {e} : Before(a, e)
  BY <1>2, <1>3 DEF Played, Types
<1>5. w \in Workers /\ Pending' = Pending
  BY <1>3, <1>4 DEF WellFormed, Pending
<1>15. Latest(w, e) /\ \A l : Latest(w, l) => l = e
  <2>1. Latest(w, e)
    BY <1>3, <1>4 DEF Latest, Mine
  <2>2. ASSUME NEW l, Latest(w, l), l # e PROVE FALSE
    <3>1. l \in timeline /\ e \in timeline /\ Before(e, l) /\ Before(l, e)
      BY <1>3, <1>4, <2>1, <2>2 DEF Latest, Mine
    <3> QED
      BY <1>4, <3>1, OrderFacts
  <2> QED
    BY <2>1, <2>2
<1>6. /\ disruptions' \in Seq(Disruption) /\ open' \in [Workers -> 0 .. Len(disruptions')]
      /\ Books' /\ BooksOpen' /\ open'[w] = 0
      /\ Len(disruptions') = Len(disruptions) /\ DOMAIN disruptions' = DOMAIN disruptions
      /\ \A v \in Workers \ {w} : open'[v] = open[v]
      /\ \A d \in DOMAIN disruptions :
           /\ disruptions'[d].target = disruptions[d].target
           /\ disruptions'[d].kind = disruptions[d].kind
           /\ disruptions'[d].proven = disruptions[d].proven
           /\ disruptions[d].target # w => disruptions'[d] = disruptions[d]
  BY <1>2, <1>3, <1>5, CloseFacts
<1>7. fleet \in [Workers -> Replica] /\ mode \in {"inprocess", "subprocess"} /\ trouble \subseteq Workers
  BY <1>2 DEF Types
<1> DEFINE f == fleet[w]
           g == fleet'[w]
<1>8. /\ f \in Replica /\ g = (IF heard THEN Restored(f) ELSE f) /\ fleet' \in [Workers -> Replica]
      /\ \A v \in Workers \ {w} : fleet'[v] = fleet[v]
  <2>1. Restored(f) \in Replica
    BY <1>5, <1>7, RestoredFacts
  <2> QED
    BY <1>3, <1>5, <1>7, <2>1
<1>9. /\ g.alive = f.alive /\ g.generation = f.generation
      /\ g.draining = f.draining /\ g.wish = f.wish
      /\ g.faults = f.faults \/ g.faults = f.wish
      /\ heard /\ mode = "subprocess" /\ f.alive /\ f.faults \in {f.wish, Calm} => g.faults = f.wish
  <2> HIDE DEF g
  <2>1. CASE heard
    BY <1>8, <2>1, RestoredFacts
  <2>2. CASE ~ heard
    BY <1>8, <2>2
  <2> QED
    BY <2>1, <2>2
<1>10. \A v \in Workers \ trouble' : v \notin trouble /\ (v = w => heard)
  BY <1>3
<1>11. NoEvent \notin applied'
  BY <1>2, <1>3, NoEventFacts DEF Types
<1>12. /\ \A v \in Workers : Restoring(v) <=> v = w
       /\ \A v \in Workers : ~ Restoring(v)' /\ Mine(v)' = Mine(v)
  BY <1>3, <1>11 DEF Restoring, Mine
<1>13. Len(disruptions) \in Nat /\ f.generation \in Nat
  BY <1>2, <1>8 DEF Types, Replica
<1> HIDE DEF w, f, g
<1>14. OnlyAt(w)
  <2>1. g.generation >= f.generation
    BY <1>9, <1>13
  <2> QED
    BY <1>8, <1>9, <2>1 DEF OnlyAt, f, g
<1>20. Types'
  <2>1. trouble' \subseteq Workers /\ (mode' = "inprocess" => trouble' = {})
    BY <1>2, <1>3, <1>5 DEF Types
  <2> QED
    BY <1>2, <1>3, <1>6, <1>8, <2>1 DEF Types
<1>21. Played'
  BY <1>2, <1>3, <1>5 DEF Played
<1>22. /\ Flight'
       /\ \A r \in Requests : InFlight(r) /\ Cut(r) => Cut(r)'
  <2>1. Len(disruptions') \in Nat /\ Len(disruptions') >= Len(disruptions)
    BY <1>6, <1>13
  <2> QED
    BY <1>2, <1>3, <1>5, <1>14, <2>1, FlightKept
<1>23. Slain'
  <2>1. \A v \in Workers : fleet'[v].generation = fleet[v].generation /\ fleet'[v].alive = fleet[v].alive
    BY <1>8, <1>9 DEF f, g
  <2> QED
    BY <1>2, <1>3, <2>1 DEF Slain
<1>24. InStep'
  <2>1. ASSUME mode = "inprocess", NEW v \in Workers PROVE fleet'[v].faults = fleet'[v].wish
    <3>1. fleet[v].faults = fleet[v].wish
      BY <1>2, <2>1 DEF InStep
    <3>2. v = w => g.faults = g.wish
      BY <1>9, <3>1 DEF f
    <3> QED
      BY <1>8, <3>1, <3>2 DEF g
  <2> QED
    BY <1>3, <2>1 DEF InStep
<1>25. Even'
  <2>1. ASSUME NEW v \in Workers \ trouble', fleet'[v].alive PROVE fleet'[v].faults = fleet'[v].wish
    <3>1. v \notin trouble /\ (v = w => heard)
      BY <1>10
    <3>2. fleet[v].alive
      BY <1>8, <1>9, <2>1 DEF f, g
    <3>3. fleet[v].faults = fleet[v].wish \/ (v = w /\ fleet[v].faults = Calm)
      BY <1>2, <1>4, <1>12, <3>1, <3>2 DEF Even
    <3>4. CASE v # w
      BY <1>8, <3>3, <3>4
    <3>5. CASE v = w /\ mode = "subprocess"
      BY <1>9, <3>1, <3>2, <3>3, <3>5 DEF f, g
    <3>6. CASE v = w /\ mode = "inprocess"
      BY <1>3, <1>24, <3>6 DEF InStep
    <3> QED
      BY <1>7, <3>4, <3>5, <3>6
  <2> QED
    BY <2>1 DEF Even
<1>26. Ahead'
  <2>1. \A v \in Workers : /\ fleet'[v].alive = fleet[v].alive /\ fleet'[v].draining = fleet[v].draining
                           /\ fleet'[v].wish = fleet[v].wish
    BY <1>8, <1>9 DEF f, g
  <2> QED
    BY <1>2, <1>3, <1>5, <1>10, <2>1 DEF Ahead
<1>27. ASSUME Clean(timeline), w \notin trouble PROVE Left(w)'
  <2>1. Left(w)
    BY <1>2, <1>5, <1>27 DEF AsLeft
  <2>2. Healthy(w)
    BY <1>4, <1>15, <2>1 DEF Left, AfterDrain, AfterKill, CutOff
  <2>3. f.alive /\ ~ f.draining /\ ~ f.faults.partitioned /\ ~ f.wish.partitioned
    BY <2>2 DEF Healthy, f
  <2>4. g.alive /\ ~ g.draining /\ ~ g.faults.partitioned /\ ~ g.wish.partitioned
    BY <1>9, <2>3
  <2>5. Latest(w, e)' /\ e \in Mine(w)' /\ e.action \in Up
    BY <1>4, <1>5, <1>12, <1>15 DEF Latest, Up
  <2>6. Healthy(w)'
    BY <1>5, <1>6, <1>12, <2>4, <2>5 DEF Healthy, g
  <2> QED
    BY <2>6 DEF Left
<1>28. AsLeft'
  <2>1. ASSUME Clean(timeline), NEW v \in Workers \ trouble', v # w PROVE Left(v)'
    <3>1. Left(v)
      BY <1>2, <1>10, <2>1 DEF AsLeft
    <3> QED
      BY <1>3, <1>6, <1>8, <1>12, <2>1, <3>1, LeftKept
  <2> QED
    BY <1>3, <1>10, <1>27, <2>1 DEF AsLeft
<1>29. Severed'
  <2>1. ASSUME Clean(timeline) PROVE SeveredAt(w)'
    <3> SUFFICES ASSUME NEW d \in DOMAIN disruptions', NEW r \in Requests,
                        disruptions'[d].kind = "kill", InFlight(r)',
                        req'[r].on = w, disruptions'[d].target = w, req'[r].born < d
                 PROVE  Cut(r)'
      BY DEF SeveredAt
    <3>1. InFlight(r) /\ req[r].on = w /\ req[r].born < d
      BY <1>3 DEF InFlight
    <3>2. d \in DOMAIN disruptions /\ disruptions[d].kind = "kill" /\ disruptions[d].target = w
      BY <1>6
    <3>3. \A l : Latest(w, l) => l.action # "drain"
      BY <1>4, <1>15
    <3>4. Cut(r)
      BY <1>2, <2>1, <3>1, <3>2, <3>3 DEF Severed
    <3> QED
      BY <1>22, <3>1, <3>4
  <2>2. \A d \in DOMAIN disruptions' : disruptions'[d].target # w =>
            d \in DOMAIN disruptions /\ disruptions'[d] = disruptions[d]
    BY <1>6
  <2> QED
    BY <1>2, <1>3, <1>5, <1>12, <1>14, <2>1, <2>2, SeveredKept
<1>30. Reported'
  BY <1>2, <1>3, <1>6 DEF Reported
<1>31. DrainSpares'
  BY <1>2, <1>3 DEF DrainSpares
<1> QED
  BY <1>6, <1>20, <1>21, <1>22, <1>23, <1>24, <1>25, <1>26, <1>28, <1>29, <1>30, <1>31 DEF CInv

LEMMA RestartFailsStep ==
  ASSUME CInv, RestartFails
  PROVE  CInv'
<1>1. PICK e : e = driver
  OBVIOUS
<1> DEFINE w == e.target
<1>2. /\ Types /\ Played /\ Books /\ BooksOpen /\ Flight /\ Slain /\ InStep /\ Even /\ Ahead /\ AsLeft
      /\ Severed /\ Reported /\ DrainSpares
  BY DEF CInv
<1>3. /\ driver = e /\ driver' = NoEvent /\ e # NoEvent /\ e \notin applied /\ applied' = applied \cup {e}
      /\ mode = "subprocess" /\ trouble' = trouble \cup {w}
      /\ mode' = mode /\ timeline' = timeline /\ now' = now /\ fleet' = fleet /\ open' = open
      /\ disruptions' = disruptions /\ req' = req /\ phase' = phase
  BY <1>1 DEF RestartFails
<1>5. e.action = "restart" /\ phase = "load" /\ Advances(e)
  BY <1>2, <1>3 DEF Played, Types, Pending, Advances
<1>4. /\ e \in timeline /\ w \in Workers
      /\ applied' \subseteq timeline' /\ WellFormed(timeline')
      /\ Pending' = Pending \ {e}
      /\ Mine(w)' = Mine(w) \cup {e}
      /\ \A v \in Workers \ {w} : Mine(v)' = Mine(v)
      /\ \A a \in applied', p \in Pending' : Before(a, p)
  BY <1>2, <1>5, Advance
<1>6. NoEvent \notin applied'
  BY <1>2, <1>3, <1>4, NoEventFacts DEF Types
<1>12. \A v \in Workers : ~ Restoring(v) /\ ~ Restoring(v)'
  BY <1>3, <1>6 DEF Restoring
<1>13. \A r \in Requests : (InFlight(r)' <=> InFlight(r)) /\ (Cut(r)' <=> Cut(r))
  BY <1>3 DEF InFlight, Cut
<1>14. OnlyAt(w)
  <2>1. fleet[w].generation \in Nat /\ fleet \in [Workers -> Replica]
    BY <1>2, <1>4 DEF Types, Replica
  <2>2. fleet[w].generation >= fleet[w].generation
    BY <2>1
  <2> QED
    BY <1>3, <2>1, <2>2 DEF OnlyAt
<1> HIDE DEF w
<1>20. Types'
  <2>1. trouble' \subseteq Workers /\ (mode' = "inprocess" => trouble' = {})
    BY <1>2, <1>3, <1>4 DEF Types
  <2> QED
    BY <1>2, <1>3, <1>4, <2>1 DEF Types
<1>21. Played'
  BY <1>3, <1>4 DEF Played
<1>22. Flight'
  BY <1>2, <1>3, <1>13 DEF Flight
<1>23. Slain' /\ InStep' /\ Books' /\ BooksOpen'
  BY <1>2, <1>3 DEF Slain, InStep, Books, BooksOpen
<1>25. Even'
  BY <1>2, <1>3, <1>12 DEF Even
<1>26. Ahead'
  <2> SUFFICES ASSUME Lasting(timeline), NEW v \in Workers \ trouble'
               PROVE  /\ ~fleet[v].alive => \E x \in Pending' : x.action = "restart" /\ x.target = v
                      /\ fleet[v].alive /\ fleet[v].draining => \E x \in Pending' : x.action = "kill" /\ x.target = v
                      /\ fleet[v].wish.partitioned => \E x \in Pending' : x.action = "partition_end" /\ x.target = v
    BY <1>3 DEF Ahead
  <2>1. v \notin trouble /\ v # w
    BY <1>3
  <2>2. /\ ~fleet[v].alive => \E x \in Pending : x.action = "restart" /\ x.target = v
        /\ fleet[v].alive /\ fleet[v].draining => \E x \in Pending : x.action = "kill" /\ x.target = v
        /\ fleet[v].wish.partitioned => \E x \in Pending : x.action = "partition_end" /\ x.target = v
    BY <1>2, <2>1 DEF Ahead
  <2>3. \A x \in Pending : x.target # w => x \in Pending'
    BY <1>4 DEF w
  <2> QED
    BY <2>1, <2>2, <2>3
<1>28. AsLeft'
  <2>1. ASSUME Clean(timeline), NEW v \in Workers \ trouble' PROVE Left(v)'
    <3>1. v \notin trouble /\ v # w
      BY <1>3, <2>1
    <3>2. Left(v)
      BY <1>2, <2>1, <3>1 DEF AsLeft
    <3> QED
      BY <1>3, <1>4, <1>12, <3>1, <3>2, LeftKept
  <2> QED
    BY <1>3, <2>1 DEF AsLeft
<1>29. Severed'
  <2>1. ASSUME Clean(timeline) PROVE SeveredAt(w)'
    <3> SUFFICES ASSUME NEW d \in DOMAIN disruptions', NEW r \in Requests,
                        disruptions'[d].kind = "kill", InFlight(r)',
                        req'[r].on = w, disruptions'[d].target = w, req'[r].born < d
                 PROVE  Cut(r)'
      BY DEF SeveredAt
    <3>1. InFlight(r) /\ req[r].on = w /\ req[r].born < d
      BY <1>3, <1>13
    <3>2. d \in DOMAIN disruptions /\ disruptions[d].kind = "kill" /\ disruptions[d].target = w
      BY <1>3
    <3>3. \A l : Latest(w, l) => l.action # "drain"
      BY <1>2, <1>5, <2>1, Follows DEF w
    <3>4. Cut(r)
      BY <1>2, <2>1, <3>1, <3>2, <3>3 DEF Severed
    <3> QED
      BY <1>13, <3>4
  <2>2. \A d \in DOMAIN disruptions' : disruptions'[d].target # w =>
            d \in DOMAIN disruptions /\ disruptions'[d] = disruptions[d]
    BY <1>3
  <2> QED
    BY <1>2, <1>3, <1>4, <1>14, <2>1, <2>2, SeveredKept
<1>30. Reported' /\ DrainSpares'
  BY <1>2, <1>3 DEF Reported, DrainSpares
<1> QED
  BY <1>20, <1>21, <1>22, <1>23, <1>25, <1>26, <1>28, <1>29, <1>30 DEF CInv

----------------------------------------------------------------------------
(* The load                                                                *)

FlightOf(r) ==
  /\ req[r].on \notin req[r].tried
  /\ Cardinality(req[r].tried) <= MaxAttempts
  /\ req[r].at # "done" => req[r].cause = "none"
  /\ InFlight(r) =>
       /\ req[r].on \in Workers /\ Cardinality(req[r].tried) < MaxAttempts
       /\ req[r].generation <= fleet[req[r].on].generation
       /\ ~fleet[req[r].on].alive => req[r].generation < fleet[req[r].on].generation
       /\ req[r].born <= Len(disruptions)

\* What the load does to the books: recoveries, each of them earned.
Kept ==
  /\ disruptions' \in Seq(Disruption) /\ Len(disruptions') = Len(disruptions)
  /\ \A d \in DOMAIN disruptions :
       /\ disruptions'[d].target = disruptions[d].target
       /\ disruptions'[d].kind = disruptions[d].kind
       /\ disruptions'[d].state = "out" <=> disruptions[d].state = "out"
       /\ Clean(timeline) /\ disruptions[d].kind = "kill" /\ disruptions[d].proven => disruptions'[d].proven

Alone(r) ==
  /\ req' \in [Requests -> RequestState]
  /\ \A q \in Requests \ {r} : req'[q] = req[q]

\* A request goes on with its stream, or starts one that knows all disruptions.
Honest(r) ==
  InFlight(r)' => \/ req'[r].born = Len(disruptions)
                  \/ /\ InFlight(r) /\ req'[r].on = req[r].on
                     /\ req'[r].generation = req[r].generation /\ req'[r].born = req[r].born

\* A step of a request.
LEMMA LoadStep ==
  ASSUME CInv, NEW r \in Requests, Kept, Alone(r), Honest(r), FlightOf(r)',
         UNCHANGED <<mode, timeline, now, applied, driver, fleet, trouble, open, phase>>,
         Clean(timeline) /\ trouble = {} => ~ req'[r].missed,
         req'[r].cause = "interrupted" => \E e \in applied : e.action = "kill" /\ e.target = req'[r].on
  PROVE  CInv'
<1>1. /\ Types /\ Played /\ Books /\ BooksOpen /\ Flight /\ Slain /\ InStep /\ Even /\ Ahead /\ AsLeft
      /\ Severed /\ Reported /\ DrainSpares
  BY DEF CInv
<1>2. /\ mode' = mode /\ timeline' = timeline /\ now' = now /\ applied' = applied /\ driver' = driver
      /\ fleet' = fleet /\ trouble' = trouble /\ open' = open /\ phase' = phase /\ Pending' = Pending
  BY DEF Pending
<1>3. /\ disruptions \in Seq(Disruption) /\ Len(disruptions) \in Nat
      /\ DOMAIN disruptions = 1 .. Len(disruptions) /\ DOMAIN disruptions' = DOMAIN disruptions
      /\ Len(disruptions') = Len(disruptions) /\ open \in [Workers -> 0 .. Len(disruptions)]
  BY <1>1 DEF Types, Kept
<1>4. \A v \in Workers : (Restoring(v)' <=> Restoring(v)) /\ Mine(v)' = Mine(v)
  BY <1>2 DEF Restoring, Mine
<1>5. \A q \in Requests \ {r} : (InFlight(q)' <=> InFlight(q)) /\ (Cut(q)' <=> Cut(q)) /\ req'[q] = req[q]
  BY <1>2 DEF Alone, InFlight, Cut
<1>6. Types'
  BY <1>1, <1>2, <1>3 DEF Types, Kept, Alone
<1>7. Played' /\ Slain' /\ InStep' /\ Ahead'
  BY <1>1, <1>2 DEF Played, Slain, InStep, Ahead
<1>8. Even'
  BY <1>1, <1>2, <1>4 DEF Even
<1>9. AsLeft'
  <2>1. ASSUME NEW v \in Workers, Left(v) PROVE Left(v)'
    BY <1>2, <1>4, <2>1, LeftKept
  <2> QED
    BY <1>1, <1>2, <2>1 DEF AsLeft
<1>10. BooksOpen'
  <2>1. ASSUME NEW w \in Workers, open[w] # 0 PROVE disruptions'[open[w]].target = w
    <3>1. open[w] \in DOMAIN disruptions
      BY <1>3, <2>1
    <3> QED
      BY <1>1, <2>1, <3>1 DEF BooksOpen, Kept
  <2> QED
    BY <1>2, <2>1 DEF BooksOpen
<1>11. Books'
  BY <1>1, <1>2, <1>3 DEF Books, Kept
<1>12. Flight'
  <2>1. \A q \in Requests \ {r} : FlightOf(q)'
    BY <1>1, <1>2, <1>3, <1>5 DEF Flight, FlightOf
  <2>2. \A q \in Requests : FlightOf(q)'
    BY <2>1
  <2> QED
    BY <2>2 DEF Flight, FlightOf
<1>13. Severed'
  <2> SUFFICES ASSUME Clean(timeline),
                      NEW d \in DOMAIN disruptions, NEW q \in Requests,
                      disruptions'[d].kind = "kill", InFlight(q)',
                      req'[q].on = disruptions'[d].target, req'[q].born < d
               PROVE  Cut(q)' \/ (/\ disruptions'[d].state = "out"
                                  /\ \E l \in Mine(req[q].on)' : Latest(req[q].on, l)' /\ l.action = "drain")
    BY <1>2, <1>3 DEF Severed
  <2>1. InFlight(q) /\ req'[q].on = req[q].on /\ req'[q].generation = req[q].generation /\ req'[q].born = req[q].born
    <3>1. CASE q = r
      <4>1. d \in 1 .. Len(disruptions)
        BY <1>3
      <4>2. req'[r].born # Len(disruptions)
        BY <1>3, <3>1, <4>1
      <4> QED
        BY <3>1, <4>2 DEF Honest
    <3>2. CASE q # r
      BY <1>5, <3>2
    <3> QED
      BY <3>1, <3>2
  <2>2. Cut(q)' <=> Cut(q)
    BY <1>2, <2>1 DEF Cut
  <2>3. /\ disruptions'[d].target = disruptions[d].target /\ disruptions'[d].kind = disruptions[d].kind
        /\ disruptions'[d].state = "out" <=> disruptions[d].state = "out"
    BY DEF Kept
  <2>4. \/ Cut(q)
        \/ disruptions[d].state = "out" /\ \E l \in Mine(req[q].on) : Latest(req[q].on, l) /\ l.action = "drain"
    BY <1>1, <2>1, <2>3 DEF Severed
  <2>6. Mine(req[q].on)' = Mine(req[q].on) /\ \A l : Latest(req[q].on, l)' <=> Latest(req[q].on, l)
    BY <1>2, <2>1 DEF Mine, Latest
  <2> QED
    BY <2>2, <2>3, <2>4, <2>6
<1>14. Reported'
  <2>1. ASSUME Clean(timeline), NEW d \in DOMAIN disruptions, disruptions'[d].kind = "kill"
        PROVE  disruptions'[d].proven
    BY <1>1, <2>1 DEF Reported, Kept
  <2>2. ASSUME Clean(timeline), trouble = {}, NEW q \in Requests PROVE ~ req'[q].missed
    BY <1>1, <1>5, <2>2 DEF Reported
  <2> QED
    BY <1>2, <1>3, <2>1, <2>2 DEF Reported
<1>15. DrainSpares'
  <2>1. ASSUME NEW q \in Requests, req'[q].cause = "interrupted"
        PROVE  \E e \in applied : e.action = "kill" /\ e.target = req'[q].on
    BY <1>1, <1>5, <2>1 DEF DrainSpares
  <2> QED
    BY <1>2, <2>1 DEF DrainSpares
<1> QED
  BY <1>6, <1>7, <1>8, <1>9, <1>10, <1>11, <1>12, <1>13, <1>14, <1>15 DEF CInv

\* The books are not touched.
LEMMA KeptAsIs ==
  ASSUME Types, disruptions' = disruptions
  PROVE  Kept
BY DEF Types, Kept

LEMMA WorkersFinite ==
  IsFiniteSet(Workers)
<1>1. Fleet \in Seq({Fleet[i] : i \in DOMAIN Fleet})
  BY FleetAssumption
<1>2. Len(Fleet) \in Nat /\ DOMAIN Fleet = 1 .. Len(Fleet)
  BY <1>1
<1>3. IsFiniteSet(1 .. Len(Fleet))
  <2>1. 1 \in Int /\ Len(Fleet) \in Int
    BY <1>2
  <2> QED
    BY ONLY <2>1, FS_Interval
<1>4. Fleet \in Surjection(1 .. Len(Fleet), Workers)
  BY <1>1, <1>2 DEF Surjection, Workers
<1> QED
  BY <1>3, <1>4, FS_Surjection

LEMMA UnsentFacts ==
  /\ Unsent \in RequestState /\ Unsent.tried = {} /\ Unsent.cause = "none" /\ Unsent.on = Nobody
  /\ Unsent.missed = FALSE
  /\ Cardinality({}) = 0 /\ MaxAttempts \in Nat \ {0} /\ MaxTokens \in Nat \ {0}
<1>1. Cardinality({}) = 0 /\ MaxAttempts \in Nat \ {0} /\ MaxTokens \in Nat \ {0}
  BY FS_EmptySet, ChaosAssumption DEF ChaosSpecValid
<1> QED
  BY <1>1 DEF Unsent, RequestState

\* A request ends.
LEMMA EndedStep ==
  ASSUME CInv, NEW r \in Requests, NEW cause \in {"none", "unavailable", "interrupted", "timeout"},
         Ended(r, cause),
         UNCHANGED <<mode, timeline, now, applied, driver, fleet, trouble, open, phase>>,
         cause = "none" => InFlight(r) /\ ~ Cut(r),
         cause = "interrupted" => InFlight(r) /\ Cut(r)
  PROVE  CInv'
<1>1. /\ Types /\ Flight /\ Severed /\ Reported /\ Slain
  BY DEF CInv
<1> DEFINE q == [Unsent EXCEPT !.at = "done", !.cause = cause, !.missed = req[r].missed,
                               !.on = IF cause = "interrupted" THEN req[r].on ELSE Nobody]
<1>2. /\ req \in [Requests -> RequestState] /\ req[r] \in RequestState
      /\ req[r].missed \in BOOLEAN /\ req[r].on \in Workers \cup {Nobody} /\ req[r].born \in Nat
  BY <1>1 DEF Types, RequestState
<1>3. /\ q \in RequestState /\ q.at = "done" /\ q.cause = cause /\ q.missed = req[r].missed
      /\ q.on = (IF cause = "interrupted" THEN req[r].on ELSE Nobody) /\ q.tried = {}
  BY <1>2, UnsentFacts DEF RequestState
<1>4. req' = [req EXCEPT ![r] = q]
  BY DEF Ended
<1> HIDE DEF q
<1>5. req' \in [Requests -> RequestState] /\ req'[r] = q /\ \A p \in Requests \ {r} : req'[p] = req[p]
  BY <1>2, <1>3, <1>4
<1>6. Alone(r)
  BY <1>5 DEF Alone
<1>7. ~ InFlight(r)'
  BY <1>3, <1>5 DEF InFlight
<1>8. Honest(r)
  BY <1>7 DEF Honest
<1>9. FlightOf(r)'
  <2>1. req'[r].tried = {} /\ Cardinality(req'[r].tried) <= MaxAttempts
    BY <1>3, <1>5, UnsentFacts
  <2> QED
    BY <1>3, <1>5, <1>7, <2>1 DEF FlightOf
<1>10. Kept
  <2> DEFINE n == Len(disruptions)
             Due2(d) == cause = "none" /\ disruptions[d].target = req[r].on /\ Overdue(d)
             New(d) == [disruptions[d] EXCEPT !.state = "recovered", !.proven = req[r].born >= d]
  <2>1. /\ disruptions \in Seq(Disruption) /\ n \in Nat /\ DOMAIN disruptions = 1 .. n
        /\ \A d \in 1 .. n : disruptions[d] \in Disruption
    BY <1>1 DEF Types
  <2>2. disruptions' = [d \in 1 .. n |-> IF Due2(d) THEN New(d) ELSE disruptions[d]]
    BY <2>1 DEF Ended
  <2>3. ASSUME NEW d \in 1 .. n
        PROVE  /\ New(d) \in Disruption /\ New(d).target = disruptions[d].target
               /\ New(d).kind = disruptions[d].kind /\ New(d).state = "recovered"
               /\ New(d).proven = (req[r].born >= d)
    <3>1. disruptions[d] \in Disruption /\ (req[r].born >= d) \in BOOLEAN
      BY <2>1
    <3> QED
      BY <3>1 DEF Disruption
  <2>4. ASSUME NEW d \in 1 .. n, Due2(d), Clean(timeline), disruptions[d].kind = "kill"
        PROVE  req[r].born >= d
    <3>1. disruptions[d].state = "back" /\ InFlight(r) /\ ~ Cut(r) /\ req[r].on = disruptions[d].target
      BY <2>4 DEF Overdue
    <3>2. ~ (req[r].born < d)
      BY <1>1, <2>1, <2>4, <3>1 DEF Severed
    <3> QED
      BY <1>2, <3>2
  <2>5. \A d \in 1 .. n : Due2(d) => disruptions[d].state # "out"
    BY DEF Overdue
  <2> HIDE DEF New, Due2
  <2>6. \A d \in 1 .. n : disruptions'[d] = IF Due2(d) THEN New(d) ELSE disruptions[d]
    BY <2>2
  <2>7. disruptions' \in Seq(Disruption) /\ Len(disruptions') = n
    <3>1. disruptions' \in [1 .. n -> Disruption]
      BY <2>1, <2>2, <2>3
    <3> QED
      BY <2>1, <3>1
  <2>8. ASSUME NEW d \in 1 .. n
        PROVE  /\ disruptions'[d].target = disruptions[d].target
               /\ disruptions'[d].kind = disruptions[d].kind
               /\ disruptions'[d].state = "out" <=> disruptions[d].state = "out"
               /\ Clean(timeline) /\ disruptions[d].kind = "kill" /\ disruptions[d].proven => disruptions'[d].proven
    <3>1. CASE ~ Due2(d)
      BY <2>6, <3>1
    <3>2. CASE Due2(d)
      BY <2>3, <2>4, <2>5, <2>6, <3>2
    <3> QED
      BY <3>1, <3>2
  <2> QED
    BY <2>1, <2>7, <2>8 DEF Kept
<1>11. Clean(timeline) /\ trouble = {} => ~ req'[r].missed
  BY <1>1, <1>3, <1>5 DEF Reported
<1>12. ASSUME req'[r].cause = "interrupted"
       PROVE  \E e \in applied : e.action = "kill" /\ e.target = req'[r].on
  <2>1. cause = "interrupted" /\ req'[r].on = req[r].on /\ InFlight(r) /\ Cut(r)
    BY <1>3, <1>5, <1>12
  <2>2. /\ req[r].on \in Workers /\ req[r].generation <= fleet[req[r].on].generation
    BY <1>1, <2>1 DEF Flight
  <2>3. req[r].generation \in Nat /\ fleet[req[r].on].generation \in Nat
    BY <1>1, <1>2, <2>2 DEF Types, RequestState, Replica
  <2>4. fleet[req[r].on].generation > 0 \/ ~ fleet[req[r].on].alive
    BY <2>1, <2>2, <2>3 DEF Cut
  <2> QED
    BY <1>1, <2>1, <2>2, <2>4 DEF Slain
<1> QED
  BY <1>6, <1>8, <1>9, <1>10, <1>11, <1>12, LoadStep

\* A request goes on to another replica.
LEMMA ElsewhereStep ==
  ASSUME CInv, NEW r \in Requests, NEW w \in Workers, Elsewhere(r, w),
         UNCHANGED <<mode, timeline, now, applied, driver, fleet, trouble, open, phase>>,
         Cardinality(req[r].tried) < MaxAttempts
  PROVE  CInv'
<1>1. /\ Types /\ Flight /\ Severed /\ Reported /\ Slain
  BY DEF CInv
<1> DEFINE q == [Unsent EXCEPT !.at = "routing", !.tried = req[r].tried \cup {w}, !.missed = req[r].missed]
<1>2. /\ req \in [Requests -> RequestState] /\ req[r] \in RequestState
      /\ req[r].missed \in BOOLEAN /\ req[r].tried \in SUBSET Workers
  BY <1>1 DEF Types, RequestState
<1>3. /\ q \in RequestState /\ q.at = "routing" /\ q.cause = "none" /\ q.missed = req[r].missed
      /\ q.on = Nobody /\ q.tried = req[r].tried \cup {w}
  <2>1. req[r].tried \cup {w} \in SUBSET Workers
    BY <1>2
  <2> QED
    BY <1>2, <2>1, UnsentFacts DEF RequestState
<1>4. req' = [req EXCEPT ![r] = q] /\ disruptions' = disruptions
  BY DEF Elsewhere
<1> HIDE DEF q
<1>5. req' \in [Requests -> RequestState] /\ req'[r] = q /\ \A p \in Requests \ {r} : req'[p] = req[p]
  BY <1>2, <1>3, <1>4
<1>6. Alone(r)
  BY <1>5 DEF Alone
<1>7. ~ InFlight(r)'
  BY <1>3, <1>5 DEF InFlight
<1>8. Honest(r)
  BY <1>7 DEF Honest
<1>9. FlightOf(r)'
  <2> DEFINE T == req[r].tried
  <2>1. T \subseteq Workers /\ IsFiniteSet(T)
    BY <1>2, WorkersFinite, FS_Subset
  <2> HIDE DEF T
  <2>2. Cardinality(T) \in Nat
    BY <2>1, FS_CardinalityType
  <2>3. Cardinality(T \cup {w}) = IF w \in T THEN Cardinality(T) ELSE Cardinality(T) + 1
    BY <2>1, FS_AddElement
  <2>4. Cardinality(T \cup {w}) <= MaxAttempts
    <3>1. Cardinality(T) < MaxAttempts
      BY DEF T
    <3> QED
      BY <2>2, <2>3, <3>1, UnsentFacts
  <2>5. Nobody \notin T \cup {w}
    BY <2>1, ChaosNames
  <2> QED
    BY <1>3, <1>5, <1>7, <2>4, <2>5 DEF FlightOf, T
<1>10. Kept
  BY <1>1, <1>4, KeptAsIs
<1>11. Clean(timeline) /\ trouble = {} => ~ req'[r].missed
  BY <1>1, <1>3, <1>5 DEF Reported
<1>12. req'[r].cause # "interrupted"
  BY <1>3, <1>5
<1> QED
  BY <1>6, <1>8, <1>9, <1>10, <1>11, <1>12, LoadStep

\* A replica that is well serves, and one that is not has its disruption open.
LEMMA LeftFacts ==
  ASSUME NEW w \in Workers, Left(w)
  PROVE  /\ ~ Serving(w) => open[w] # 0
         /\ Healthy(w) => Serving(w)
         /\ ~ Healthy(w) => ~ Serving(w)
<1>1. Healthy(w) => Serving(w)
  BY DEF Healthy, Serving
<1>2. AfterDrain(w) => ~ Serving(w) /\ open[w] # 0
  BY DEF AfterDrain, Serving
<1>3. AfterKill(w) => ~ Serving(w) /\ open[w] # 0
  BY DEF AfterKill, Serving
<1>4. CutOff(w) => ~ Serving(w) /\ open[w] # 0
  BY DEF CutOff, Serving
<1> QED
  BY <1>1, <1>2, <1>3, <1>4 DEF Left

LEMMA SendStep ==
  ASSUME CInv, NEW r \in Requests, Send(r)
  PROVE  CInv'
<1>1. Types /\ Flight /\ AsLeft /\ Books /\ BooksOpen /\ DrainSpares
  BY DEF CInv
<1> DEFINE m == (\E w \in Workers : ~Serving(w)) /\ ~DuringFaults
           q == [req[r] EXCEPT !.at = "routing", !.missed = m]
<1>2. req \in [Requests -> RequestState] /\ req[r] \in RequestState /\ m \in BOOLEAN
  BY <1>1 DEF Types
<1>3. req' = [req EXCEPT ![r] = q] /\ disruptions' = disruptions /\ req[r].at = "new"
      /\ UNCHANGED <<mode, timeline, now, applied, driver, fleet, trouble, open, phase>>
  BY DEF Send
<1>4. ~ (Clean(timeline) /\ trouble = {} /\ m)
  <2> SUFFICES ASSUME Clean(timeline), trouble = {}, NEW w \in Workers, ~ Serving(w) PROVE DuringFaults
    OBVIOUS
  <2>1. open[w] # 0
    BY <1>1, LeftFacts DEF AsLeft
  <2>2. open[w] \in DOMAIN disruptions
    BY <1>1, <2>1 DEF Types
  <2>3. disruptions[open[w]].state = "out"
    BY <1>1, <2>1, <2>2 DEF Books, BooksOpen
  <2> QED
    BY <2>2, <2>3 DEF DuringFaults
<1> HIDE DEF m
<1>5. /\ q \in RequestState /\ q.at = "routing" /\ q.missed = m /\ q.on = req[r].on /\ q.tried = req[r].tried
      /\ q.cause = req[r].cause
  BY <1>2 DEF RequestState
<1> HIDE DEF q
<1>6. req' \in [Requests -> RequestState] /\ req'[r] = q /\ \A p \in Requests \ {r} : req'[p] = req[p]
  BY <1>2, <1>3, <1>5
<1>7. Alone(r) /\ ~ InFlight(r)'
  BY <1>5, <1>6 DEF Alone, InFlight
<1>8. Honest(r)
  BY <1>7 DEF Honest
<1>9. FlightOf(r)'
  BY <1>1, <1>3, <1>5, <1>6, <1>7 DEF FlightOf, Flight
<1>10. Kept
  BY <1>1, <1>3, KeptAsIs
<1>11. Clean(timeline) /\ trouble = {} => ~ req'[r].missed
  BY <1>4, <1>5, <1>6
<1>12. req'[r].cause = "interrupted" => \E e \in applied : e.action = "kill" /\ e.target = req'[r].on
  BY <1>1, <1>5, <1>6 DEF DrainSpares
<1> QED
  BY <1>3, <1>7, <1>8, <1>9, <1>10, <1>11, <1>12, LoadStep

LEMMA AttemptStep ==
  ASSUME CInv, NEW r \in Requests, NEW w \in Workers, Attempt(r, w)
  PROVE  CInv'
<1>0. UNCHANGED <<mode, timeline, now, applied, driver, fleet, trouble, open, phase>>
      /\ w \notin req[r].tried /\ Cardinality(req[r].tried) < MaxAttempts
  BY DEF Attempt
<1>1. Types /\ Flight /\ Reported /\ DrainSpares
  BY DEF CInv
<1>2. CASE ~ Serving(w)
  BY <1>0, <1>2, ElsewhereStep DEF Attempt
<1>3. CASE Serving(w)
  <2> DEFINE q == [req[r] EXCEPT !.at = "waiting", !.on = w, !.tokens = 0,
                         !.generation = fleet[w].generation, !.born = Len(disruptions)]
  <2>1. /\ req \in [Requests -> RequestState] /\ req[r] \in RequestState /\ fleet[w].generation \in Nat
        /\ Len(disruptions) \in Nat /\ 0 \in 0 .. MaxTokens
    BY <1>1, UnsentFacts DEF Types, Replica
  <2>2. req' = [req EXCEPT ![r] = q] /\ disruptions' = disruptions
    BY <1>3 DEF Attempt
  <2>3. /\ q \in RequestState /\ q.at = "waiting" /\ q.missed = req[r].missed /\ q.on = w
        /\ q.tried = req[r].tried /\ q.cause = req[r].cause /\ q.generation = fleet[w].generation
        /\ q.born = Len(disruptions)
    BY <2>1 DEF RequestState
  <2> HIDE DEF q
  <2>4. req' \in [Requests -> RequestState] /\ req'[r] = q /\ \A p \in Requests \ {r} : req'[p] = req[p]
    BY <2>1, <2>2, <2>3
  <2>5. Alone(r) /\ Honest(r)
    BY <2>3, <2>4 DEF Alone, Honest
  <2>6. FlightOf(r)'
    <3>1. fleet'[w].alive /\ fleet' = fleet /\ disruptions' = disruptions
      BY <1>0, <1>3, <2>2 DEF Serving
    <3>2. fleet[w].generation <= fleet[w].generation /\ Len(disruptions) <= Len(disruptions)
      BY <2>1
    <3>3. Cardinality(req[r].tried) <= MaxAttempts /\ req[r].cause = "none"
      BY <1>1 DEF Flight, Attempt
    <3> QED
      BY <1>0, <2>3, <2>4, <3>1, <3>2, <3>3 DEF FlightOf
  <2>7. Kept
    BY <1>1, <2>2, KeptAsIs
  <2>8. Clean(timeline) /\ trouble = {} => ~ req'[r].missed
    BY <1>1, <2>3, <2>4 DEF Reported
  <2>9. req'[r].cause # "interrupted"
    <3>1. req[r].cause = "none"
      BY <1>1 DEF Flight, Attempt
    <3> QED
      BY <2>3, <2>4, <3>1
  <2> QED
    BY <1>0, <2>5, <2>6, <2>7, <2>8, <2>9, LoadStep
<1> QED
  BY <1>2, <1>3

LEMMA InjectedStep ==
  ASSUME CInv, NEW r \in Requests, Injected(r)
  PROVE  CInv'
<1>1. InFlight(r)
  BY DEF Injected, InFlight
<1>2. req[r].on \in Workers /\ Cardinality(req[r].tried) < MaxAttempts
  BY <1>1 DEF CInv, Flight
<1>3. PICK w \in Workers : w = req[r].on
  BY <1>2
<1>4. Elsewhere(r, w) /\ UNCHANGED <<mode, timeline, now, applied, driver, fleet, trouble, open, phase>>
  BY <1>3 DEF Injected
<1> QED
  BY <1>2, <1>4, ElsewhereStep

LEMMA StreamEventStep ==
  ASSUME CInv, NEW r \in Requests, StreamEvent(r)
  PROVE  CInv'
<1>1. InFlight(r) /\ UNCHANGED <<mode, timeline, now, applied, driver, fleet, trouble, open, phase>>
  BY DEF StreamEvent, InFlight
<1>2. req[r].on \in Workers /\ Cardinality(req[r].tried) < MaxAttempts
  BY <1>1 DEF CInv, Flight
<1>3. PICK w \in Workers : w = req[r].on
  BY <1>2
<1>4. CASE Cut(r) /\ mode = "subprocess" /\ req[r].tokens = 0
  <2>1. Elsewhere(r, w)
    BY <1>3, <1>4 DEF StreamEvent
  <2> QED
    BY <1>1, <1>2, <2>1, ElsewhereStep
<1>5. CASE Cut(r) /\ ~ (mode = "subprocess" /\ req[r].tokens = 0)
  <2>1. Ended(r, "interrupted")
    BY <1>5 DEF StreamEvent
  <2> QED
    BY <1>1, <1>5, <2>1, EndedStep
<1>6. CASE ~ Cut(r) /\ ~ (req[r].tokens + 1 < MaxTokens)
  <2>1. Ended(r, "none")
    BY <1>6 DEF StreamEvent
  <2> QED
    BY <1>1, <1>6, <2>1, EndedStep
<1>7. CASE ~ Cut(r) /\ req[r].tokens + 1 < MaxTokens
  <2>0. Types /\ Flight /\ Reported /\ DrainSpares
    BY DEF CInv
  <2> DEFINE n == req[r].tokens + 1
             q == [req[r] EXCEPT !.at = "streaming", !.tokens = n]
  <2>1. req \in [Requests -> RequestState] /\ req[r] \in RequestState /\ n \in 0 .. MaxTokens
    <3>1. req \in [Requests -> RequestState]
      BY <2>0 DEF Types
    <3>2. req[r].tokens \in 0 .. MaxTokens
      BY <3>1 DEF RequestState
    <3> QED
      BY <1>7, <3>1, <3>2, UnsentFacts
  <2>2. req' = [req EXCEPT ![r] = q] /\ disruptions' = disruptions
    BY <1>7 DEF StreamEvent
  <2> HIDE DEF n
  <2>3. /\ q \in RequestState /\ q.at = "streaming" /\ q.missed = req[r].missed /\ q.on = req[r].on
        /\ q.tried = req[r].tried /\ q.cause = req[r].cause /\ q.generation = req[r].generation
        /\ q.born = req[r].born
    BY <2>1 DEF RequestState
  <2> HIDE DEF q
  <2>4. req' \in [Requests -> RequestState] /\ req'[r] = q /\ \A p \in Requests \ {r} : req'[p] = req[p]
    BY <2>1, <2>2, <2>3
  <2>5. Alone(r) /\ Honest(r)
    BY <1>1, <2>3, <2>4 DEF Alone, Honest
  <2>6. FlightOf(r)'
    <3>1. fleet' = fleet /\ disruptions' = disruptions
      BY <1>1, <2>2
    <3> QED
      BY <1>1, <2>0, <2>3, <2>4, <3>1 DEF FlightOf, Flight, InFlight
  <2>7. Kept
    BY <2>0, <2>2, KeptAsIs
  <2>8. Clean(timeline) /\ trouble = {} => ~ req'[r].missed
    BY <2>0, <2>3, <2>4 DEF Reported
  <2>9. req'[r].cause = "interrupted" => \E e \in applied : e.action = "kill" /\ e.target = req'[r].on
    BY <2>0, <2>3, <2>4 DEF DrainSpares
  <2> QED
    BY <1>1, <2>5, <2>6, <2>7, <2>8, <2>9, LoadStep
<1> QED
  BY <1>4, <1>5, <1>6, <1>7

LEMMA EndsStep ==
  ASSUME CInv, NEW r \in Requests, Unrouted(r) \/ TimeOut(r)
  PROVE  CInv'
<1>1. UNCHANGED <<mode, timeline, now, applied, driver, fleet, trouble, open, phase>>
      /\ (Ended(r, "unavailable") \/ Ended(r, "timeout"))
  BY DEF Unrouted, TimeOut
<1> QED
  BY <1>1, EndedStep

----------------------------------------------------------------------------
(* The clock, the end, and the start                                       *)

LEMMA TickStep ==
  ASSUME CInv, Tick
  PROVE  CInv'
<1>1. /\ Types /\ Played /\ Books /\ BooksOpen /\ Flight /\ Slain /\ InStep /\ Even /\ Ahead /\ AsLeft
      /\ Severed /\ Reported /\ DrainSpares
  BY DEF CInv
<1>2. /\ mode' = mode /\ timeline' = timeline /\ applied' = applied /\ driver' = driver
      /\ fleet' = fleet /\ trouble' = trouble /\ open' = open /\ disruptions' = disruptions
      /\ req' = req /\ phase' = phase /\ now' = now + 1 /\ now < MaxTime
  BY DEF Tick
<1>3. now' \in 0 .. MaxTime
  BY <1>1, <1>2, ChaosAssumption DEF Types
<1>4. Types'
  BY <1>1, <1>2, <1>3 DEF Types
<1>5. Played' /\ Books' /\ BooksOpen' /\ Slain' /\ InStep' /\ Even' /\ Ahead' /\ Reported' /\ DrainSpares'
  BY <1>1, <1>2 DEF Played, Pending, Books, BooksOpen, Slain, InStep, Even, Restoring, Ahead, Reported, DrainSpares
<1>6. Flight'
  BY <1>1, <1>2 DEF Flight, InFlight
<1>7. AsLeft'
  <2>1. ASSUME NEW v \in Workers, Left(v) PROVE Left(v)'
    BY <1>2, <2>1, LeftKept DEF Mine, Restoring
  <2> QED
    BY <1>1, <1>2, <2>1 DEF AsLeft
<1>8. Severed'
  BY <1>1, <1>2 DEF Severed, InFlight, Cut, Mine, Latest
<1> QED
  BY <1>4, <1>5, <1>6, <1>7, <1>8 DEF CInv

LEMMA FinishStep ==
  ASSUME CInv, Finish
  PROVE  CInv'
<1>1. /\ Types /\ Played /\ Books /\ BooksOpen /\ Flight /\ Slain /\ InStep /\ Even /\ Ahead /\ AsLeft
      /\ Severed /\ Reported /\ DrainSpares
  BY DEF CInv
<1>2. /\ mode' = mode /\ timeline' = timeline /\ applied' = applied /\ driver' = NoEvent
      /\ fleet' = fleet /\ trouble' = trouble /\ open' = open /\ disruptions' = disruptions
      /\ req' = req /\ phase' = "over" /\ now' = now
  BY DEF Finish
<1>4. Types'
  BY <1>1, <1>2 DEF Types
<1>5. Played' /\ Books' /\ BooksOpen' /\ Slain' /\ InStep' /\ Ahead' /\ Reported' /\ DrainSpares'
  BY <1>1, <1>2 DEF Played, Pending, Books, BooksOpen, Slain, InStep, Ahead, Reported, DrainSpares
<1>6. Flight'
  BY <1>1, <1>2 DEF Flight, InFlight
<1>7. AsLeft'
  <2>1. ASSUME NEW v \in Workers, Left(v) PROVE Left(v)'
    BY <1>2, <2>1, LeftKept DEF Mine
  <2> QED
    BY <1>1, <1>2, <2>1 DEF AsLeft
<1>8. Severed'
  BY <1>1, <1>2 DEF Severed, InFlight, Cut, Mine, Latest
<1>9. Even'
  BY <1>2 DEF Even
<1> QED
  BY <1>4, <1>5, <1>6, <1>7, <1>8, <1>9 DEF CInv

LEMMA InitCInv ==
  ASSUME Init
  PROVE  CInv
<1>1. PICK s \in Schedules, offset \in 0 .. Len(Fleet) - 1 : timeline = Events(s, offset)
  BY DEF Init
<1>2. WellFormed(timeline)
  <2>1. s \in Seq(Fault)
    BY ChaosAssumption DEF ChaosSpecValid
  <2>2. offset \in Nat
    <3>1. Fleet \in Seq({Fleet[i] : i \in DOMAIN Fleet})
      BY FleetAssumption
    <3>2. Len(Fleet) \in Nat
      BY <3>1
    <3> QED
      BY <3>2
  <2> QED
    BY <1>1, <2>1, <2>2, EventsWellFormed
<1>3. /\ mode \in {"inprocess", "subprocess"} /\ now = 0 /\ applied = {} /\ driver = NoEvent
      /\ fleet = [w \in Workers |-> Fresh] /\ trouble = {} /\ open = [w \in Workers |-> 0]
      /\ disruptions = << >> /\ req = [r \in Requests |-> Unsent] /\ phase = "load"
  BY DEF Init
<1>4. /\ \A w \in Workers : fleet[w] = Fresh /\ open[w] = 0
      /\ \A r \in Requests : req[r] = Unsent
      /\ DOMAIN disruptions = {} /\ Len(disruptions) = 0
  BY <1>3
<1>5. Types
  <2>1. fleet \in [Workers -> Replica] /\ req \in [Requests -> RequestState]
    BY <1>3, CalmFacts, UnsentFacts
  <2>2. disruptions \in Seq(Disruption) /\ open \in [Workers -> 0 .. Len(disruptions)]
    BY <1>3, <1>4
  <2>3. now \in 0 .. MaxTime
    BY <1>3, ChaosAssumption
  <2> QED
    BY <1>2, <1>3, <2>1, <2>2, <2>3 DEF Types
<1>6. Played /\ Books /\ BooksOpen
  BY <1>3, <1>4 DEF Played, Books, BooksOpen
<1>7. \A r \in Requests : ~ InFlight(r)
  BY <1>4 DEF InFlight, Unsent
<1>8. Flight
  <2>1. 0 <= MaxAttempts
    BY UnsentFacts
  <2> QED
    BY <1>4, <1>7, <2>1, UnsentFacts DEF Flight
<1>9. Slain /\ InStep /\ Even /\ Ahead
  BY <1>4, CalmFacts DEF Slain, InStep, Even, Ahead
<1>10. AsLeft
  <2>1. ASSUME NEW w \in Workers PROVE Healthy(w)
    <3>1. ~ Restoring(w) /\ Mine(w) = {}
      BY <1>3 DEF Restoring, Mine
    <3> QED
      BY <1>4, <3>1, CalmFacts DEF Healthy
  <2> QED
    BY <2>1 DEF AsLeft, Left
<1>11. Severed /\ Reported /\ DrainSpares
  BY <1>4, UnsentFacts DEF Severed, Reported, DrainSpares
<1> QED
  BY <1>5, <1>6, <1>8, <1>9, <1>10, <1>11 DEF CInv

LEMMA StepCInv ==
  ASSUME CInv, [Next]_vars
  PROVE  CInv'
<1>1. CASE UNCHANGED vars
  <2>1. /\ mode' = mode /\ timeline' = timeline /\ applied' = applied /\ driver' = driver
        /\ fleet' = fleet /\ trouble' = trouble /\ open' = open /\ disruptions' = disruptions
        /\ req' = req /\ phase' = phase /\ now' = now
    BY <1>1 DEF vars
  <2>2. Types' <=> Types
    BY <2>1 DEF Types
  <2>3. /\ Played <=> Played'
        /\ Books <=> Books'
        /\ BooksOpen <=> BooksOpen'
        /\ Slain <=> Slain'
        /\ InStep <=> InStep'
        /\ Even <=> Even'
        /\ Ahead <=> Ahead'
        /\ Reported <=> Reported'
        /\ DrainSpares <=> DrainSpares'
    BY <2>1 DEF Played, Pending, Books, BooksOpen, Slain, InStep, Even, Restoring, Ahead, Reported, DrainSpares
  <2>4. Flight' <=> Flight
    BY <2>1 DEF Flight, InFlight
  <2>5. AsLeft => AsLeft'
    <3>1. ASSUME NEW v \in Workers, Left(v) PROVE Left(v)'
      BY <2>1, <3>1, LeftKept DEF Mine, Restoring
    <3> QED
      BY <2>1, <3>1 DEF AsLeft
  <2>6. Severed' <=> Severed
    BY <2>1 DEF Severed, InFlight, Cut, Mine, Latest
  <2> QED
    BY <2>2, <2>3, <2>4, <2>5, <2>6 DEF CInv
<1>2. CASE Drive
  BY <1>2, DisruptStep, ReconnectStep, RestartStep, ReadyStep, RestoreStep, RestartFailsStep DEF Drive
<1>3. ASSUME NEW r \in Requests, Send(r) \/ Serve(r) PROVE CInv'
  BY <1>3, SendStep, AttemptStep, InjectedStep, StreamEventStep, EndsStep DEF Serve
<1> QED
  BY <1>1, <1>2, <1>3, TickStep, FinishStep DEF Next

LEMMA AlwaysCInv ==
  Spec => []CInv
<1>1. Init => CInv
  BY InitCInv
<1>2. CInv /\ [Next]_vars => CInv'
  BY StepCInv
<1> QED
  BY <1>1, <1>2, PTL DEF Spec

----------------------------------------------------------------------------
(* The properties                                                          *)

\* A bounded set of numbers has a greatest.
LEMMA Greatest ==
  ASSUME NEW T \in SUBSET Nat, T # {}, NEW b \in Nat, \A y \in T : y <= b
  PROVE  \E x \in T : \A y \in T : y <= x
<1> DEFINE f == [y \in T |-> b - y]
<1>1. f \in [T -> Nat]
  OBVIOUS
<1>2. \E x \in T : \A y \in T : f[x] <= f[y]
  BY <1>1, LeastOf
<1>3. PICK x \in T : \A y \in T : b - x <= b - y
  BY <1>2
<1>4. \A y \in T : y <= x
  BY <1>3
<1> QED
  BY <1>4

\* The types of the run.
LEMMA TypeOKHolds ==
  ASSUME CInv
  PROVE  TypeOK
<1>1. Types /\ Flight /\ BooksOpen
  BY DEF CInv
<1>2. /\ mode \in {"inprocess", "subprocess"} /\ now \in 0 .. MaxTime /\ phase \in {"load", "over"}
      /\ applied \subseteq timeline /\ driver \in timeline \union {NoEvent}
      /\ fleet \in [Workers -> Replica] /\ trouble \subseteq Workers
  BY <1>1 DEF Types
<1>3. \A r \in Requests :
       /\ req[r].at \in {"new", "routing", "waiting", "streaming", "done"}
       /\ req[r].on \notin req[r].tried /\ Cardinality(req[r].tried) <= MaxAttempts
       /\ req[r].tokens \in 0 .. MaxTokens
       /\ req[r].cause \in {"none", "unavailable", "interrupted", "timeout"}
  <2>1. \A r \in Requests : req[r] \in RequestState
    BY <1>1 DEF Types
  <2> QED
    BY <1>1, <2>1 DEF RequestState, Flight
<1> QED
  BY <1>1, <1>2, <1>3 DEF TypeOK, BooksOpen, Replica

LEMMA SettledFacts ==
  ASSUME CInv, Settled, NEW w \in Workers
  PROVE  ~ Restoring(w)
<1>1. NoEvent \notin applied
  BY NoEventFacts DEF CInv, Types
<1> QED
  BY <1>1 DEF Restoring, Settled

LEMMA OutageForeseenHolds ==
  ASSUME CInv
  PROVE  OutageForeseen
<1> SUFFICES ASSUME trouble = {}, Clean(timeline)
             PROVE  (\A w \in Workers : ~Serving(w)) <=> DownAfter(applied) = Workers
  BY DEF OutageForeseen
<1>1. AsLeft /\ WellFormed(timeline) /\ applied \subseteq timeline
  BY DEF CInv, Types
<1>2. ASSUME NEW w \in Workers PROVE w \in DownAfter(applied) <=> ~ Serving(w)
  <2>1. Left(w)
    BY <1>1 DEF AsLeft
  <2>2. w \in DownAfter(applied) <=> Mine(w) # {} /\ Last(Mine(w)).action \in Down
    BY DEF DownAfter, Mine
  <2>3. ASSUME NEW l \in Mine(w), Latest(w, l) PROVE Last(Mine(w)) = l
    <3>1. Mine(w) \in SUBSET timeline
      BY <1>1 DEF Mine
    <3> QED
      BY <1>1, <2>3, <3>1, LastFacts DEF Latest
  <2>4. CASE Healthy(w)
    <3>1. Serving(w)
      BY <2>1, <2>4, LeftFacts
    <3>2. Mine(w) = {} \/ \E l \in Mine(w) : Latest(w, l) /\ l.action \in Up
      BY <2>4 DEF Healthy
    <3>3. Up \cap Down = {}
      BY DEF Up, Down
    <3> QED
      BY <2>2, <2>3, <3>1, <3>2, <3>3
  <2>5. CASE ~ Healthy(w)
    <3>1. ~ Serving(w)
      BY <2>1, <2>5, LeftFacts
    <3>2. \E l \in Mine(w) : Latest(w, l) /\ l.action \in Down
      BY <2>1, <2>5 DEF Left, AfterDrain, AfterKill, CutOff, Down
    <3> QED
      BY <2>2, <2>3, <3>1, <3>2
  <2> QED
    BY <2>4, <2>5
<1>3. DownAfter(applied) \subseteq Workers
  BY DEF DownAfter
<1> QED
  BY <1>2, <1>3

LEMMA NoNeedlessOutageHolds ==
  ASSUME CInv
  PROVE  NoNeedlessOutage
<1> SUFFICES ASSUME trouble = {}, \A w \in Workers : ~Serving(w), Clean(timeline)
             PROVE  Doomed(timeline)
  BY DEF NoNeedlessOutage
<1>1. AsLeft /\ Played /\ WellFormed(timeline) /\ applied \subseteq timeline
  BY DEF CInv, Types
<1>2. Lasting(timeline)
  BY DEF Clean, Lasting
<1>3. \A e \in timeline : e.t \in Nat /\ e.action \in Down \cup Up
  BY <1>1, KeyFacts
<1>4. Down \cap Up = {}
  BY DEF Down, Up
\* The last event of each replica is a disruption whose end is still to come.
<1>5. ASSUME NEW w \in Workers
      PROVE  \E l \in Mine(w) : /\ l.action \in Down
                                /\ \E c \in Pending : c.id = l.id /\ c.action \in Up
  <2>1. Left(w) /\ ~ Healthy(w)
    BY <1>1, LeftFacts DEF AsLeft
  <2>2. PICK l \in Mine(w) : Latest(w, l) /\ l.action \in Down
    BY <2>1 DEF Left, AfterDrain, AfterKill, CutOff, Down
  <2>3. l \in timeline /\ l.target = w
    BY <1>1, <2>2 DEF Mine
  <2>4. PICK c \in timeline : c.id = l.id /\ c.action \in Up /\ c.target = l.target /\ l.t < c.t
    BY <1>1, <1>2, <2>2, <2>3, Closing
  <2>5. Before(l, c)
    BY <1>1, <2>3, <2>4, OrderFacts
  <2>6. c \notin applied
    <3> SUFFICES ASSUME c \in applied PROVE FALSE
      OBVIOUS
    <3>1. c \in Mine(w) /\ c # l
      BY <1>4, <2>2, <2>3, <2>4 DEF Mine
    <3>2. Before(c, l)
      BY <2>2, <3>1 DEF Latest
    <3> QED
      BY <1>1, <2>3, <2>4, <2>5, <3>2, OrderFacts
  <2> QED
    BY <2>2, <2>4, <2>6 DEF Pending
<1> DEFINE D == {e \in applied : e.action \in Down /\ \E c \in Pending : c.id = e.id /\ c.action \in Up}
           T == {e.t : e \in D}
<1>6. Workers # {}
  <2>1. Fleet \in Seq({Fleet[i] : i \in DOMAIN Fleet}) \ {<< >>}
    BY FleetAssumption
  <2>2. 1 \in DOMAIN Fleet
    BY <2>1
  <2> QED
    BY <2>2 DEF Workers
<1>7. PICK w0 \in Workers : TRUE
  BY <1>6
<1>8. PICK l0 \in Mine(w0) : /\ l0.action \in Down
                             /\ \E c \in Pending : c.id = l0.id /\ c.action \in Up
  BY <1>5
<1>9. PICK c0 \in Pending : c0.id = l0.id /\ c0.action \in Up
  BY <1>8
<1>10. l0 \in D /\ c0 \in timeline /\ D \subseteq timeline
  BY <1>1, <1>8 DEF Mine, Pending
<1>11. ASSUME NEW e \in D, NEW c \in Pending, c.action \in Up PROVE e.t < c.t
  <2>1. Before(e, c) /\ e \in timeline /\ c \in timeline /\ e.action \in Down
    BY <1>1, <1>11 DEF Played, Pending
  <2>2. e.t <= c.t /\ (e.t = c.t => c.action \in Down)
    BY <1>1, <2>1, OrderFacts
  <2> QED
    BY <1>3, <1>4, <1>11, <2>1, <2>2
<1>12. PICK t \in T : \A y \in T : y <= t
  <2>1. T \in SUBSET Nat /\ T # {}
    BY <1>3, <1>10
  <2>2. c0.t \in Nat /\ \A y \in T : y <= c0.t
    BY <1>3, <1>9, <1>10, <1>11
  <2> QED
    BY <2>1, <2>2, Greatest
<1>13. PICK m \in D : t = m.t
  BY <1>12
<1>14. ASSUME NEW w \in Workers
       PROVE  \E id \in Ids(timeline) :
                TargetOf(timeline, id) = w /\ Start(timeline, id) <= t /\ t < End(timeline, id)
  <2>1. PICK l \in Mine(w) : /\ l.action \in Down
                             /\ \E c \in Pending : c.id = l.id /\ c.action \in Up
    BY <1>5
  <2>2. PICK c \in Pending : c.id = l.id /\ c.action \in Up
    BY <2>1
  <2>3. l \in D /\ l \in timeline /\ l.target = w /\ c \in timeline
    BY <1>1, <2>1 DEF Mine, Pending
  <2>4. c.target = w
    <3>1. \A x, y \in timeline : x.id = y.id => x.target = y.target
      BY <1>1 DEF WellFormed
    <3> QED
      BY <2>2, <2>3, <3>1
  <2>5. /\ End(timeline, c.id) = c.t /\ c.id \in Ids(timeline) /\ TargetOf(timeline, c.id) = c.target
        /\ Start(timeline, c.id) <= l.t /\ Start(timeline, c.id) \in Nat
    BY <1>1, <1>2, <2>2, <2>3, Spans
  <2>6. l.t <= t
    BY <1>12, <2>3
  <2>7. t < c.t
    BY <1>11, <1>13, <2>2
  <2>8. t \in Nat /\ l.t \in Nat
    BY <1>3, <1>10, <1>13, <2>3
  <2>9. Start(timeline, c.id) <= t
    BY <2>5, <2>6, <2>8
  <2> QED
    BY <2>4, <2>5, <2>7, <2>9
<1>15. t \in {e.t : e \in timeline}
  BY <1>10, <1>13
<1> QED
  BY <1>14, <1>15 DEF Doomed

LEMMA BroughtBackHolds ==
  ASSUME CInv, Lasting(timeline)
  PROVE  BroughtBack
<1> SUFFICES ASSUME Settled, Pending = {}, trouble = {}, NEW w \in Workers PROVE Serving(w)
  BY DEF BroughtBack
<1>1. Ahead /\ Even /\ phase = "load" /\ ~ Restoring(w)
  BY SettledFacts DEF CInv, Settled
<1>2. fleet[w].alive /\ ~ fleet[w].draining /\ ~ fleet[w].wish.partitioned
  BY <1>1 DEF Ahead
<1>3. fleet[w].faults = fleet[w].wish
  BY <1>1, <1>2 DEF Even
<1> QED
  BY <1>2, <1>3 DEF Serving

LEMMA NoEasyHalfHolds ==
  ASSUME CInv
  PROVE  NoEasyHalf
<1> SUFFICES ASSUME Settled, NEW w \in Workers \ trouble, fleet[w].alive
             PROVE  fleet[w].faults = fleet[w].wish
  BY DEF NoEasyHalf
<1>1. Even /\ phase = "load" /\ ~ Restoring(w)
  BY SettledFacts DEF CInv, Settled
<1> QED
  BY <1>1 DEF Even

LEMMA DisruptionsCoverHolds ==
  ASSUME CInv
  PROVE  DisruptionsCover
<1> SUFFICES ASSUME Settled, Clean(timeline), NEW w \in Workers \ trouble
             PROVE  ~Serving(w) <=> open[w] # 0
  BY DEF DisruptionsCover
<1>1. Left(w) /\ phase = "load" /\ ~ Restoring(w)
  BY SettledFacts DEF CInv, AsLeft, Settled
<1>2. Healthy(w) => Serving(w) /\ open[w] = 0
  BY <1>1, LeftFacts DEF Healthy
<1>3. ~ Healthy(w) => ~ Serving(w) /\ open[w] # 0
  BY <1>1, LeftFacts
<1> QED
  BY <1>2, <1>3

\* No fault of a schedule restarts a process at the moment it is killed.  Such a restart
\* sorts before its kill and finds nothing to do.
NoInstantRestart ==
  \A s \in Schedules : \A n \in DOMAIN s : s[n].kind = "kill" => s[n].restart > 0

LEMMA AlwaysLasting ==
  ASSUME NoInstantRestart
  PROVE  Spec => []Lasting(timeline)
<1>1. Init => Lasting(timeline)
  <2> SUFFICES ASSUME Init PROVE Lasting(timeline)
    OBVIOUS
  <2>1. PICK s \in Schedules, offset \in 0 .. Len(Fleet) - 1 : timeline = Events(s, offset)
    BY DEF Init
  <2>2. s \in Seq(Fault)
    BY ChaosAssumption DEF ChaosSpecValid
  <2>3. offset \in Nat
    <3>1. Fleet \in Seq({Fleet[i] : i \in DOMAIN Fleet})
      BY FleetAssumption
    <3>2. Len(Fleet) \in Nat
      BY <3>1
    <3> QED
      BY <3>2
  <2> QED
    BY <2>1, <2>2, <2>3, EventsWellFormed DEF NoInstantRestart
<1>2. Lasting(timeline) /\ [Next]_vars => Lasting(timeline)'
  <2>1. [Next]_vars => timeline' = timeline
    BY DEF Next, Drive, Serve, Disrupt, Reconnect, Restart, Ready, Restore, RestartFails, Tick, Finish,
           Send, Attempt, Unrouted, Injected, StreamEvent, TimeOut, vars
  <2> QED
    BY <2>1
<1> QED
  BY <1>1, <1>2, PTL DEF Spec

\* For every fleet, schedule and load, if no restart is instant (_drive_faults, _apply,
\* events and outage_windows).  The outages foreseen are the outages there are and the fleet
\* is not down needlessly, where no control call was lost and no two faults meet on a
\* replica; with no call lost every replica is back at the end; a replica keeps its faults
\* over restarts, and only kills cut streams, whatever else was lost.
THEOREM SufferedAsScheduled ==
  ASSUME NoInstantRestart
  PROVE  Spec => []ChaosInv
<1>1. CInv /\ Lasting(timeline) => ChaosInv
  <2>1. CInv => DrainSpares
    BY DEF CInv
  <2> QED
    BY <2>1, TypeOKHolds, OutageForeseenHolds, NoNeedlessOutageHolds, BroughtBackHolds, NoEasyHalfHolds
       DEF ChaosInv
<1>2. Spec => []CInv
  BY AlwaysCInv
<1>3. Spec => []Lasting(timeline)
  BY AlwaysLasting
<1> QED
  BY <1>1, <1>2, <1>3, PTL

\* Without that hypothesis: the report is true.  Where faults do not overlap, a disruption is
\* open exactly while its replica is out, no request sent during faults is missed, and no
\* killed replica is reported as recovered by a stream from before the kill (begin,
\* _split_by_windows and _attribute_recoveries).
THEOREM ReportedAsSuffered ==
  Spec => []ReportTrue
<1>1. CInv => ReportTrue
  <2> SUFFICES ASSUME CInv PROVE ReportTrue
    OBVIOUS
  <2>1. Reported
    BY DEF CInv
  <2>2. ImpairedCounted /\ RecoveryProven
    BY <2>1 DEF Reported, ImpairedCounted, RecoveryProven
  <2> QED
    BY <2>2, DisruptionsCoverHolds DEF ReportTrue
<1> QED
  BY <1>1, AlwaysCInv, PTL
=============================================================================
