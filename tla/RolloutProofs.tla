--------------------------- MODULE RolloutProofs ---------------------------
(***************************************************************************)
(* Theorems about Rollout: the cluster follows the controller, command by  *)
(* command, a build becomes the stable one only after every step, and what *)
(* the requests of its own rollout show decides on it.                     *)
(***************************************************************************)
EXTENDS Rollout, FiniteSetTheorems, SequenceTheorems, WellFoundedInduction, TLAPS

----------------------------------------------------------------------------
(* The invariant                                                           *)

Argo == mode.driver = "argo"

\* What is left of abort once the canary's own weight, and both weights, are set.
Returned == <<Cmd("stable_weight", 100), Cmd("scale_down", None)>>
Scaled == <<Cmd("scale_down", None)>>

\* What is left of promote once the image is read, set and rolled out.
Placed == <<Cmd("set_image", None), Cmd("await_rollout", None)>> \o Abort
Awaited == <<Cmd("await_rollout", None)>> \o Abort

\* Before a step's weight is set the canary has that of the step before.
Below == glass \/ ctl.step = 1 \/ cluster.weight = Steps[ctl.step - 1]

\* What is left of the verb of a step, and what is done of it.
Raising ==
  runner.at = "acting" /\ ctl.state = "canary" =>
    \/ todo = SetWeight(Steps[ctl.step]) /\ Below
    \/ /\ ~Argo /\ todo = <<Cmd("stable_weight", 100 - Steps[ctl.step])>>
       /\ glass \/ cluster.weight = Steps[ctl.step]

\* The rest of an abort that has begun: the canary is without traffic before it is
\* scaled down.
Undone ==
  /\ ~Argo /\ cluster.weight = 0
  /\ todo = Returned \/ (todo = Scaled /\ cluster.share = 100)

\* A rollback, from its first command to its last.
Undoing ==
  runner.at = "acting" /\ ctl.state = "rolled_back" => todo = Abort \/ Undone

\* A promotion: the image that was read is the build's, and becomes the stable one before
\* the canary goes.
Promoting ==
  runner.at = "acting" /\ ctl.state = "promoted" =>
    \/ todo = Promote
    \/ ~Argo /\ todo = Placed /\ runner.image = ctl.version
    \/ /\ ~Argo /\ cluster.stable = ctl.version
       /\ todo = Awaited \/ todo = Abort \/ Undone

\* The controller and its runner agree on how far the rollout is.
Agree ==
  /\ runner.at # "acting" => todo = << >>
  /\ runner.at = "sleeping" => ctl.state = "canary"
  /\ runner.at = "acting" => /\ ctl.state # "idle"
                             /\ ctl.state = "promoted" => runner.next = "promoted"
                             /\ ctl.state = "rolled_back" => runner.next \in {"rolled_back", "timed_out"}

\* The stable build is never newer than the rollout's, and older until it is promoted.
Builds ==
  /\ cluster.stable <= ctl.version /\ ctl.version <= cluster.canary
  /\ ~Over => ctl.version = cluster.canary
  /\ ~Over /\ ctl.state # "promoted" => cluster.stable < ctl.version

\* The canary has pods while its share goes up, and a share that is a step's.
Served ==
  /\ ~Over /\ ctl.state = "canary" => cluster.up \/ glass
  /\ cluster.weight = 0 \/ \E i \in DOMAIN Steps : cluster.weight = Steps[i]

\* Each step was held before the next one, and all of them before the promotion.
Held ==
  ~Over =>
    /\ runner.started <= now
    /\ ctl.state = "canary" => /\ ctl.since <= now
                               /\ ctl.since - runner.started >= StepHold * (ctl.step - 1)
    /\ ctl.state = "promoted" => now - runner.started >= StepHold * Len(Steps)

\* The evidence of the controller's own windows is from this rollout.
FreshEvidence ==
  mode.source = "windows" /\ ~Over =>
    \A l \in Lanes : \A i \in DOMAIN samples[l] : samples[l][i].t >= runner.started

\* The inductive invariant: how the cluster, the runner and the controller relate between
\* any two commands.
RInv ==
  /\ ClusterInv /\ FreshEvidence
  /\ Agree /\ Raising /\ Undoing /\ Promoting
  /\ Builds /\ Served /\ Held

----------------------------------------------------------------------------
(* Numbers, steps and windows                                              *)

\* Every set of natural numbers has a least element.
LEMMA Least ==
  ASSUME NEW T \in SUBSET Nat, T # {}
  PROVE  \E x \in T : \A y \in T : x <= y
<1>1. \E x \in T : \A y \in T : ~ (<<y, x>> \in OpToRel(<, Nat))
  BY ONLY T \subseteq Nat, T # {}, NatLessThanWellFounded, WFMin
<1>2. ASSUME NEW x \in T, NEW y \in T, ~ (<<y, x>> \in OpToRel(<, Nat))
      PROVE  x <= y
  BY <1>2 DEF OpToRel
<1> QED
  BY <1>1, <1>2

\* One more step is held one more hold.
LEMMA OneMoreHold ==
  ASSUME NEW h \in Nat, NEW k \in Nat
  PROVE  h * (k + 1) = h * k + h /\ h * k \in Nat
OBVIOUS

\* The constants, and the shares of the steps: no step gives less than the first.
LEMMA StepsFacts ==
  /\ Steps \in Seq(1 .. 100) /\ Len(Steps) \in Nat \ {0}
  /\ \A i \in 1 .. Len(Steps) : Steps[i] \in 1 .. 100 /\ Steps[1] <= Steps[i]
  /\ \A i \in 2 .. Len(Steps) : Steps[i - 1] < Steps[i]
<1>1. Steps \in Seq(1 .. 100) /\ Len(Steps) \in Nat \ {0}
  BY CanaryConfigValid DEF ValidSteps
<1>2. \A i \in 1 .. Len(Steps) : Steps[i] \in 1 .. 100
  BY <1>1, ElementOfSeq
<1>3. \A i \in 2 .. Len(Steps) : Steps[i - 1] < Steps[i]
  BY <1>1, CanaryConfigValid DEF ValidSteps
<1>6. \A i \in 1 .. Len(Steps) : Steps[i] \in Int /\ Steps[1] \in Int
  <2>1. 1 \in 1 .. Len(Steps)
    BY <1>1
  <2>2. \A x \in 1 .. 100 : x \in Int
    OBVIOUS
  <2> QED
    BY <1>2, <2>1, <2>2
<1>4. ASSUME NEW j \in 1 .. Len(Steps), Steps[j] < Steps[1]
      PROVE  FALSE
  <2> DEFINE T == {i \in 1 .. Len(Steps) : Steps[i] < Steps[1]}
  <2>1. T \in SUBSET Nat /\ T # {}
    BY <1>1, <1>4
  <2>2. PICK i \in T : \A k \in T : i <= k
    BY <2>1, Least
  <2>3. i \in 2 .. Len(Steps)
    BY <1>1, <1>6, <2>2
  <2>4. i - 1 \notin T
    <3> HIDE DEF T
    <3> QED
      BY <2>1, <2>2, <2>3
  <2> QED
    <3>1. i - 1 \in 1 .. Len(Steps) /\ Steps[i - 1] < Steps[i] /\ Steps[i] < Steps[1]
      BY <1>1, <1>3, <2>2, <2>3
    <3> QED
      BY <1>6, <2>3, <2>4, <3>1
<1>5. \A i \in 1 .. Len(Steps) : Steps[1] <= Steps[i]
  BY <1>6, <1>4
<1> QED
  BY <1>1, <1>2, <1>3, <1>5

\* What pruning leaves is the window's young end, and begins with a sample that is alive.
Survives(v, w, t) ==
  \E d \in 0 .. Len(w) : /\ Len(v) = Len(w) - d /\ \A i \in 1 .. Len(w) - d : v[i] = w[i + d]
                         /\ d < Len(w) => w[d + 1].t >= t - Window

\* What pruning a window leaves was in it.
LEMMA PrunedFacts ==
  ASSUME NEW S, \A x \in S : x.t \in Int, NEW w \in Seq(S), NEW t \in Int
  PROVE  /\ Pruned(w, t) \in Seq(S) /\ Len(Pruned(w, t)) <= Len(w)
         /\ Survives(Pruned(w, t), w, t)
         /\ \A i \in DOMAIN Pruned(w, t) : \E j \in DOMAIN w : Pruned(w, t)[i] = w[j]
<1>0. Window \in Nat
  BY CanaryConfigValid DEF ValidGates
<1>1. CASE w = << >> \/ w[1].t >= t - Window
  <2>1. Pruned(w, t) = w
    BY <1>1 DEF Pruned
  <2>2. Len(w) \in Nat /\ Len(w) - 0 = Len(w) /\ \A i \in 1 .. Len(w) : i + 0 = i
    OBVIOUS
  <2>3. 0 < Len(w) => w[0 + 1].t >= t - Window
    BY <1>1, <2>2
  <2>4. Survives(w, w, t)
    <3>1. 0 \in 0 .. Len(w)
      BY <2>2
    <3> QED
      BY <2>2, <2>3, <3>1 DEF Survives
  <2> QED
    BY <2>1, <2>4
<1>2. CASE ~ (w = << >> \/ w[1].t >= t - Window)
  <2>1. Len(w) \in Nat \ {0} /\ DOMAIN w = 1 .. Len(w) /\ \A k \in 1 .. Len(w) : w[k].t \in Int
    BY <1>2
  <2> DEFINE Stays(n) == n < Len(w) => w[n + 1].t >= t - Window
             Drops(n) == (\A k \in 1 .. n : w[k].t < t - Window) /\ Stays(n)
             T == {n \in 1 .. Len(w) : Stays(n)}
             d == CHOOSE n \in 1 .. Len(w) : Drops(n)
  <2>2. T \in SUBSET Nat /\ Len(w) \in T
    BY <2>1
  <2>3. PICK n \in T : \A m \in T : n <= m
    BY <2>2, Least
  <2>4. ASSUME NEW k \in 1 .. n
        PROVE  w[k].t < t - Window
    <3>1. CASE k = 1
      BY <3>1, <1>0, <1>2, <2>1
    <3>2. CASE k > 1
      <4>1. k - 1 \in 1 .. Len(w) /\ k - 1 < n /\ k \in 1 .. Len(w)
        BY <3>2, <2>1, <2>3
      <4>2. k - 1 \notin T
        <5> HIDE DEF T
        <5> QED
          BY <4>1, <2>2, <2>3
      <4>3. ~ (k - 1 < Len(w) => w[k - 1 + 1].t >= t - Window)
        BY <4>1, <4>2
      <4>4. k - 1 + 1 = k /\ w[k].t \in Int
        BY <4>1, <2>1
      <4> QED
        BY <4>3, <4>4, <1>0
    <3> QED
      BY <3>1, <3>2, <2>3
  <2>5. d \in 1 .. Len(w) /\ Stays(d)
    BY <2>3, <2>4
  <2>6. Pruned(w, t) = SubSeq(w, d + 1, Len(w))
    BY <1>2 DEF Pruned
  <2> HIDE DEF d
  <2>7. /\ SubSeq(w, d + 1, Len(w)) \in Seq(S) /\ Len(SubSeq(w, d + 1, Len(w))) = Len(w) - d
        /\ \A i \in 1 .. Len(w) - d : SubSeq(w, d + 1, Len(w))[i] = w[i + d]
    <3>1. d + 1 \in Int /\ Len(w) \in Int /\ d + 1 <= Len(w) + 1
      BY <2>1, <2>5
    <3>2. \A i \in d + 1 .. Len(w) : w[i] \in S
      BY <2>1, <2>5, ElementOfSeq
    <3>3. /\ SubSeq(w, d + 1, Len(w)) \in Seq(S)
          /\ Len(SubSeq(w, d + 1, Len(w))) = IF d + 1 <= Len(w) THEN Len(w) - (d + 1) + 1 ELSE 0
          /\ \A i \in 1 .. Len(w) - (d + 1) + 1 : SubSeq(w, d + 1, Len(w))[i] = w[d + 1 + i - 1]
      BY <3>1, <3>2, SubSeqProperties
    <3>4. Len(w) - (d + 1) + 1 = Len(w) - d /\ \A i \in 1 .. Len(w) - d : d + 1 + i - 1 = i + d
      BY <2>1, <2>5
    <3>5. (IF d + 1 <= Len(w) THEN Len(w) - (d + 1) + 1 ELSE 0) = Len(w) - d
      <4> DEFINE l == Len(w)
      <4>1. l \in Nat /\ d \in 1 .. l
        BY <2>1, <2>5
      <4> HIDE DEF l
      <4>2. (IF d + 1 <= l THEN l - (d + 1) + 1 ELSE 0) = l - d
        BY ONLY <4>1
      <4> QED
        BY <4>2 DEF l
    <3>6. \A i \in 1 .. Len(w) - d : SubSeq(w, d + 1, Len(w))[i] = w[i + d]
      BY <3>3, <3>4
    <3> QED
      BY <3>3, <3>5, <3>6
  <2>8. DOMAIN SubSeq(w, d + 1, Len(w)) = 1 .. Len(w) - d
    BY <2>7
  <2>9. \A i \in 1 .. Len(w) - d : i + d \in DOMAIN w
    BY <2>1, <2>5
  <2>10. Len(w) - d <= Len(w)
    BY <2>1, <2>5
  <2>11. \A i \in DOMAIN SubSeq(w, d + 1, Len(w)) :
           \E j \in DOMAIN w : SubSeq(w, d + 1, Len(w))[i] = w[j]
    BY <2>7, <2>8, <2>9
  <2>12. Survives(SubSeq(w, d + 1, Len(w)), w, t)
    <3>1. d \in 0 .. Len(w)
      BY <2>1, <2>5
    <3> QED
      BY <2>5, <2>7, <3>1 DEF Survives
  <2> QED
    BY <2>6, <2>7, <2>10, <2>11, <2>12
<1> QED
  BY <1>1, <1>2

\* The windows of the type invariant are the sequences that fit the ring.
LEMMA WindowType ==
  ASSUME NEW w
  PROVE  w \in UNION {[1 .. n -> Sample] : n \in 0 .. MaxSamples}
           <=> w \in Seq(Sample) /\ Len(w) <= MaxSamples
<1>0. MaxSamples \in Nat
  BY CanaryConfigValid DEF ValidGates
<1>1. ASSUME NEW n \in 0 .. MaxSamples, w \in [1 .. n -> Sample]
      PROVE  w \in Seq(Sample) /\ Len(w) <= MaxSamples
  BY <1>0, <1>1
<1>2. ASSUME w \in Seq(Sample), Len(w) <= MaxSamples
      PROVE  w \in [1 .. Len(w) -> Sample] /\ Len(w) \in 0 .. MaxSamples
  BY <1>0, <1>2
<1> QED
  BY <1>1, <1>2

----------------------------------------------------------------------------
(* Commands                                                                *)

Kubectl == [op : {"argo_weight", "canary_weight", "stable_weight", "argo_abort", "argo_promote",
                  "read_image", "set_image", "await_rollout", "scale_down"},
            arg : Int]
RunnerType == [at : {"idle", "acting", "sleeping", "failed"}, started : Nat,
               failures : 0 .. MaxMetricFailures, image : Nat,
               next : {"none", "promoted", "rolled_back", "timed_out"},
               outcome : {"none", "promoted", "rolled_back", "timed_out"}]
ClusterType == [weight : 0 .. 100, share : 0 .. 100, stable : Nat, canary : Nat, up : BOOLEAN]

\* A command on the cluster leaves a cluster.
LEMMA ClusterMoved ==
  ASSUME NEW c \in ClusterType, NEW x \in 0 .. 100, NEW y \in 0 .. 100
  PROVE  /\ [c EXCEPT !.weight = x, !.share = y] \in ClusterType
         /\ [c EXCEPT !.share = y] \in ClusterType
         /\ [c EXCEPT !.up = FALSE] \in ClusterType
  BY DEF ClusterType

\* The first command of a verb, and the rest of it.
LEMMA FirstOf ==
  ASSUME NEW a, NEW b, NEW c
  PROVE  /\ Head(<<a>>) = a /\ Tail(<<a>>) = << >> /\ Len(<<a>>) = 1
         /\ Head(<<a, b>>) = a /\ Tail(<<a, b>>) = <<b>> /\ Len(<<a, b>>) = 2
         /\ Head(<<a, b, c>>) = a /\ Tail(<<a, b, c>>) = <<b, c>> /\ Len(<<a, b, c>>) = 3
         /\ <<a>> \o <<b>> = <<a, b>> /\ <<a>> # << >>
<1>1. /\ Head(<<a>>) = a /\ Tail(<<a>>) = << >> /\ Len(<<a>>) = 1
      /\ Head(<<a, b>>) = a /\ Tail(<<a, b>>) = <<b>> /\ Len(<<a, b>>) = 2
  OBVIOUS
<1>2. Head(<<a, b, c>>) = a /\ Tail(<<a, b, c>>) = <<b, c>> /\ Len(<<a, b, c>>) = 3
  OBVIOUS
<1>3. <<a>> # << >>
  BY <1>1
<1>4. <<a>> \o <<b>> = <<a, b>>
  <2> DEFINE S == {a, b}
             s == <<a>>
             t == <<b>>
             u == <<a, b>>
  <2>1. s \in Seq(S) /\ t \in Seq(S) /\ u \in Seq(S)
    OBVIOUS
  <2>2. Len(s) = 1 /\ Len(t) = 1 /\ Len(u) = 2 /\ s[1] = a /\ t[1] = b /\ u[1] = a /\ u[2] = b
    OBVIOUS
  <2> HIDE DEF S, s, t, u
  <2>3. /\ s \o t \in Seq(S) /\ Len(s \o t) = 2
        /\ \A i \in 1 .. 2 : (s \o t)[i] = IF i <= 1 THEN s[i] ELSE t[i - 1]
    BY <2>1, <2>2, ConcatProperties
  <2>4. \A i \in 1 .. Len(s \o t) : (s \o t)[i] = u[i]
    BY <2>2, <2>3
  <2>5. s \o t = u
    BY <2>1, <2>2, <2>3, <2>4, SeqEqual
  <2> QED
    BY <2>5 DEF s, t, u
<1> QED
  BY <1>1, <1>2, <1>3, <1>4

\* The same where a verb is an abort with other commands before it.
LEMMA FirstBefore ==
  ASSUME NEW S, NEW p \in Seq(S), p # << >>, NEW s \in Seq(S), s # << >>
  PROVE  Head(p \o s) = Head(p) /\ Tail(p \o s) = Tail(p) \o s /\ Len(p \o s) > 1
<1>1. /\ Len(p) \in Nat \ {0} /\ Len(s) \in Nat \ {0}
      /\ p \o s \in Seq(S) /\ Len(p \o s) = Len(p) + Len(s)
      /\ \A i \in 1 .. Len(p) + Len(s) : (p \o s)[i] = IF i <= Len(p) THEN p[i] ELSE s[i - Len(p)]
  BY ConcatProperties, EmptySeq
<1>2. /\ Tail(p) \in Seq(S) /\ Len(Tail(p)) = Len(p) - 1
      /\ \A i \in 1 .. Len(Tail(p)) : Tail(p)[i] = p[i + 1]
  BY HeadTailProperties
<1>3. p \o s # << >>
  BY <1>1
<1>4. /\ Tail(p \o s) \in Seq(S) /\ Len(Tail(p \o s)) = Len(p \o s) - 1
      /\ \A i \in 1 .. Len(Tail(p \o s)) : Tail(p \o s)[i] = (p \o s)[i + 1]
  BY <1>1, <1>3, HeadTailProperties
<1>5. /\ Tail(p) \o s \in Seq(S) /\ Len(Tail(p) \o s) = Len(Tail(p)) + Len(s)
      /\ \A i \in 1 .. Len(Tail(p)) + Len(s) :
           (Tail(p) \o s)[i] = IF i <= Len(Tail(p)) THEN Tail(p)[i] ELSE s[i - Len(Tail(p))]
  BY <1>2, ConcatProperties
<1>6. Len(Tail(p \o s)) = Len(Tail(p) \o s)
  BY <1>1, <1>2, <1>4, <1>5
<1>7. ASSUME NEW i \in 1 .. Len(Tail(p \o s))
      PROVE  Tail(p \o s)[i] = (Tail(p) \o s)[i]
  <2>1. /\ i + 1 \in 1 .. Len(p) + Len(s) /\ i \in 1 .. Len(Tail(p)) + Len(s)
        /\ i <= Len(Tail(p)) <=> i + 1 <= Len(p)
        /\ i + 1 - Len(p) = i - Len(Tail(p))
    BY <1>1, <1>2, <1>4
  <2>2. CASE i <= Len(Tail(p))
    <3>1. i \in 1 .. Len(Tail(p)) /\ i + 1 <= Len(p)
      BY <2>1, <2>2, <1>2
    <3> QED
      BY <1>1, <1>2, <1>4, <1>5, <2>1, <3>1
  <2>3. CASE ~ (i <= Len(Tail(p)))
    BY <1>1, <1>4, <1>5, <2>1, <2>3
  <2> QED
    BY <2>2, <2>3
<1>8. Tail(p \o s) = Tail(p) \o s
  BY <1>4, <1>5, <1>6, <1>7, SeqEqual
<1>9. Head(p \o s) = Head(p)
  BY <1>1
<1> QED
  BY <1>1, <1>8, <1>9

\* An abort, command by command; the two drivers' other verbs, likewise.
LEMMA AbortFacts ==
  ASSUME mode.driver \in {"services", "argo"}
  PROVE  /\ Abort \in Seq(Kubectl) /\ Abort # << >>
         /\ Argo => Abort = <<Cmd("argo_abort", None)>>
         /\ ~Argo => /\ Head(Abort) = Cmd("canary_weight", 0)
                     /\ Tail(Abort) = Returned /\ Len(Abort) > 1
<1>1. CASE Argo
  <2>1. Abort = <<Cmd("argo_abort", None)>>
    BY <1>1 DEF Argo, Abort
  <2>2. Cmd("argo_abort", None) \in Kubectl
    BY DEF Cmd, Kubectl, None
  <2>3. ASSUME NEW a \in Kubectl
        PROVE  <<a>> \in Seq(Kubectl)
    BY <2>3
  <2> QED
    BY <1>1, <2>1, <2>2, <2>3, FirstOf
<1>2. CASE ~Argo
  <2>1. Abort = <<Cmd("canary_weight", 0), Cmd("stable_weight", 100)>> \o <<Cmd("scale_down", None)>>
    BY <1>2 DEF Argo, Abort, SetWeight
  <2>2. /\ <<Cmd("canary_weight", 0), Cmd("stable_weight", 100)>> \in Seq(Kubectl)
        /\ <<Cmd("scale_down", None)>> \in Seq(Kubectl)
    BY DEF Cmd, Kubectl, None
  <2>3. <<Cmd("stable_weight", 100)>> \o <<Cmd("scale_down", None)>> = Returned
    BY FirstOf DEF Returned
  <2>4. /\ Head(Abort) = Cmd("canary_weight", 0) /\ Len(Abort) > 1
        /\ Tail(Abort) = <<Cmd("stable_weight", 100)>> \o <<Cmd("scale_down", None)>>
    BY <2>1, <2>2, FirstBefore, FirstOf
  <2>5. Abort \in Seq(Kubectl) /\ Abort # << >>
    BY <2>1, <2>2, <2>4
  <2> QED
    BY <1>2, <2>3, <2>4, <2>5
<1> QED
  BY <1>1, <1>2

\* A promotion, likewise, with either driver.
LEMMA PromoteFacts ==
  ASSUME mode.driver \in {"services", "argo"}
  PROVE  /\ Promote # << >> /\ Placed # << >> /\ Awaited # << >>
         /\ Argo => Promote = <<Cmd("argo_promote", None)>>
         /\ ~Argo => /\ Head(Promote) = Cmd("read_image", None)
                     /\ Tail(Promote) = Placed /\ Len(Promote) > 1
         /\ Head(Placed) = Cmd("set_image", None) /\ Tail(Placed) = Awaited /\ Len(Placed) > 1
         /\ Head(Awaited) = Cmd("await_rollout", None) /\ Tail(Awaited) = Abort /\ Len(Awaited) > 1
<1>1. Abort \in Seq(Kubectl) /\ Abort # << >>
  BY AbortFacts
<1> DEFINE r == Cmd("read_image", None)
           s == Cmd("set_image", None)
           a == Cmd("await_rollout", None)
<1>2. r \in Kubectl /\ s \in Kubectl /\ a \in Kubectl
  BY DEF Cmd, Kubectl, None
<1> HIDE DEF r, s, a
<1>3. <<r, s, a>> \in Seq(Kubectl) /\ <<s, a>> \in Seq(Kubectl) /\ <<a>> \in Seq(Kubectl)
  BY <1>2
<1>4. << >> \o Abort = Abort
  BY <1>1, ConcatEmptySeq
<1>5. /\ Head(<<a>> \o Abort) = a /\ Tail(<<a>> \o Abort) = Abort /\ Len(<<a>> \o Abort) > 1
  BY <1>1, <1>3, <1>4, FirstBefore, FirstOf
<1>6. /\ Head(<<s, a>> \o Abort) = s /\ Tail(<<s, a>> \o Abort) = <<a>> \o Abort
      /\ Len(<<s, a>> \o Abort) > 1
  BY <1>1, <1>3, FirstBefore, FirstOf
<1>7. /\ Head(<<r, s, a>> \o Abort) = r /\ Tail(<<r, s, a>> \o Abort) = <<s, a>> \o Abort
      /\ Len(<<r, s, a>> \o Abort) > 1
  BY <1>1, <1>3, FirstBefore, FirstOf
<1>8. Placed = <<s, a>> \o Abort /\ Awaited = <<a>> \o Abort
  BY DEF Placed, Awaited, s, a
<1>9. ~Argo => Promote = <<r, s, a>> \o Abort
  BY DEF Promote, Argo, r, s, a
<1>10. Argo => Promote = <<Cmd("argo_promote", None)>>
  BY DEF Promote, Argo
<1>11. Placed # << >> /\ Awaited # << >>
  BY <1>5, <1>6, <1>8
<1>12. Promote # << >>
  <2>1. CASE Argo
    BY <2>1, <1>10, FirstOf
  <2>2. CASE ~Argo
    BY <2>2, <1>7, <1>9
  <2> QED
    BY <2>1, <2>2
<1>13. r = Cmd("read_image", None) /\ s = Cmd("set_image", None) /\ a = Cmd("await_rollout", None)
  BY DEF r, s, a
<1> QED
  BY <1>5, <1>6, <1>7, <1>8, <1>9, <1>10, <1>11, <1>12, <1>13

\* A step's weight, likewise.
LEMMA WeightFacts ==
  ASSUME mode.driver \in {"services", "argo"}, NEW pct
  PROVE  /\ Argo => SetWeight(pct) = <<Cmd("argo_weight", pct)>>
         /\ ~Argo => SetWeight(pct) = <<Cmd("canary_weight", pct), Cmd("stable_weight", 100 - pct)>>
BY DEF SetWeight, Argo


\* The cluster once the next command has succeeded.
After == Effect(Head(todo))

\* What no command does, whatever comes after it.
Safe ==
  /\ After \in ClusterType /\ After.canary = cluster.canary
  /\ After.weight > 0 /\ ~ After.up => glass
  /\ After.weight = 0 \/ \E i \in DOMAIN Steps : After.weight = Steps[i]
  /\ After.stable <= ctl.version
  /\ ctl.state = "canary" => After.up = cluster.up
  /\ After.stable # cluster.stable => ctl.state = "promoted" /\ After.stable = ctl.version
  /\ After.weight > cluster.weight =>
       \E i \in DOMAIN Steps : /\ After.weight = Steps[i]
                               /\ ~ glass => cluster.weight = IF i = 1 THEN 0 ELSE Steps[i - 1]

\* What is left of an abort, over a cluster c.
Remains(c, rest) == c.weight = 0 /\ (rest = Returned \/ (rest = Scaled /\ c.share = 100))

\* What is left of the verb after the command.
Onward ==
  /\ Tail(todo) # << >> /\ ~ Argo
  /\ ctl.state = "canary" => /\ Tail(todo) = <<Cmd("stable_weight", 100 - Steps[ctl.step])>>
                             /\ After.weight = Steps[ctl.step]
  /\ ctl.state = "rolled_back" => Remains(After, Tail(todo))
  /\ ctl.state = "promoted" =>
       \/ Head(todo).op = "read_image" /\ Tail(todo) = Placed
       \/ /\ Head(todo).op # "read_image" /\ After.stable = ctl.version
          /\ Tail(todo) = Awaited \/ Tail(todo) = Abort \/ Remains(After, Tail(todo))

\* What the verb has done with its last command.
Done ==
  /\ Tail(todo) = << >>
  /\ ctl.state = "canary" => glass \/ (After.weight = Steps[ctl.step] /\ After.share = 100 - Steps[ctl.step])
  /\ ctl.state # "canary" => After.weight = 0 /\ After.share = 100
  /\ ctl.state = "promoted" => After.stable = ctl.version

\* Each command of each verb, one by one.
LEMMA OneCommand ==
  ASSUME RInv, runner.at = "acting"
  PROVE  /\ todo # << >> /\ Safe
         /\ Len(todo) \in Nat /\ IF Len(todo) > 1 THEN Onward ELSE Done
<1> DEFINE w == Steps[ctl.step]
<1>1. /\ mode.driver \in {"services", "argo"} /\ cluster \in ClusterType
      /\ ctl.step \in 1 .. Len(Steps) /\ ctl.version \in Nat /\ glass \in BOOLEAN
      /\ ctl.state \in {"canary", "promoted", "rolled_back"}
  <2>1. ClusterInv /\ Agree
    BY DEF RInv
  <2>2. /\ mode \in Modes /\ ctl \in ControllerType /\ cluster \in ClusterType
        /\ glass \in BOOLEAN /\ ctl.state # "idle"
    BY <2>1 DEF ClusterInv, TypeOK, Agree, ClusterType
  <2>3. mode.driver \in {"services", "argo"}
    BY <2>2, RolloutBounds
  <2> QED
    BY <2>2, <2>3 DEF ControllerType
<1>2. /\ Len(Steps) \in Nat /\ DOMAIN Steps = 1 .. Len(Steps)
      /\ \A i \in 1 .. Len(Steps) : Steps[i] \in 1 .. 100 /\ Steps[1] <= Steps[i]
      /\ \A i \in 2 .. Len(Steps) : Steps[i - 1] < Steps[i]
      /\ w \in 1 .. 100 /\ 100 - w \in 0 .. 100
  <2>1. w \in 1 .. 100
    BY <1>1, StepsFacts
  <2>2. 100 - w \in 0 .. 100
    <3> HIDE DEF w
    <3> QED
      BY <2>1
  <2> QED
    BY <2>1, <2>2, StepsFacts
<1>3. /\ cluster.weight \in 0 .. 100 /\ cluster.share \in 0 .. 100 /\ cluster.stable \in Nat
      /\ cluster.canary \in Nat /\ cluster.up \in BOOLEAN
  BY <1>1 DEF ClusterType
<1>4. /\ cluster.weight > 0 /\ ~ cluster.up => glass
      /\ cluster.weight = 0 \/ \E i \in DOMAIN Steps : cluster.weight = Steps[i]
      /\ cluster.stable <= ctl.version /\ ctl.version = cluster.canary
      /\ ctl.state = "canary" => cluster.up \/ glass
  BY <1>1 DEF RInv, ClusterInv, NoTrafficToNobody, Served, Builds, Over
<1>5. Raising /\ Undoing /\ Promoting
  BY DEF RInv
\* A share that goes up is the step's, from the one before.
<1>6. ASSUME Below, w > cluster.weight
      PROVE  \E i \in DOMAIN Steps : /\ w = Steps[i]
                                     /\ ~ glass => cluster.weight = IF i = 1 THEN 0 ELSE Steps[i - 1]
  <2>1. CASE ctl.step = 1
    <3>1. ASSUME NEW i \in 1 .. Len(Steps)
          PROVE  ~ (w > Steps[i])
      <4>1. w = Steps[1] /\ w <= Steps[i]
        BY <1>2, <2>1
      <4>2. Steps[i] \in 1 .. 100 /\ w \in 1 .. 100
        BY <1>2
      <4>3. \A x, y \in 1 .. 100 : x <= y => ~ (x > y)
        OBVIOUS
      <4> QED
        BY <4>1, <4>2, <4>3
    <3>2. cluster.weight = 0
      BY <1>2, <1>4, <1>6, <3>1
    <3> QED
      BY <1>1, <1>2, <2>1, <3>2
  <2>2. CASE ctl.step # 1
    BY <1>1, <1>2, <1>6, <2>2 DEF Below
  <2> QED
    BY <2>1, <2>2
<1>7. /\ w = Steps[ctl.step] /\ w \in 0 .. 100 /\ 100 - w \in 0 .. 100 /\ w \in Int
      /\ 0 \in 0 .. 100 /\ 100 \in 0 .. 100
  <2>1. \A x \in 1 .. 100 : x \in 0 .. 100 /\ x \in Int /\ 100 - x \in 0 .. 100
    OBVIOUS
  <2>2. 0 \in 0 .. 100 /\ 100 \in 0 .. 100
    OBVIOUS
  <2>3. w \in 1 .. 100
    BY <1>2
  <2> QED
    BY <2>1, <2>2, <2>3
<1> HIDE DEF w
<1>11. ASSUME Argo, ctl.state = "canary", todo = <<Cmd("argo_weight", w)>>, Below
      PROVE  todo # << >> /\ Safe /\ Len(todo) \in Nat /\ IF Len(todo) > 1 THEN Onward ELSE Done
  <2>1. /\ Head(todo) = Cmd("argo_weight", w) /\ Tail(todo) = << >>
        /\ todo # << >> /\ Len(todo) \in Nat /\ Len(todo) <= 1
    BY <1>11, <1>1, FirstOf, AbortFacts, PromoteFacts
  <2>2. After = [cluster EXCEPT !.weight = w, !.share = 100 - w]
    <3>1. Head(todo).op = "argo_weight" /\ Head(todo).arg = w
      BY <2>1 DEF Cmd
    <3> QED
      BY <3>1 DEF After, Effect
  <2>3. /\ After.weight = w /\ After.share = 100 - w /\ After.stable = cluster.stable
        /\ After.canary = cluster.canary /\ After.up = cluster.up
    BY <1>1, <2>2 DEF ClusterType
  <2>4. Safe
    <3>1. After \in ClusterType
      <4>1. cluster \in ClusterType
        BY <1>1
      <4>2. [cluster EXCEPT !.weight = w, !.share = 100 - w] \in ClusterType
        <5>1. w \in 0 .. 100 /\ 100 - w \in 0 .. 100
          BY <1>7
        <5>2. \A x, y \in 0 .. 100 : [cluster EXCEPT !.weight = x, !.share = y] \in ClusterType
          BY <4>1, ClusterMoved
        <5> QED
          BY <5>1, <5>2
      <4> QED
        BY <2>2, <4>2
    <3>2. After.weight > cluster.weight => After.weight = w /\ Below
      BY <1>3, <1>11, <2>3
    <3>3. After.weight > 0 /\ ~ After.up => glass
      BY <1>3, <1>4, <1>11, <2>3
    <3>4. After.weight = 0 \/ \E i \in DOMAIN Steps : After.weight = Steps[i]
      BY <1>1, <1>2, <1>4, <1>7, <1>11, <2>3
    <3>5. After.canary = cluster.canary /\ After.stable <= ctl.version
      BY <1>1, <1>3, <1>4, <1>11, <2>3
    <3>6. /\ ctl.state = "canary" => After.up = cluster.up
          /\ After.stable # cluster.stable => ctl.state = "promoted" /\ After.stable = ctl.version
      BY <1>4, <1>11, <2>3
    <3> QED
      BY <1>6, <3>1, <3>2, <3>3, <3>4, <3>5, <3>6 DEF Safe
  <2>5. Done
    BY <1>4, <1>7, <1>11, <2>1, <2>3 DEF Done
  <2> QED
    BY <2>1, <2>4, <2>5
<1>12. ASSUME ~ Argo, ctl.state = "canary", todo = <<Cmd("canary_weight", w), Cmd("stable_weight", 100 - w)>>, Below
      PROVE  todo # << >> /\ Safe /\ Len(todo) \in Nat /\ IF Len(todo) > 1 THEN Onward ELSE Done
  <2>1. /\ Head(todo) = Cmd("canary_weight", w) /\ Tail(todo) = <<Cmd("stable_weight", 100 - w)>>
        /\ todo # << >> /\ Len(todo) \in Nat /\ Len(todo) > 1
    BY <1>12, <1>1, FirstOf, AbortFacts, PromoteFacts
  <2>2. After = [cluster EXCEPT !.weight = w]
    <3>1. Head(todo).op = "canary_weight" /\ Head(todo).arg = w
      BY <2>1 DEF Cmd
    <3> QED
      BY <3>1 DEF After, Effect
  <2>3. /\ After.weight = w /\ After.share = cluster.share /\ After.stable = cluster.stable
        /\ After.canary = cluster.canary /\ After.up = cluster.up
    BY <1>1, <2>2 DEF ClusterType
  <2>4. Safe
    <3>1. After \in ClusterType
      BY <1>1, <1>3, <1>7, <1>12, <2>2 DEF ClusterType
    <3>2. After.weight > cluster.weight => After.weight = w /\ Below
      BY <1>3, <1>12, <2>3
    <3>3. After.weight > 0 /\ ~ After.up => glass
      BY <1>3, <1>4, <1>12, <2>3
    <3>4. After.weight = 0 \/ \E i \in DOMAIN Steps : After.weight = Steps[i]
      BY <1>1, <1>2, <1>4, <1>7, <1>12, <2>3
    <3>5. After.canary = cluster.canary /\ After.stable <= ctl.version
      BY <1>1, <1>3, <1>4, <1>12, <2>3
    <3>6. /\ ctl.state = "canary" => After.up = cluster.up
          /\ After.stable # cluster.stable => ctl.state = "promoted" /\ After.stable = ctl.version
      BY <1>4, <1>12, <2>3
    <3> QED
      BY <1>6, <3>1, <3>2, <3>3, <3>4, <3>5, <3>6 DEF Safe
  <2>5. Tail(todo) # << >>
    BY <1>1, <2>1, FirstOf, AbortFacts, PromoteFacts DEF Returned, Scaled
  <2>6. Onward
    <3>1. Head(todo).op = "canary_weight"
      BY <2>1 DEF Cmd
    <3> QED
      BY <1>7, <1>12, <2>1, <2>3, <2>5, <3>1 DEF Onward, Remains
  <2> QED
    BY <2>1, <2>4, <2>6
<1>13. ASSUME ~ Argo, ctl.state = "canary", todo = <<Cmd("stable_weight", 100 - w)>>, (glass \/ cluster.weight = w)
      PROVE  todo # << >> /\ Safe /\ Len(todo) \in Nat /\ IF Len(todo) > 1 THEN Onward ELSE Done
  <2>1. /\ Head(todo) = Cmd("stable_weight", 100 - w) /\ Tail(todo) = << >>
        /\ todo # << >> /\ Len(todo) \in Nat /\ Len(todo) <= 1
    BY <1>13, <1>1, FirstOf, AbortFacts, PromoteFacts
  <2>2. After = [cluster EXCEPT !.share = 100 - w]
    <3>1. Head(todo).op = "stable_weight" /\ Head(todo).arg = 100 - w
      BY <2>1 DEF Cmd
    <3> QED
      BY <3>1 DEF After, Effect
  <2>3. /\ After.weight = cluster.weight /\ After.share = 100 - w /\ After.stable = cluster.stable
        /\ After.canary = cluster.canary /\ After.up = cluster.up
    BY <1>1, <2>2 DEF ClusterType
  <2>4. Safe
    <3>1. After \in ClusterType
      BY <1>1, <1>7, <2>2, ClusterMoved
    <3>2. After.weight > cluster.weight => After.weight = w /\ Below
      BY <1>3, <1>13, <2>3
    <3>3. After.weight > 0 /\ ~ After.up => glass
      BY <1>3, <1>4, <1>13, <2>3
    <3>4. After.weight = 0 \/ \E i \in DOMAIN Steps : After.weight = Steps[i]
      BY <1>1, <1>2, <1>4, <1>7, <1>13, <2>3
    <3>5. After.canary = cluster.canary /\ After.stable <= ctl.version
      BY <1>1, <1>3, <1>4, <1>13, <2>3
    <3>6. /\ ctl.state = "canary" => After.up = cluster.up
          /\ After.stable # cluster.stable => ctl.state = "promoted" /\ After.stable = ctl.version
      BY <1>4, <1>13, <2>3
    <3> QED
      BY <1>6, <3>1, <3>2, <3>3, <3>4, <3>5, <3>6 DEF Safe
  <2>5. Done
    BY <1>4, <1>7, <1>13, <2>1, <2>3 DEF Done
  <2> QED
    BY <2>1, <2>4, <2>5
<1>14. ASSUME Argo, ctl.state = "rolled_back", todo = Abort
      PROVE  todo # << >> /\ Safe /\ Len(todo) \in Nat /\ IF Len(todo) > 1 THEN Onward ELSE Done
  <2>0. todo = <<Cmd("argo_abort", None)>>
    BY <1>1, <1>14, AbortFacts, PromoteFacts
  <2>1. /\ Head(todo) = Cmd("argo_abort", None) /\ Tail(todo) = << >>
        /\ todo # << >> /\ Len(todo) \in Nat /\ Len(todo) <= 1
    BY <2>0, FirstOf
  <2>2. After = [cluster EXCEPT !.weight = 0, !.share = 100, !.up = FALSE]
    <3>1. Head(todo).op = "argo_abort" /\ Head(todo).arg = None
      BY <2>1 DEF Cmd
    <3> QED
      BY <3>1 DEF After, Effect
  <2>3. /\ After.weight = 0 /\ After.share = 100 /\ After.stable = cluster.stable
        /\ After.canary = cluster.canary /\ After.up = FALSE
    BY <1>1, <2>2 DEF ClusterType
  <2>4. Safe
    <3>1. After \in ClusterType
      BY <1>1, <1>3, <1>7, <1>14, <2>2 DEF ClusterType
    <3>2. After.weight > cluster.weight => After.weight = w /\ Below
      BY <1>3, <1>14, <2>3
    <3>3. After.weight > 0 /\ ~ After.up => glass
      BY <1>3, <1>4, <1>14, <2>3
    <3>4. After.weight = 0 \/ \E i \in DOMAIN Steps : After.weight = Steps[i]
      BY <1>1, <1>2, <1>4, <1>7, <1>14, <2>3
    <3>5. After.canary = cluster.canary /\ After.stable <= ctl.version
      BY <1>1, <1>3, <1>4, <1>14, <2>3
    <3>6. /\ ctl.state = "canary" => After.up = cluster.up
          /\ After.stable # cluster.stable => ctl.state = "promoted" /\ After.stable = ctl.version
      BY <1>4, <1>14, <2>3
    <3> QED
      BY <1>6, <3>1, <3>2, <3>3, <3>4, <3>5, <3>6 DEF Safe
  <2>5. Done
    BY <1>4, <1>7, <1>14, <2>1, <2>3 DEF Done
  <2> QED
    BY <2>1, <2>4, <2>5
<1>15. ASSUME Argo, ctl.state = "promoted", todo = Promote
      PROVE  todo # << >> /\ Safe /\ Len(todo) \in Nat /\ IF Len(todo) > 1 THEN Onward ELSE Done
  <2>0. todo = <<Cmd("argo_promote", None)>>
    BY <1>1, <1>15, AbortFacts, PromoteFacts
  <2>1. /\ Head(todo) = Cmd("argo_promote", None) /\ Tail(todo) = << >>
        /\ todo # << >> /\ Len(todo) \in Nat /\ Len(todo) <= 1
    BY <2>0, FirstOf
  <2>2. After = [cluster EXCEPT !.weight = 0, !.share = 100, !.up = FALSE, !.stable = cluster.canary]
    <3>1. Head(todo).op = "argo_promote" /\ Head(todo).arg = None
      BY <2>1 DEF Cmd
    <3> QED
      BY <3>1 DEF After, Effect
  <2>3. /\ After.weight = 0 /\ After.share = 100 /\ After.stable = cluster.canary
        /\ After.canary = cluster.canary /\ After.up = FALSE
    BY <1>1, <2>2 DEF ClusterType
  <2>4. Safe
    <3>1. After \in ClusterType
      BY <1>1, <1>3, <1>7, <1>15, <2>2 DEF ClusterType
    <3>2. After.weight > cluster.weight => After.weight = w /\ Below
      BY <1>3, <1>15, <2>3
    <3>3. After.weight > 0 /\ ~ After.up => glass
      BY <1>3, <1>4, <1>15, <2>3
    <3>4. After.weight = 0 \/ \E i \in DOMAIN Steps : After.weight = Steps[i]
      BY <1>1, <1>2, <1>4, <1>7, <1>15, <2>3
    <3>5. After.canary = cluster.canary /\ After.stable <= ctl.version
      BY <1>1, <1>3, <1>4, <1>15, <2>3
    <3>6. /\ ctl.state = "canary" => After.up = cluster.up
          /\ After.stable # cluster.stable => ctl.state = "promoted" /\ After.stable = ctl.version
      BY <1>4, <1>15, <2>3
    <3> QED
      BY <1>6, <3>1, <3>2, <3>3, <3>4, <3>5, <3>6 DEF Safe
  <2>5. Done
    BY <1>4, <1>7, <1>15, <2>1, <2>3 DEF Done
  <2> QED
    BY <2>1, <2>4, <2>5
<1>16. ASSUME ~ Argo, ctl.state = "promoted", todo = Promote
      PROVE  todo # << >> /\ Safe /\ Len(todo) \in Nat /\ IF Len(todo) > 1 THEN Onward ELSE Done
  <2>1. /\ Head(todo) = Cmd("read_image", None) /\ Tail(todo) = Placed
        /\ todo # << >> /\ Len(todo) \in Nat /\ Len(todo) > 1
    BY <1>16, <1>1, FirstOf, AbortFacts, PromoteFacts
  <2>2. After = cluster
    <3>1. Head(todo).op = "read_image" /\ Head(todo).arg = None
      BY <2>1 DEF Cmd
    <3> QED
      BY <3>1 DEF After, Effect
  <2>3. /\ After.weight = cluster.weight /\ After.share = cluster.share /\ After.stable = cluster.stable
        /\ After.canary = cluster.canary /\ After.up = cluster.up
    BY <1>1, <2>2 DEF ClusterType
  <2>4. Safe
    <3>1. After \in ClusterType
      BY <1>1, <1>3, <1>7, <1>16, <2>2 DEF ClusterType
    <3>2. After.weight > cluster.weight => After.weight = w /\ Below
      BY <1>3, <1>16, <2>3
    <3>3. After.weight > 0 /\ ~ After.up => glass
      BY <1>3, <1>4, <1>16, <2>3
    <3>4. After.weight = 0 \/ \E i \in DOMAIN Steps : After.weight = Steps[i]
      BY <1>1, <1>2, <1>4, <1>7, <1>16, <2>3
    <3>5. After.canary = cluster.canary /\ After.stable <= ctl.version
      BY <1>1, <1>3, <1>4, <1>16, <2>3
    <3>6. /\ ctl.state = "canary" => After.up = cluster.up
          /\ After.stable # cluster.stable => ctl.state = "promoted" /\ After.stable = ctl.version
      BY <1>4, <1>16, <2>3
    <3> QED
      BY <1>6, <3>1, <3>2, <3>3, <3>4, <3>5, <3>6 DEF Safe
  <2>5. Tail(todo) # << >>
    BY <1>1, <2>1, FirstOf, AbortFacts, PromoteFacts DEF Returned, Scaled
  <2>6. Onward
    <3>1. Head(todo).op = "read_image"
      BY <2>1 DEF Cmd
    <3> QED
      BY <1>7, <1>16, <2>1, <2>3, <2>5, <3>1 DEF Onward, Remains
  <2> QED
    BY <2>1, <2>4, <2>6
<1>17. ASSUME ~ Argo, ctl.state = "promoted", todo = Placed, runner.image = ctl.version
      PROVE  todo # << >> /\ Safe /\ Len(todo) \in Nat /\ IF Len(todo) > 1 THEN Onward ELSE Done
  <2>1. /\ Head(todo) = Cmd("set_image", None) /\ Tail(todo) = Awaited
        /\ todo # << >> /\ Len(todo) \in Nat /\ Len(todo) > 1
    BY <1>17, <1>1, FirstOf, AbortFacts, PromoteFacts
  <2>2. After = [cluster EXCEPT !.stable = runner.image]
    <3>1. Head(todo).op = "set_image" /\ Head(todo).arg = None
      BY <2>1 DEF Cmd
    <3> QED
      BY <3>1 DEF After, Effect
  <2>3. /\ After.weight = cluster.weight /\ After.share = cluster.share /\ After.stable = runner.image
        /\ After.canary = cluster.canary /\ After.up = cluster.up
    BY <1>1, <2>2 DEF ClusterType
  <2>4. Safe
    <3>1. After \in ClusterType
      BY <1>1, <1>3, <1>7, <1>17, <2>2 DEF ClusterType
    <3>2. After.weight > cluster.weight => After.weight = w /\ Below
      BY <1>3, <1>17, <2>3
    <3>3. After.weight > 0 /\ ~ After.up => glass
      BY <1>3, <1>4, <1>17, <2>3
    <3>4. After.weight = 0 \/ \E i \in DOMAIN Steps : After.weight = Steps[i]
      BY <1>1, <1>2, <1>4, <1>7, <1>17, <2>3
    <3>5. After.canary = cluster.canary /\ After.stable <= ctl.version
      BY <1>1, <1>3, <1>4, <1>17, <2>3
    <3>6. /\ ctl.state = "canary" => After.up = cluster.up
          /\ After.stable # cluster.stable => ctl.state = "promoted" /\ After.stable = ctl.version
      BY <1>4, <1>17, <2>3
    <3> QED
      BY <1>6, <3>1, <3>2, <3>3, <3>4, <3>5, <3>6 DEF Safe
  <2>5. Tail(todo) # << >>
    BY <1>1, <2>1, FirstOf, AbortFacts, PromoteFacts DEF Returned, Scaled
  <2>6. Onward
    <3>1. Head(todo).op = "set_image"
      BY <2>1 DEF Cmd
    <3> QED
      BY <1>7, <1>17, <2>1, <2>3, <2>5, <3>1 DEF Onward, Remains
  <2> QED
    BY <2>1, <2>4, <2>6
<1>18. ASSUME ~ Argo, ctl.state = "promoted", todo = Awaited, cluster.stable = ctl.version
      PROVE  todo # << >> /\ Safe /\ Len(todo) \in Nat /\ IF Len(todo) > 1 THEN Onward ELSE Done
  <2>1. /\ Head(todo) = Cmd("await_rollout", None) /\ Tail(todo) = Abort
        /\ todo # << >> /\ Len(todo) \in Nat /\ Len(todo) > 1
    BY <1>18, <1>1, FirstOf, AbortFacts, PromoteFacts
  <2>2. After = cluster
    <3>1. Head(todo).op = "await_rollout" /\ Head(todo).arg = None
      BY <2>1 DEF Cmd
    <3> QED
      BY <3>1 DEF After, Effect
  <2>3. /\ After.weight = cluster.weight /\ After.share = cluster.share /\ After.stable = cluster.stable
        /\ After.canary = cluster.canary /\ After.up = cluster.up
    BY <1>1, <2>2 DEF ClusterType
  <2>4. Safe
    <3>1. After \in ClusterType
      BY <1>1, <1>3, <1>7, <1>18, <2>2 DEF ClusterType
    <3>2. After.weight > cluster.weight => After.weight = w /\ Below
      BY <1>3, <1>18, <2>3
    <3>3. After.weight > 0 /\ ~ After.up => glass
      BY <1>3, <1>4, <1>18, <2>3
    <3>4. After.weight = 0 \/ \E i \in DOMAIN Steps : After.weight = Steps[i]
      BY <1>1, <1>2, <1>4, <1>7, <1>18, <2>3
    <3>5. After.canary = cluster.canary /\ After.stable <= ctl.version
      BY <1>1, <1>3, <1>4, <1>18, <2>3
    <3>6. /\ ctl.state = "canary" => After.up = cluster.up
          /\ After.stable # cluster.stable => ctl.state = "promoted" /\ After.stable = ctl.version
      BY <1>4, <1>18, <2>3
    <3> QED
      BY <1>6, <3>1, <3>2, <3>3, <3>4, <3>5, <3>6 DEF Safe
  <2>5. Tail(todo) # << >>
    BY <1>1, <2>1, FirstOf, AbortFacts, PromoteFacts DEF Returned, Scaled
  <2>6. Onward
    <3>1. Head(todo).op = "await_rollout"
      BY <2>1 DEF Cmd
    <3> QED
      BY <1>7, <1>18, <2>1, <2>3, <2>5, <3>1 DEF Onward, Remains
  <2> QED
    BY <2>1, <2>4, <2>6
<1>19. ASSUME ~ Argo, ctl.state # "canary", todo = Abort, (ctl.state = "promoted" => cluster.stable = ctl.version)
      PROVE  todo # << >> /\ Safe /\ Len(todo) \in Nat /\ IF Len(todo) > 1 THEN Onward ELSE Done
  <2>1. /\ Head(todo) = Cmd("canary_weight", 0) /\ Tail(todo) = Returned
        /\ todo # << >> /\ Len(todo) \in Nat /\ Len(todo) > 1
    BY <1>19, <1>1, FirstOf, AbortFacts, PromoteFacts
  <2>2. After = [cluster EXCEPT !.weight = 0]
    <3>1. Head(todo).op = "canary_weight" /\ Head(todo).arg = 0
      BY <2>1 DEF Cmd
    <3> QED
      BY <3>1 DEF After, Effect
  <2>3. /\ After.weight = 0 /\ After.share = cluster.share /\ After.stable = cluster.stable
        /\ After.canary = cluster.canary /\ After.up = cluster.up
    BY <1>1, <2>2 DEF ClusterType
  <2>4. Safe
    <3>1. After \in ClusterType
      BY <1>1, <1>3, <1>7, <1>19, <2>2 DEF ClusterType
    <3>2. After.weight > cluster.weight => After.weight = w /\ Below
      BY <1>3, <1>19, <2>3
    <3>3. After.weight > 0 /\ ~ After.up => glass
      BY <1>3, <1>4, <1>19, <2>3
    <3>4. After.weight = 0 \/ \E i \in DOMAIN Steps : After.weight = Steps[i]
      BY <1>1, <1>2, <1>4, <1>7, <1>19, <2>3
    <3>5. After.canary = cluster.canary /\ After.stable <= ctl.version
      BY <1>1, <1>3, <1>4, <1>19, <2>3
    <3>6. /\ ctl.state = "canary" => After.up = cluster.up
          /\ After.stable # cluster.stable => ctl.state = "promoted" /\ After.stable = ctl.version
      BY <1>4, <1>19, <2>3
    <3> QED
      BY <1>6, <3>1, <3>2, <3>3, <3>4, <3>5, <3>6 DEF Safe
  <2>5. Tail(todo) # << >>
    BY <1>1, <2>1, FirstOf, AbortFacts, PromoteFacts DEF Returned, Scaled
  <2>6. Onward
    <3>1. Head(todo).op = "canary_weight"
      BY <2>1 DEF Cmd
    <3> QED
      BY <1>7, <1>19, <2>1, <2>3, <2>5, <3>1 DEF Onward, Remains
  <2> QED
    BY <2>1, <2>4, <2>6
<1>20. ASSUME ~ Argo, ctl.state # "canary", todo = Returned, cluster.weight = 0, (ctl.state = "promoted" => cluster.stable = ctl.version)
      PROVE  todo # << >> /\ Safe /\ Len(todo) \in Nat /\ IF Len(todo) > 1 THEN Onward ELSE Done
  <2>1. /\ Head(todo) = Cmd("stable_weight", 100) /\ Tail(todo) = Scaled
        /\ todo # << >> /\ Len(todo) \in Nat /\ Len(todo) > 1
    BY <1>20, <1>1, FirstOf, AbortFacts, PromoteFacts DEF Returned, Scaled
  <2>2. After = [cluster EXCEPT !.share = 100]
    <3>1. Head(todo).op = "stable_weight" /\ Head(todo).arg = 100
      BY <2>1 DEF Cmd
    <3> QED
      BY <3>1 DEF After, Effect
  <2>3. /\ After.weight = cluster.weight /\ After.share = 100 /\ After.stable = cluster.stable
        /\ After.canary = cluster.canary /\ After.up = cluster.up
    BY <1>1, <2>2 DEF ClusterType
  <2>4. Safe
    <3>1. After \in ClusterType
      BY <1>1, <1>7, <2>2, ClusterMoved
    <3>2. After.weight > cluster.weight => After.weight = w /\ Below
      BY <1>3, <1>20, <2>3
    <3>3. After.weight > 0 /\ ~ After.up => glass
      BY <1>3, <1>4, <1>20, <2>3
    <3>4. After.weight = 0 \/ \E i \in DOMAIN Steps : After.weight = Steps[i]
      BY <1>1, <1>2, <1>4, <1>7, <1>20, <2>3
    <3>5. After.canary = cluster.canary /\ After.stable <= ctl.version
      BY <1>1, <1>3, <1>4, <1>20, <2>3
    <3>6. /\ ctl.state = "canary" => After.up = cluster.up
          /\ After.stable # cluster.stable => ctl.state = "promoted" /\ After.stable = ctl.version
      BY <1>4, <1>20, <2>3
    <3> QED
      BY <1>6, <3>1, <3>2, <3>3, <3>4, <3>5, <3>6 DEF Safe
  <2>5. Tail(todo) # << >>
    BY <1>1, <2>1, FirstOf, AbortFacts, PromoteFacts DEF Returned, Scaled
  <2>6. Onward
    <3>1. Head(todo).op = "stable_weight"
      BY <2>1 DEF Cmd
    <3> QED
      BY <1>7, <1>20, <2>1, <2>3, <2>5, <3>1 DEF Onward, Remains
  <2> QED
    BY <2>1, <2>4, <2>6
<1>21. ASSUME ~ Argo, ctl.state # "canary", todo = Scaled, cluster.weight = 0, cluster.share = 100, (ctl.state = "promoted" => cluster.stable = ctl.version)
      PROVE  todo # << >> /\ Safe /\ Len(todo) \in Nat /\ IF Len(todo) > 1 THEN Onward ELSE Done
  <2>1. /\ Head(todo) = Cmd("scale_down", None) /\ Tail(todo) = << >>
        /\ todo # << >> /\ Len(todo) \in Nat /\ Len(todo) <= 1
    BY <1>21, <1>1, FirstOf, AbortFacts, PromoteFacts DEF Returned, Scaled
  <2>2. After = [cluster EXCEPT !.up = FALSE]
    <3>1. Head(todo).op = "scale_down" /\ Head(todo).arg = None
      BY <2>1 DEF Cmd
    <3> QED
      BY <3>1 DEF After, Effect
  <2>3. /\ After.weight = cluster.weight /\ After.share = cluster.share /\ After.stable = cluster.stable
        /\ After.canary = cluster.canary /\ After.up = FALSE
    BY <1>1, <2>2 DEF ClusterType
  <2>4. Safe
    <3>1. After \in ClusterType
      BY <1>1, <1>7, <2>2, ClusterMoved
    <3>2. After.weight > cluster.weight => After.weight = w /\ Below
      BY <1>3, <1>21, <2>3
    <3>3. After.weight > 0 /\ ~ After.up => glass
      BY <1>3, <1>4, <1>21, <2>3
    <3>4. After.weight = 0 \/ \E i \in DOMAIN Steps : After.weight = Steps[i]
      BY <1>1, <1>2, <1>4, <1>7, <1>21, <2>3
    <3>5. After.canary = cluster.canary /\ After.stable <= ctl.version
      BY <1>1, <1>3, <1>4, <1>21, <2>3
    <3>6. /\ ctl.state = "canary" => After.up = cluster.up
          /\ After.stable # cluster.stable => ctl.state = "promoted" /\ After.stable = ctl.version
      BY <1>4, <1>21, <2>3
    <3> QED
      BY <1>6, <3>1, <3>2, <3>3, <3>4, <3>5, <3>6 DEF Safe
  <2>5. Done
    BY <1>4, <1>7, <1>21, <2>1, <2>3 DEF Done
  <2> QED
    BY <2>1, <2>4, <2>5
<1>30. CASE ctl.state = "canary"
  BY <1>1, <1>5, <1>7, <1>11, <1>12, <1>13, <1>30, WeightFacts DEF Raising
<1>31. CASE ctl.state = "rolled_back"
  BY <1>1, <1>5, <1>14, <1>19, <1>20, <1>21, <1>31 DEF Undoing, Undone
<1>32. CASE ctl.state = "promoted"
  BY <1>1, <1>5, <1>15, <1>16, <1>17, <1>18, <1>19, <1>20, <1>21, <1>32 DEF Promoting, Undone
<1> QED
  BY <1>1, <1>30, <1>31, <1>32

----------------------------------------------------------------------------
(* Every step preserves the invariant                                      *)

\* The driver does not change, nor what its verbs are.
LEMMA SameVerbs ==
  ASSUME mode' = mode
  PROVE  /\ Argo' = Argo /\ Abort' = Abort /\ Promote' = Promote
         /\ Placed' = Placed /\ Awaited' = Awaited
         /\ \A p : SetWeight(p)' = SetWeight(p)
<1>1. Argo' = Argo /\ \A p : SetWeight(p)' = SetWeight(p)
  BY DEF Argo, SetWeight
<1>2. Abort' = Abort
  BY DEF Abort, SetWeight
<1>3. Promote' = Promote /\ Placed' = Placed /\ Awaited' = Awaited
  BY <1>2 DEF Promote, Placed, Awaited
<1> QED
  BY <1>1, <1>2, <1>3

\* The bounds are positive, and there are two drivers.
LEMMA Bounds ==
  /\ MaxTime \in Nat \ {0} /\ Deadline \in Nat \ {0} /\ MaxVersion \in Nat \ {0}
  /\ MaxMetricFailures \in Nat \ {0} /\ MaxSamples \in Nat \ {0} /\ StepHold \in Nat \ {0}
  /\ \A m \in Modes : m.driver \in {"services", "argo"}
BY RolloutBounds, CanaryConfigValid DEF ValidGates

\* Before the first deployment nothing is out of place.
LEMMA InitRInv == Init => RInv
<1> SUFFICES ASSUME Init PROVE RInv
  OBVIOUS
<1>1. /\ now = 0 /\ mode \in Modes /\ ctl = Idle /\ samples = [l \in Lanes |-> << >>]
      /\ runner = NoRun /\ todo = << >> /\ glass = FALSE
      /\ cluster = [weight |-> 0, share |-> 100, stable |-> 0, canary |-> 0, up |-> FALSE]
  BY DEF Init
<1>2. TypeOK
  <2>1. << >> \in UNION {[1 .. n -> Sample] : n \in 0 .. MaxSamples}
    BY WindowType, Bounds, EmptySeq
  <2>2. samples \in [Lanes -> UNION {[1 .. n -> Sample] : n \in 0 .. MaxSamples}]
    BY <1>1, <2>1
  <2>3. ctl \in ControllerType
    BY <1>1, StepsFacts DEF Idle, ControllerType, None
  <2>4. runner \in RunnerType
    BY <1>1, Bounds DEF NoRun, RunnerType
  <2>5. cluster \in [weight : 0 .. 100, share : 0 .. 100, stable : Nat, canary : Nat, up : BOOLEAN]
    BY <1>1
  <2>6. now \in 0 .. MaxTime /\ mode \in Modes
    BY <1>1, Bounds
  <2>7. glass \in BOOLEAN
    BY <1>1
  <2> QED
    BY <2>2, <2>3, <2>4, <2>5, <2>6, <2>7 DEF TypeOK, RunnerType
<1>3. ClusterFollows /\ NoTrafficToNobody /\ FreshEvidence
  BY <1>1 DEF ClusterFollows, NoTrafficToNobody, FreshEvidence, NoRun, Over
<1>4. Agree /\ Raising /\ Undoing /\ Promoting
  BY <1>1 DEF Agree, Raising, Undoing, Promoting, NoRun
<1>5. Builds /\ Served /\ Held
  BY <1>1 DEF Builds, Served, Held, Over, NoRun, Idle, None
<1> QED
  BY <1>2, <1>3, <1>4, <1>5 DEF RInv, ClusterInv

\* What of the invariant speaks of neither the clock nor the windows, where only these change.
LEMMA OthersStay ==
  ASSUME RInv, UNCHANGED <<mode, ctl, runner, todo, cluster, glass>>
  PROVE  /\ ClusterFollows' /\ NoTrafficToNobody' /\ Agree' /\ Raising' /\ Undoing' /\ Promoting'
         /\ Builds' /\ Served'
<1>1. Over' = Over
  BY DEF Over
<1>2. ClusterFollows' /\ NoTrafficToNobody'
  BY DEF RInv, ClusterInv, ClusterFollows, NoTrafficToNobody, Weight
<1>3. Agree' /\ Builds' /\ Served'
  BY <1>1 DEF RInv, Agree, Builds, Served
<1>4. Raising'
  BY SameVerbs DEF RInv, Raising, Below
<1>5. Undoing' /\ Promoting'
  BY SameVerbs DEF RInv, Undoing, Promoting, Undone
<1> QED
  BY <1>2, <1>3, <1>4, <1>5

\* A window with one more sample, or pruned, fits and holds nothing else.
LEMMA ObservedFacts ==
  ASSUME NEW w \in Seq(Sample), NEW s \in Sample,
         Len(w) <= MaxSamples
  PROVE  /\ Observed(w, s) \in Seq(Sample) /\ Len(Observed(w, s)) <= MaxSamples
         /\ \A i \in DOMAIN Observed(w, s) :
              Observed(w, s)[i] = s \/ \E j \in DOMAIN w : Observed(w, s)[i] = w[j]
<1> DEFINE p == Pruned(w, s.t)
           kept == Append(p, s)
<1>1. \A x \in Sample : x.t \in Int
  BY Bounds DEF Sample
<1>2. /\ p \in Seq(Sample) /\ Len(p) <= Len(w)
      /\ \A i \in DOMAIN p : \E j \in DOMAIN w : p[i] = w[j]
  BY <1>1, PrunedFacts
<1>3. Observed(w, s) = IF Len(kept) > MaxSamples THEN Tail(kept) ELSE kept
  BY DEF Observed
<1> HIDE DEF p
<1>4. /\ kept \in Seq(Sample) /\ Len(kept) = Len(p) + 1 /\ Len(p) \in Nat /\ Len(w) \in Nat
      /\ \A i \in 1 .. Len(p) : kept[i] = p[i]
      /\ kept[Len(p) + 1] = s /\ DOMAIN p = 1 .. Len(p) /\ kept # << >>
  BY <1>2, AppendProperties, LenProperties
<1> HIDE DEF kept
<1>5. \A i \in 1 .. Len(kept) : kept[i] = s \/ \E j \in DOMAIN w : kept[i] = w[j]
  <2>1. \A i \in 1 .. Len(kept) : i \in 1 .. Len(p) \/ i = Len(p) + 1
    BY <1>4
  <2> QED
    BY <1>2, <1>4, <2>1
<1>6. CASE Len(kept) > MaxSamples
  <2>1. /\ Tail(kept) \in Seq(Sample) /\ Len(Tail(kept)) = Len(kept) - 1
        /\ \A i \in 1 .. Len(Tail(kept)) : Tail(kept)[i] = kept[i + 1]
        /\ DOMAIN Tail(kept) = 1 .. Len(Tail(kept))
    BY <1>4, HeadTailProperties, LenProperties
  <2>2. \A i \in 1 .. Len(Tail(kept)) : i + 1 \in 1 .. Len(kept)
    BY <1>4, <2>1
  <2>3. Len(Tail(kept)) <= MaxSamples
    BY <1>2, <1>4, <2>1, Bounds
  <2> QED
    BY <1>3, <1>5, <1>6, <2>1, <2>2, <2>3
<1>7. CASE ~ (Len(kept) > MaxSamples)
  <2>1. Len(kept) <= MaxSamples /\ DOMAIN kept = 1 .. Len(kept)
    BY <1>4, <1>7, Bounds, LenProperties
  <2> QED
    BY <1>3, <1>4, <1>5, <1>7, <2>1
<1> QED
  BY <1>6, <1>7

\* A request is answered and one lane has one sample more.
LEMMA FinishStep ==
  ASSUME RInv, NEW r \in Traffic, Finish(r)
  PROVE  RInv'
<1> DEFINE l == r.lane
           s == [t |-> now, ok |-> r.ok, ms |-> r.ms]
<1>1. /\ UNCHANGED <<now, mode, ctl, runner, todo, cluster, glass>>
      /\ samples' = [samples EXCEPT ![l] = Observed(@, s)]
  BY DEF Finish
<1>2. l \in Lanes /\ s \in Sample /\ TypeOK
  <2>1. TypeOK
    BY DEF RInv, ClusterInv
  <2>2. r \in [lane : Lanes, ok : BOOLEAN, ms : Nat] /\ r.ms \in {q.ms : q \in Traffic}
    BY RolloutBounds
  <2> QED
    BY <2>1, <2>2 DEF Sample, TypeOK
<1> HIDE DEF s
<1>3. \A k \in Lanes : samples[k] \in Seq(Sample) /\ Len(samples[k]) <= MaxSamples
  BY <1>2, WindowType DEF TypeOK
<1>4. /\ Observed(samples[l], s) \in Seq(Sample) /\ Len(Observed(samples[l], s)) <= MaxSamples
      /\ \A i \in DOMAIN Observed(samples[l], s) :
           \/ Observed(samples[l], s)[i] = s
           \/ \E j \in DOMAIN samples[l] : Observed(samples[l], s)[i] = samples[l][j]
  BY <1>2, <1>3, ObservedFacts
<1>5. /\ DOMAIN samples' = Lanes /\ samples'[l] = Observed(samples[l], s)
      /\ \A k \in Lanes : k # l => samples'[k] = samples[k]
      /\ samples' = [k \in Lanes |-> samples'[k]]
  BY <1>1, <1>2 DEF TypeOK
<1>6. TypeOK'
  <2>1. \A k \in Lanes : samples'[k] \in UNION {[1 .. n -> Sample] : n \in 0 .. MaxSamples}
    BY <1>2, <1>3, <1>4, <1>5, WindowType
  <2>2. samples' \in [Lanes -> UNION {[1 .. n -> Sample] : n \in 0 .. MaxSamples}]
    BY <1>5, <2>1
  <2> QED
    BY <1>1, <1>2, <2>2 DEF TypeOK
<1>7. FreshEvidence'
  <2> SUFFICES ASSUME mode.source = "windows", ~ Over, NEW k \in Lanes, NEW i \in DOMAIN samples'[k]
               PROVE  samples'[k][i].t >= runner.started
    BY <1>1 DEF FreshEvidence, Over
  <2>1. \A j \in DOMAIN samples[k] : samples[k][j].t >= runner.started
    BY DEF RInv, FreshEvidence
  <2>2. s.t >= runner.started
    BY DEF s, RInv, Held
  <2>3. CASE k = l
    BY <1>4, <1>5, <2>1, <2>2, <2>3
  <2>4. CASE k # l
    BY <1>5, <2>1, <2>4
  <2> QED
    BY <2>3, <2>4
<1>8. Held'
  BY <1>1 DEF RInv, Held, Over
<1> QED
  BY <1>1, <1>6, <1>7, <1>8, OthersStay DEF RInv, ClusterInv

\* Time passes; what falls out of a window leaves it.
LEMMA TickStep ==
  ASSUME RInv, Tick
  PROVE  RInv'
<1>1. /\ now < MaxTime /\ now' = now + 1 /\ UNCHANGED <<mode, ctl, runner, todo, cluster, glass>>
      /\ samples' = [l \in Lanes |-> Pruned(samples[l], now')]
  BY DEF Tick
<1>2. TypeOK /\ now \in Int /\ now' \in 0 .. MaxTime /\ now' \in Int
  BY <1>1, Bounds DEF RInv, ClusterInv, TypeOK
<1>3. \A k \in Lanes : samples[k] \in Seq(Sample) /\ Len(samples[k]) <= MaxSamples
  BY <1>2, WindowType DEF TypeOK
<1>4. ASSUME NEW k \in Lanes
      PROVE  /\ samples'[k] \in Seq(Sample) /\ Len(samples'[k]) <= MaxSamples
             /\ \A i \in DOMAIN samples'[k] : \E j \in DOMAIN samples[k] : samples'[k][i] = samples[k][j]
  <2>1. \A x \in Sample : x.t \in Int
    BY Bounds DEF Sample
  <2>2. samples'[k] = Pruned(samples[k], now')
    BY <1>1
  <2>3. /\ Pruned(samples[k], now') \in Seq(Sample) /\ Len(Pruned(samples[k], now')) <= Len(samples[k])
        /\ \A i \in DOMAIN Pruned(samples[k], now') :
             \E j \in DOMAIN samples[k] : Pruned(samples[k], now')[i] = samples[k][j]
    BY <1>2, <1>3, <2>1, PrunedFacts
  <2>4. Len(Pruned(samples[k], now')) \in Nat /\ Len(samples[k]) \in Nat
    BY <1>3, <2>3, LenProperties
  <2>5. Len(Pruned(samples[k], now')) <= MaxSamples
    BY <1>3, <2>3, <2>4, Bounds
  <2> QED
    BY <2>2, <2>3, <2>5
<1>5. TypeOK'
  <2>1. \A k \in Lanes : samples'[k] \in UNION {[1 .. n -> Sample] : n \in 0 .. MaxSamples}
    BY <1>4, WindowType
  <2>2. samples' \in [Lanes -> UNION {[1 .. n -> Sample] : n \in 0 .. MaxSamples}]
    BY <1>1, <2>1
  <2> QED
    BY <1>1, <1>2, <2>2 DEF TypeOK
<1>6. FreshEvidence'
  <2> SUFFICES ASSUME mode.source = "windows", ~ Over, NEW k \in Lanes, NEW i \in DOMAIN samples'[k]
               PROVE  samples'[k][i].t >= runner.started
    BY <1>1 DEF FreshEvidence, Over
  <2>1. \A j \in DOMAIN samples[k] : samples[k][j].t >= runner.started
    BY DEF RInv, FreshEvidence
  <2> QED
    BY <1>4, <2>1
<1>7. Held'
  <2> SUFFICES ASSUME ~ Over
               PROVE  /\ runner.started <= now'
                      /\ ctl.state = "canary" => /\ ctl.since <= now'
                                                 /\ ctl.since - runner.started >= StepHold * (ctl.step - 1)
                      /\ ctl.state = "promoted" => now' - runner.started >= StepHold * Len(Steps)
    BY <1>1 DEF Held, Over
  <2>1. /\ runner.started <= now
        /\ ctl.state = "canary" => /\ ctl.since <= now
                                   /\ ctl.since - runner.started >= StepHold * (ctl.step - 1)
        /\ ctl.state = "promoted" => now - runner.started >= StepHold * Len(Steps)
    BY DEF RInv, Held
  <2>2. runner.started \in Nat /\ ctl.since \in Nat /\ now \in Int /\ StepHold * Len(Steps) \in Nat
    BY <1>2, Bounds, StepsFacts, OneMoreHold DEF TypeOK, ControllerType
  <2> DEFINE h == StepHold * Len(Steps)
             g == StepHold * (ctl.step - 1)
  <2> HIDE DEF h, g
  <2>3. ctl.state = "promoted" => now' - runner.started >= h
    BY <1>1, <2>1, <2>2 DEF h
  <2> QED
    BY <1>1, <2>1, <2>2, <2>3 DEF h
<1> QED
  BY <1>1, <1>5, <1>6, <1>7, OthersStay DEF RInv, ClusterInv

\* A new build is deployed: no rollout is running.
LEMMA DeployStep ==
  ASSUME RInv, Deploy
  PROVE  RInv'
<1>1. /\ Over /\ UNCHANGED <<now, mode, ctl, samples, runner, todo, glass>>
      /\ cluster' = [cluster EXCEPT !.canary = cluster.canary + 1, !.up = TRUE]
  BY DEF Deploy
<1>2. TypeOK /\ cluster \in ClusterType
  BY DEF RInv, ClusterInv, TypeOK, ClusterType
<1>3. /\ cluster'.weight = cluster.weight /\ cluster'.share = cluster.share
      /\ cluster'.stable = cluster.stable /\ cluster'.canary = cluster.canary + 1
      /\ cluster'.up = TRUE /\ cluster.canary \in Nat /\ cluster' \in ClusterType
  <2>1. cluster.canary \in Nat /\ cluster.canary + 1 \in Nat
    BY <1>2 DEF ClusterType
  <2>2. cluster' \in ClusterType
    BY <1>1, <1>2, <2>1 DEF ClusterType
  <2>3. cluster'.canary = cluster.canary + 1 /\ cluster'.up = TRUE
    BY <1>1, <1>2 DEF ClusterType
  <2> QED
    BY <1>1, <1>2, <2>1, <2>2, <2>3 DEF ClusterType
<1>4. runner.at # "acting" /\ runner.at # "sleeping" /\ Over'
  BY <1>1 DEF Over
<1>5. TypeOK'
  BY <1>1, <1>2, <1>3 DEF TypeOK, ClusterType
<1>6. ClusterFollows' /\ NoTrafficToNobody' /\ FreshEvidence'
  BY <1>1, <1>3, <1>4 DEF RInv, ClusterInv, ClusterFollows, NoTrafficToNobody, FreshEvidence
<1>7. Agree' /\ Raising' /\ Undoing' /\ Promoting' /\ Held'
  BY <1>1, <1>4 DEF RInv, Agree, Raising, Undoing, Promoting, Held
<1>8. Builds'
  <2>1. cluster.stable <= ctl.version /\ ctl.version <= cluster.canary /\ ctl.version \in Nat
    BY <1>2 DEF RInv, Builds, TypeOK, ControllerType
  <2> QED
    BY <1>1, <1>3, <1>4, <2>1 DEF Builds
<1>9. Served'
  BY <1>1, <1>3, <1>4 DEF RInv, Served
<1> QED
  BY <1>5, <1>6, <1>7, <1>8, <1>9 DEF RInv, ClusterInv

\* The operator takes all traffic from the canary and tells nobody.
LEMMA BreakGlassStep ==
  ASSUME RInv, BreakGlass
  PROVE  RInv'
<1>1. /\ UNCHANGED <<now, mode, ctl, samples, runner, todo>> /\ glass' = TRUE
      /\ cluster' = [cluster EXCEPT !.weight = 0, !.share = 100, !.up = FALSE]
  BY DEF BreakGlass
<1>2. TypeOK /\ cluster \in ClusterType
  BY DEF RInv, ClusterInv, TypeOK, ClusterType
<1>3. /\ cluster'.weight = 0 /\ cluster'.share = 100 /\ cluster'.up = FALSE
      /\ cluster'.stable = cluster.stable /\ cluster'.canary = cluster.canary
  BY <1>1, <1>2 DEF ClusterType
<1>4. Over' = Over
  BY <1>1 DEF Over
<1>5. TypeOK'
  <2>1. 0 \in 0 .. 100 /\ 100 \in 0 .. 100
    OBVIOUS
  <2>2. cluster' \in ClusterType
    BY <1>1, <1>2, <2>1 DEF ClusterType
  <2>3. glass' \in BOOLEAN
    BY <1>1
  <2> QED
    BY <1>1, <1>2, <2>2, <2>3 DEF TypeOK, ClusterType
<1>6. ClusterFollows' /\ NoTrafficToNobody' /\ FreshEvidence'
  BY <1>1, <1>3, <1>4 DEF RInv, ClusterFollows, NoTrafficToNobody, FreshEvidence
<1>7. Agree' /\ Builds' /\ Served' /\ Held'
  BY <1>1, <1>3, <1>4 DEF RInv, Agree, Builds, Served, Held
<1>8. Raising'
  BY <1>1, SameVerbs DEF RInv, Raising, Below
<1>9. Undoing' /\ Promoting'
  BY <1>1, <1>3, SameVerbs DEF RInv, Undoing, Promoting, Undone
<1> QED
  BY <1>5, <1>6, <1>7, <1>8, <1>9 DEF RInv, ClusterInv

\* A rollout starts, with windows that are empty.
LEMMA RunStep ==
  ASSUME RInv, Run
  PROVE  RInv'
<1>1. /\ cluster.up /\ ctl.version < cluster.canary /\ UNCHANGED <<now, mode, cluster>>
      /\ ctl' = [state |-> "canary", version |-> cluster.canary, step |-> 1, since |-> now]
      /\ samples' = Cleared(samples) /\ todo' = SetWeight(Weight(ctl')) /\ glass' = FALSE
      /\ runner' = [NoRun EXCEPT !.at = "acting", !.started = now]
  BY DEF Run, Started
<1>2. TypeOK /\ cluster.stable \in Nat /\ cluster.canary \in Nat /\ ctl.version \in Nat /\ now \in Nat
  BY Bounds DEF RInv, ClusterInv, TypeOK, ControllerType
<1>3. /\ runner' = [at |-> "acting", started |-> now, failures |-> 0, image |-> 0,
                    next |-> "none", outcome |-> "none"]
      /\ ~ Over'
  BY <1>1 DEF NoRun, Over
<1>4. TypeOK'
  <2>1. ctl' \in ControllerType
    BY <1>1, <1>2, StepsFacts DEF ControllerType
  <2>2. runner' \in RunnerType
    BY <1>2, <1>3, Bounds DEF RunnerType
  <2>3. samples' \in [Lanes -> UNION {[1 .. n -> Sample] : n \in 0 .. MaxSamples}]
    <3>1. << >> \in UNION {[1 .. n -> Sample] : n \in 0 .. MaxSamples}
      <4>1. << >> \in Seq(Sample) /\ Len(<< >>) <= MaxSamples
        BY Bounds, EmptySeq
      <4> QED
        BY <4>1, WindowType
    <3> QED
      BY <1>1, <1>2, <3>1 DEF Cleared, TypeOK
  <2>4. glass' \in BOOLEAN
    BY <1>1
  <2> QED
    BY <1>1, <1>2, <2>1, <2>2, <2>3, <2>4 DEF TypeOK, RunnerType
<1>5. ClusterFollows' /\ NoTrafficToNobody' /\ Agree'
  BY <1>1, <1>3 DEF ClusterFollows, NoTrafficToNobody, Agree
<1>6. FreshEvidence'
  <2> SUFFICES ASSUME mode.source = "windows"
               PROVE  \A l \in Lanes : \A i \in DOMAIN samples'[l] : samples'[l][i].t >= runner'.started
    BY <1>1 DEF FreshEvidence
  <2>1. samples' = [l \in Lanes |-> << >>]
    BY <1>1 DEF Cleared
  <2> QED
    BY <2>1
<1>7. Raising'
  <2>1. Weight(ctl') = Steps[1] /\ ctl'.step = 1
    BY <1>1 DEF Weight
  <2>2. todo' = SetWeight(Steps[1])
    BY <1>1, <2>1
  <2>3. Below'
    BY <2>1 DEF Below
  <2> QED
    BY <1>1, <2>1, <2>2, <2>3 DEF Raising, SetWeight
<1>8. Undoing' /\ Promoting'
  BY <1>1 DEF Undoing, Promoting
<1>9. Builds'
  <2>1. cluster.stable <= ctl.version /\ ctl.version < cluster.canary
    BY <1>1 DEF RInv, Builds
  <2> QED
    BY <1>1, <1>2, <2>1 DEF Builds
<1>10. Served'
  BY <1>1 DEF RInv, Served
<1>11. Held'
  <2>1. StepHold * (1 - 1) = 0
    BY Bounds
  <2>2. ctl'.since - runner'.started >= StepHold * (ctl'.step - 1)
    BY <1>1, <1>2, <1>3, <2>1
  <2> QED
    BY <1>1, <1>2, <1>3, <2>2 DEF Held
<1> QED
  BY <1>4, <1>5, <1>6, <1>7, <1>8, <1>9, <1>10, <1>11 DEF RInv, ClusterInv

\* What the gates need to advance or to promote.
LEMMA DecisionFacts ==
  ASSUME NEW c \in ControllerType, NEW s, NEW t, NEW n \in Nat
  PROVE  /\ Decision(c, s, t, n) \in {"hold", "advance", "promote", "rollback"}
         /\ Decision(c, s, t, n) = "advance" => n - c.since >= StepHold /\ c.step # Len(Steps)
         /\ Decision(c, s, t, n) = "promote" => n - c.since >= StepHold /\ c.step = Len(Steps)
<1>1. c.since \in Nat /\ StepHold \in Nat
  BY Bounds DEF ControllerType
<1> DEFINE d == Decision(c, s, t, n)
           thin == t.requests < MinRequests
           stalled == StallTimeout # None /\ n - c.since >= StallTimeout
           b == Breach(s, t)
<1>2. n - c.since < StepHold <=> ~ (n - c.since >= StepHold)
  BY <1>1
<1>3. d = CASE thin /\ stalled -> "rollback"
            [] thin /\ ~ stalled -> "hold"
            [] ~ thin /\ b -> "rollback"
            [] ~ thin /\ ~ b /\ n - c.since < StepHold -> "hold"
            [] ~ thin /\ ~ b /\ n - c.since >= StepHold /\ c.step = Len(Steps) -> "promote"
            [] OTHER -> "advance"
  BY DEF Decision
<1> HIDE DEF d, thin, stalled, b
<1>4. ASSUME thin
      PROVE  d \in {"hold", "rollback"}
  BY <1>3, <1>4
<1>5. ASSUME ~ thin
      PROVE  /\ d \in {"hold", "advance", "promote", "rollback"}
             /\ d = "advance" => n - c.since >= StepHold /\ c.step # Len(Steps)
             /\ d = "promote" => n - c.since >= StepHold /\ c.step = Len(Steps)
  BY <1>2, <1>3, <1>5
<1>6. /\ d \in {"hold", "advance", "promote", "rollback"}
      /\ d = "advance" => n - c.since >= StepHold /\ c.step # Len(Steps)
      /\ d = "promote" => n - c.since >= StepHold /\ c.step = Len(Steps)
  BY <1>4, <1>5
<1> QED
  BY <1>6 DEF d

\* A verdict, and the verb that begins with it.
LEMMA Verdict ==
  ASSUME RInv, runner.at = "sleeping", UNCHANGED <<now, mode, samples, cluster, glass>>,
         NEW kind \in {"hold", "advance", "promote", "rollback"}, NEW outcome,
         Applies(kind, outcome),
         kind = "advance" => /\ now - ctl.since >= StepHold /\ ctl.step # Len(Steps)
                             /\ outcome = "none",
         kind = "promote" => /\ now - ctl.since >= StepHold /\ ctl.step = Len(Steps)
                             /\ outcome = "promoted",
         kind = "rollback" => outcome \in {"rolled_back", "timed_out"}
  PROVE  RInv'
<1>1. /\ TypeOK /\ ctl \in ControllerType /\ ctl.state = "canary" /\ todo = << >> /\ ~ Over
      /\ ClusterFollows /\ NoTrafficToNobody /\ FreshEvidence /\ Builds /\ Served /\ Held
  BY DEF RInv, ClusterInv, TypeOK, Agree, Over
<1>2. /\ ctl.step \in 1 .. Len(Steps) /\ ctl.since \in Nat /\ ctl.version \in Nat
      /\ now \in Nat /\ runner.started \in Nat /\ Len(Steps) \in Nat
  BY <1>1, StepsFacts, Bounds DEF TypeOK, ControllerType
<1>3. ~ glass => /\ cluster.up /\ cluster.weight = Steps[ctl.step]
                 /\ cluster.share = 100 - cluster.weight
  BY <1>1 DEF ClusterFollows, Weight
<1>4. ctl' = Decided(ctl, kind, now)
  BY DEF Applies
<1>5. ASSUME ~ Over', runner'.started = runner.started
      PROVE  /\ NoTrafficToNobody' /\ FreshEvidence' /\ Served'
             /\ runner.started <= now
             /\ ctl.since <= now /\ ctl.since - runner.started >= StepHold * (ctl.step - 1)
  <2>1. NoTrafficToNobody' /\ FreshEvidence'
    BY <1>1, <1>5 DEF NoTrafficToNobody, FreshEvidence
  <2>2. Served'
    BY <1>1 DEF Served
  <2> QED
    BY <1>1, <2>1, <2>2 DEF Held
<1>6. CASE kind = "hold"
  <2>1. ctl' = ctl
    BY <1>4, <1>6 DEF Decided
  <2>2. runner' = [runner EXCEPT !.failures = 0] /\ todo' = todo
    BY <1>6 DEF Applies
  <2>3. /\ runner'.at = "sleeping" /\ runner'.started = runner.started /\ ~ Over'
        /\ runner'.outcome = runner.outcome
    BY <1>1, <2>2 DEF TypeOK, Over
  <2>4. TypeOK'
    <3>1. 0 \in 0 .. MaxMetricFailures /\ runner \in RunnerType
      BY <1>1, Bounds DEF TypeOK, RunnerType
    <3>2. runner' \in RunnerType
      BY <2>2, <3>1 DEF RunnerType
    <3> QED
      BY <1>1, <2>1, <2>2, <3>2 DEF TypeOK, RunnerType
  <2>5. ClusterFollows'
    BY <1>1, <2>1, <2>3 DEF ClusterFollows, Weight
  <2>6. Agree' /\ Raising' /\ Undoing' /\ Promoting'
    BY <1>1, <2>1, <2>2, <2>3 DEF Agree, Raising, Undoing, Promoting
  <2>7. Builds' /\ Held'
    BY <1>1, <2>1, <2>3 DEF Builds, Held
  <2> QED
    BY <1>5, <2>3, <2>4, <2>5, <2>6, <2>7 DEF RInv, ClusterInv
<1>7. ASSUME kind # "hold"
      PROVE  /\ runner' = [runner EXCEPT !.at = "acting", !.failures = 0, !.next = outcome]
             /\ runner'.at = "acting" /\ runner'.started = runner.started /\ ~ Over'
             /\ runner'.next = outcome /\ ClusterFollows'
  <2>1. runner' = [runner EXCEPT !.at = "acting", !.failures = 0, !.next = outcome]
    BY <1>7 DEF Applies
  <2>2. runner'.at = "acting" /\ runner'.started = runner.started /\ runner'.next = outcome
    BY <1>1, <2>1 DEF TypeOK
  <2> QED
    BY <2>1, <2>2 DEF Over, ClusterFollows
<1>8. ASSUME kind # "hold", outcome \in {"none", "promoted", "rolled_back", "timed_out"},
             ctl' \in ControllerType
      PROVE  TypeOK'
  <2>1. 0 \in 0 .. MaxMetricFailures /\ runner \in RunnerType
    BY <1>1, Bounds DEF TypeOK, RunnerType
  <2>2. runner' \in RunnerType
    BY <1>7, <1>8, <2>1 DEF RunnerType
  <2> QED
    BY <1>1, <1>8, <2>2 DEF TypeOK, RunnerType
<1>9. CASE kind = "advance"
  <2>1. ctl' = [ctl EXCEPT !.step = ctl.step + 1, !.since = now]
    BY <1>4, <1>9 DEF Decided
  <2>2. todo' = SetWeight(Weight(ctl'))
    BY <1>9 DEF Applies
  <2>3. /\ ctl'.state = "canary" /\ ctl'.version = ctl.version /\ ctl'.since = now
        /\ ctl'.step = ctl.step + 1 /\ ctl.step + 1 \in 1 .. Len(Steps)
    BY <1>1, <1>2, <1>9, <2>1 DEF ControllerType
  <2>4. ctl' \in ControllerType
    BY <1>1, <1>2, <2>1, <2>3 DEF ControllerType
  <2>5. TypeOK'
    BY <1>8, <1>9, <2>4
  <2>6. Raising'
    <3>1. Weight(ctl') = Steps[ctl.step + 1] /\ ctl'.step - 1 = ctl.step
      BY <1>2, <2>3 DEF Weight
    <3>2. todo' = SetWeight(Steps[ctl.step + 1])
      BY <2>2, <3>1
    <3>3. Below'
      BY <1>3, <3>1 DEF Below
    <3> QED
      BY <2>3, <3>2, <3>3 DEF Raising, SetWeight
  <2>7. Agree' /\ Undoing' /\ Promoting'
    BY <1>7, <1>9, <2>3 DEF Agree, Undoing, Promoting
  <2>8. Builds'
    BY <1>1, <1>7, <1>9, <2>3 DEF Builds
  <2>9. Held'
    <3>1. /\ ctl.since - runner.started >= StepHold * (ctl.step - 1) /\ runner.started <= now
      BY <1>5, <1>7, <1>9
    <3>2. StepHold * ctl.step = StepHold * (ctl.step - 1) + StepHold
      <4>1. ctl.step - 1 \in Nat /\ ctl.step - 1 + 1 = ctl.step
        BY <1>2
      <4> QED
        BY <4>1, Bounds, OneMoreHold
    <3> DEFINE g == StepHold * (ctl.step - 1)
    <3>3. g \in Nat /\ StepHold \in Nat
      BY <1>2, Bounds, OneMoreHold
    <3>4. now - runner.started >= StepHold * ctl.step
      <4>1. StepHold * ctl.step = g + StepHold /\ ctl.since - runner.started >= g
        BY <3>1, <3>2
      <4> HIDE DEF g
      <4> QED
        BY <1>2, <1>9, <3>3, <4>1
    <3>5. ctl'.step - 1 = ctl.step
      BY <1>2, <2>3
    <3> QED
      BY <1>2, <1>7, <1>9, <2>3, <3>1, <3>4, <3>5 DEF Held
  <2> QED
    BY <1>5, <1>7, <1>9, <2>5, <2>6, <2>7, <2>8, <2>9 DEF RInv, ClusterInv
<1>10. CASE kind = "promote"
  <2>1. ctl' = [ctl EXCEPT !.state = "promoted"]
    BY <1>4, <1>10 DEF Decided
  <2>2. todo' = Promote
    BY <1>10 DEF Applies
  <2>3. ctl'.state = "promoted" /\ ctl'.version = ctl.version
    BY <1>1, <2>1 DEF ControllerType
  <2>4. ctl' \in ControllerType
    BY <1>1, <2>1 DEF ControllerType
  <2>5. TypeOK'
    BY <1>8, <1>10, <2>4
  <2>6. Raising' /\ Undoing'
    BY <2>3 DEF Raising, Undoing
  <2>7. Promoting'
    BY <2>2, SameVerbs DEF Promoting
  <2>8. Agree'
    BY <1>7, <1>10, <2>3 DEF Agree
  <2>9. Builds'
    BY <1>1, <1>7, <1>10, <2>3 DEF Builds
  <2>10. Held'
    <3> DEFINE g == StepHold * (ctl.step - 1)
    <3>1. ctl.since - runner.started >= g /\ runner.started <= now
      BY <1>5, <1>7, <1>10
    <3>2. StepHold * Len(Steps) = g + StepHold
      <4>1. ctl.step - 1 \in Nat /\ ctl.step - 1 + 1 = ctl.step /\ ctl.step = Len(Steps)
        BY <1>2, <1>10
      <4>2. StepHold * (ctl.step - 1 + 1) = StepHold * (ctl.step - 1) + StepHold
        BY <4>1, Bounds, OneMoreHold
      <4> QED
        BY <4>1, <4>2
    <3>3. g \in Nat /\ StepHold \in Nat
      BY <1>2, Bounds, OneMoreHold
    <3> HIDE DEF g
    <3>4. now - runner.started >= g + StepHold
      BY <1>2, <1>10, <3>1, <3>3
    <3>5. now - runner.started >= StepHold * Len(Steps)
      BY <3>2, <3>4
    <3> QED
      BY <1>7, <1>10, <2>3, <3>1, <3>5 DEF Held
  <2> QED
    BY <1>5, <1>7, <1>10, <2>5, <2>6, <2>7, <2>8, <2>9, <2>10 DEF RInv, ClusterInv
<1>11. CASE kind = "rollback"
  <2>1. ctl' = [ctl EXCEPT !.state = "rolled_back"]
    BY <1>4, <1>11 DEF Decided
  <2>2. todo' = Abort
    BY <1>11 DEF Applies
  <2>3. ctl'.state = "rolled_back" /\ ctl'.version = ctl.version
    BY <1>1, <2>1 DEF ControllerType
  <2>4. ctl' \in ControllerType
    BY <1>1, <2>1 DEF ControllerType
  <2>5. TypeOK'
    BY <1>8, <1>11, <2>4
  <2>6. Raising' /\ Promoting'
    BY <2>3 DEF Raising, Promoting
  <2>7. Undoing'
    BY <2>2, SameVerbs DEF Undoing
  <2>8. Agree'
    BY <1>7, <1>11, <2>3 DEF Agree
  <2>9. Builds'
    BY <1>1, <1>7, <1>11, <2>3 DEF Builds
  <2>10. Held'
    BY <1>5, <1>7, <1>11, <2>3 DEF Held
  <2> QED
    BY <1>5, <1>7, <1>11, <2>5, <2>6, <2>7, <2>8, <2>9, <2>10 DEF RInv, ClusterInv
<1> QED
  BY <1>6, <1>9, <1>10, <1>11

\* The loop wakes and the gates decide.
LEMMA EvaluateStep ==
  ASSUME RInv, Evaluate
  PROVE  RInv'
<1> DEFINE kind == Decision(ctl, Evidence("stable"), Evidence("canary"), now)
<1>1. /\ runner.at = "sleeping" /\ Applies(kind, OutcomeOf(kind))
      /\ UNCHANGED <<now, mode, samples, cluster, glass>>
  <2>1. PICK k \in {kind} : Applies(k, OutcomeOf(k))
    BY DEF Evaluate
  <2>2. k = kind
    BY <2>1
  <2> HIDE DEF kind
  <2> QED
    BY <2>1, <2>2 DEF Evaluate, Awake
<1>2. ctl \in ControllerType /\ now \in Nat
  BY Bounds DEF RInv, ClusterInv, TypeOK
<1>3. /\ kind \in {"hold", "advance", "promote", "rollback"}
      /\ kind = "advance" => now - ctl.since >= StepHold /\ ctl.step # Len(Steps)
      /\ kind = "promote" => now - ctl.since >= StepHold /\ ctl.step = Len(Steps)
  BY <1>2, DecisionFacts
<1> HIDE DEF kind
<1>4. /\ kind = "advance" => OutcomeOf(kind) = "none"
      /\ kind = "promote" => OutcomeOf(kind) = "promoted"
      /\ kind = "rollback" => OutcomeOf(kind) = "rolled_back"
  BY <1>3 DEF OutcomeOf
<1> QED
  BY <1>1, <1>3, <1>4, Verdict

\* The deadline of the rollout ends it as a rollback.
LEMMA ExpireStep ==
  ASSUME RInv, Expire
  PROVE  RInv'
<1>1. /\ runner.at = "sleeping" /\ Applies("rollback", "timed_out")
      /\ UNCHANGED <<now, mode, samples, cluster, glass>>
  BY DEF Expire, Awake
<1> QED
  BY <1>1, Verdict

\* No answer from Prometheus for too long ends it as a rollback, too.
LEMMA NoMetricsStep ==
  ASSUME RInv, NoMetrics
  PROVE  RInv'
<1>1. runner.at = "sleeping" /\ UNCHANGED <<now, mode, samples, cluster, glass>>
  BY DEF NoMetrics, Awake
<1>2. CASE runner.failures + 1 >= MaxMetricFailures
  <2>1. Applies("rollback", "rolled_back")
    BY <1>2 DEF NoMetrics
  <2> QED
    BY <1>1, <2>1, Verdict
<1>3. CASE ~ (runner.failures + 1 >= MaxMetricFailures)
  <2>1. runner' = [runner EXCEPT !.failures = runner.failures + 1] /\ UNCHANGED <<ctl, todo>>
    BY <1>3 DEF NoMetrics
  <2>2. TypeOK /\ runner \in RunnerType
    BY DEF RInv, ClusterInv, TypeOK, RunnerType
  <2>3. /\ runner'.at = "sleeping" /\ runner'.started = runner.started
        /\ runner'.outcome = runner.outcome /\ ~ Over /\ ~ Over'
    BY <1>1, <2>1, <2>2 DEF RunnerType, Over
  <2>4. TypeOK'
    <3>1. runner.failures + 1 \in 0 .. MaxMetricFailures
      BY <1>3, <2>2, Bounds DEF RunnerType
    <3>2. runner' \in RunnerType
      BY <2>1, <2>2, <3>1 DEF RunnerType
    <3> QED
      BY <1>1, <2>1, <2>2, <3>2 DEF TypeOK, RunnerType
  <2>5. ClusterFollows' /\ NoTrafficToNobody' /\ FreshEvidence'
    BY <1>1, <2>1, <2>3 DEF RInv, ClusterInv, ClusterFollows, NoTrafficToNobody, FreshEvidence, Weight
  <2>6. Agree' /\ Raising' /\ Undoing' /\ Promoting'
    BY <1>1, <2>1, <2>3 DEF RInv, Agree, Raising, Undoing, Promoting
  <2>7. Builds' /\ Served' /\ Held'
    BY <1>1, <2>1, <2>3 DEF RInv, Builds, Served, Held
  <2> QED
    BY <2>4, <2>5, <2>6, <2>7 DEF RInv, ClusterInv
<1> QED
  BY <1>2, <1>3

\* A command fails, done or not, and the runner gives up.
LEMMA CommandFailsStep ==
  ASSUME RInv, NEW done \in BOOLEAN, CommandFails(done)
  PROVE  RInv'
<1>1. /\ runner.at = "acting" /\ todo' = << >> /\ UNCHANGED <<now, mode, glass>>
      /\ cluster' = IF done THEN After ELSE cluster
      /\ runner' = [NoRun EXCEPT !.at = "failed"]
      /\ ctl' = [Idle EXCEPT !.version = ctl.version] /\ samples' = Cleared(samples)
  BY DEF CommandFails, After
<1>2. TypeOK /\ Safe /\ ctl.version \in Nat /\ cluster \in ClusterType
  BY <1>1, OneCommand DEF RInv, ClusterInv, TypeOK, ControllerType, ClusterType
<1>3. /\ ctl' = [state |-> "idle", version |-> ctl.version, step |-> 1, since |-> 0]
      /\ runner' = [at |-> "failed", started |-> 0, failures |-> 0, image |-> 0,
                    next |-> "none", outcome |-> "none"]
      /\ Over'
  BY <1>1 DEF Idle, NoRun, Over
<1>4. /\ cluster' \in ClusterType /\ cluster'.canary = cluster.canary
      /\ cluster'.weight > 0 /\ ~ cluster'.up => glass
      /\ cluster'.weight = 0 \/ \E i \in DOMAIN Steps : cluster'.weight = Steps[i]
      /\ cluster'.stable <= ctl.version
  <2>1. CASE done
    BY <1>1, <1>2, <2>1 DEF Safe
  <2>2. CASE ~ done
    BY <1>1, <1>2, <2>2 DEF RInv, ClusterInv, NoTrafficToNobody, Served, Builds
  <2> QED
    BY <2>1, <2>2
<1>5. TypeOK'
  <2>1. ctl' \in ControllerType
    BY <1>2, <1>3, StepsFacts DEF ControllerType
  <2>2. runner' \in RunnerType
    BY <1>3, Bounds DEF RunnerType
  <2>3. samples' \in [Lanes -> UNION {[1 .. n -> Sample] : n \in 0 .. MaxSamples}]
    <3>1. << >> \in UNION {[1 .. n -> Sample] : n \in 0 .. MaxSamples}
      BY WindowType, Bounds, EmptySeq
    <3> QED
      BY <1>1, <1>2, <3>1 DEF Cleared, TypeOK
  <2> QED
    BY <1>1, <1>2, <1>4, <2>1, <2>2, <2>3 DEF TypeOK, RunnerType, ClusterType
<1>6. ClusterFollows' /\ NoTrafficToNobody' /\ FreshEvidence'
  BY <1>1, <1>3, <1>4 DEF ClusterFollows, NoTrafficToNobody, FreshEvidence
<1>7. Agree' /\ Raising' /\ Undoing' /\ Promoting' /\ Held'
  BY <1>1, <1>3 DEF Agree, Raising, Undoing, Promoting, Held
<1>8. Builds' /\ Served'
  <2>1. ctl.version <= cluster.canary
    BY DEF RInv, Builds
  <2> QED
    BY <1>3, <1>4, <2>1 DEF Builds, Served
<1> QED
  BY <1>5, <1>6, <1>7, <1>8 DEF RInv, ClusterInv

\* A command that is not the last of its verb.
LEMMA CommandOnward ==
  ASSUME RInv, Command, Len(todo) > 1
  PROVE  RInv'
<1>1. /\ runner.at = "acting" /\ cluster' = After /\ todo' = Tail(todo)
      /\ runner' = [runner EXCEPT !.image = IF Head(todo).op = "read_image" THEN cluster.canary
                                            ELSE runner.image]
      /\ UNCHANGED <<now, mode, ctl, samples, glass>>
  BY DEF Command, After
<1>2. TypeOK /\ Safe /\ Onward /\ runner \in RunnerType /\ cluster.canary \in Nat
  BY <1>1, OneCommand DEF RInv, ClusterInv, TypeOK, RunnerType
<1>3. /\ runner'.at = "acting" /\ runner'.started = runner.started /\ runner'.next = runner.next
      /\ runner'.image = IF Head(todo).op = "read_image" THEN cluster.canary ELSE runner.image
      /\ runner' \in RunnerType
  BY <1>1, <1>2 DEF RunnerType
<1>4. ~ Over /\ ~ Over'
  BY <1>1, <1>3 DEF Over
<1>5. TypeOK'
  BY <1>1, <1>2, <1>3 DEF TypeOK, RunnerType, Safe, ClusterType
<1>6. ClusterFollows' /\ NoTrafficToNobody' /\ FreshEvidence'
  BY <1>1, <1>2, <1>3, <1>4 DEF RInv, ClusterFollows, NoTrafficToNobody, FreshEvidence, Safe
<1>7. Agree'
  BY <1>1, <1>3 DEF RInv, Agree
<1>8. Builds' /\ Served' /\ Held'
  BY <1>1, <1>2, <1>3, <1>4 DEF RInv, Builds, Served, Held, Safe
<1>9. ctl.state = "promoted" => ctl.version = cluster.canary
  BY <1>4 DEF RInv, Builds
<1>10. Raising'
  BY <1>1, <1>2, <1>3, SameVerbs DEF Onward, Raising
<1>11. Undoing'
  BY <1>1, <1>2, <1>3, SameVerbs DEF Onward, Undoing, Undone, Remains
<1>12. Promoting'
  BY <1>1, <1>2, <1>3, <1>9, SameVerbs DEF Onward, Promoting, Undone, Remains
<1> QED
  BY <1>5, <1>6, <1>7, <1>8, <1>10, <1>11, <1>12 DEF RInv, ClusterInv

\* The last command of a verb.
LEMMA CommandDone ==
  ASSUME RInv, Command, ~ (Len(todo) > 1)
  PROVE  RInv'
<1>1. /\ runner.at = "acting" /\ cluster' = After /\ todo' = Tail(todo)
      /\ runner' = IF ctl.state = "canary" THEN [runner EXCEPT !.at = "sleeping"]
                   ELSE [NoRun EXCEPT !.outcome = runner.next]
      /\ UNCHANGED <<now, mode, ctl, samples, glass>>
  BY DEF Command, After
<1>2. TypeOK /\ Safe /\ Done /\ runner \in RunnerType /\ ctl \in ControllerType
  BY <1>1, OneCommand DEF RInv, ClusterInv, TypeOK, RunnerType
<1>3. /\ cluster' \in ClusterType /\ todo' = << >>
      /\ ctl.version <= cluster'.canary /\ cluster'.stable <= ctl.version
      /\ cluster'.canary = cluster.canary /\ NoTrafficToNobody'
      /\ ctl.state # "promoted" => cluster'.stable < ctl.version
      /\ ctl.version = cluster.canary /\ ~ Over
      /\ cluster'.weight = 0 \/ \E i \in DOMAIN Steps : cluster'.weight = Steps[i]
  BY <1>1, <1>2 DEF RInv, Builds, Safe, Done, Over, NoTrafficToNobody
<1>4. CASE ctl.state = "canary"
  <2>1. runner' = [runner EXCEPT !.at = "sleeping"]
    BY <1>1, <1>4
  <2>2. /\ runner'.at = "sleeping" /\ runner'.started = runner.started /\ runner' \in RunnerType
        /\ ~ Over'
    BY <1>2, <2>1 DEF RunnerType, Over
  <2>3. TypeOK'
    BY <1>1, <1>2, <1>3, <2>2 DEF TypeOK, RunnerType, ClusterType
  <2>4. cluster'.up = cluster.up /\ (cluster.up \/ glass)
    BY <1>1, <1>2, <1>3, <1>4 DEF Safe, RInv, Served
  <2>5. ClusterFollows'
    BY <1>1, <1>2, <1>4, <2>2, <2>4 DEF ClusterFollows, Weight, Done
  <2>6. FreshEvidence' /\ Agree' /\ Raising' /\ Undoing' /\ Promoting'
    BY <1>1, <1>3, <1>4, <2>2 DEF RInv, FreshEvidence, Agree, Raising, Undoing, Promoting
  <2>7. Builds' /\ Served' /\ Held'
    BY <1>1, <1>3, <1>4, <2>2, <2>4 DEF RInv, Builds, Served, Held
  <2> QED
    BY <1>3, <2>3, <2>5, <2>6, <2>7 DEF RInv, ClusterInv
<1>5. CASE ctl.state # "canary"
  <2>1. runner' = [at |-> "idle", started |-> 0, failures |-> 0, image |-> 0,
                   next |-> "none", outcome |-> runner.next]
    BY <1>1, <1>5 DEF NoRun
  <2>2. runner' \in RunnerType /\ Over'
    BY <1>2, <2>1, Bounds DEF RunnerType, Over
  <2>3. TypeOK'
    BY <1>1, <1>2, <1>3, <2>2 DEF TypeOK, RunnerType, ClusterType
  <2>4. /\ ctl.state \in {"promoted", "rolled_back"}
        /\ ctl.state = "promoted" => runner.next = "promoted"
        /\ ctl.state = "rolled_back" => runner.next \in {"rolled_back", "timed_out"}
    BY <1>1, <1>2, <1>5 DEF RInv, Agree, ControllerType
  <2>5. ClusterFollows'
    <3>1. cluster'.weight = 0 /\ cluster'.share = 100
      BY <1>1, <1>2, <1>5 DEF Done
    <3>2. ctl.state = "promoted" => cluster'.stable = ctl.version
      BY <1>1, <1>2 DEF Done
    <3>3. ctl.state = "rolled_back" => cluster'.stable # ctl.version
      BY <1>2, <1>3 DEF ControllerType, ClusterType
    <3>4. (cluster'.stable = ctl.version) <=> (runner.next = "promoted")
      BY <2>4, <3>2, <3>3
    <3> QED
      BY <1>1, <2>1, <3>1, <3>4 DEF ClusterFollows
  <2>6. FreshEvidence' /\ Agree' /\ Raising' /\ Undoing' /\ Promoting' /\ Held'
    BY <1>3, <2>1, <2>2 DEF FreshEvidence, Agree, Raising, Undoing, Promoting, Held
  <2>7. Builds' /\ Served'
    BY <1>1, <1>3, <2>2 DEF Builds, Served
  <2> QED
    BY <1>3, <2>3, <2>5, <2>6, <2>7 DEF RInv, ClusterInv
<1> QED
  BY <1>4, <1>5

\* A step that changes nothing.
LEMMA StutterStep ==
  ASSUME RInv, UNCHANGED vars
  PROVE  RInv'
<1>1. UNCHANGED <<now, mode, ctl, samples, runner, todo, cluster, glass>>
  BY DEF vars
<1>2. TypeOK' /\ FreshEvidence' /\ Held'
  BY <1>1 DEF RInv, ClusterInv, TypeOK, FreshEvidence, Held, Over
<1> QED
  BY <1>1, <1>2, OthersStay DEF RInv, ClusterInv

\* Every step keeps the invariant.
LEMMA NextRInv == RInv /\ [Next]_vars => RInv'
<1> SUFFICES ASSUME RInv, [Next]_vars PROVE RInv'
  OBVIOUS
<1>1. CASE Command
  BY <1>1, CommandOnward, CommandDone
<1>2. CASE Expire
  BY <1>2, ExpireStep
<1>3. CASE NoMetrics
  BY <1>3, NoMetricsStep
<1>4. CASE Evaluate
  BY <1>4, EvaluateStep
<1>5. CASE Run
  BY <1>5, RunStep
<1>6. CASE Deploy
  BY <1>6, DeployStep
<1>7. CASE BreakGlass
  BY <1>7, BreakGlassStep
<1>8. CASE Tick
  BY <1>8, TickStep
<1>9. ASSUME NEW done \in BOOLEAN, CommandFails(done)
      PROVE  RInv'
  BY <1>9, CommandFailsStep
<1>10. ASSUME NEW r \in Traffic, Finish(r)
       PROVE  RInv'
  BY <1>10, FinishStep
<1>11. CASE UNCHANGED vars
  BY <1>11, StutterStep
<1> QED
  BY <1>1, <1>2, <1>3, <1>4, <1>5, <1>6, <1>7, <1>8, <1>9, <1>10, <1>11 DEF Next, RunnerStep

----------------------------------------------------------------------------
(* Theorems                                                                *)

\* Hence every state of every behaviour has it.
LEMMA Invariance == Spec => []RInv
BY InitRInv, NextRInv, PTL DEF Spec

\* The cluster is where the controller thinks it is (k8s.py, controller.py): where the runner
\* waits or is done the split, the images and the pods are those of the controller's state,
\* unless a command of the last verb failed or the glass was broken, and traffic never goes to a canary that is scaled down.
THEOREM ClusterFollowsController == Spec => []ClusterInv
<1>1. RInv => ClusterInv
  BY DEF RInv
<1> QED
  BY Invariance, <1>1, PTL

\* What a step may do to the cluster, given the invariant.
LEMMA EarnedStep ==
  ASSUME RInv, [Next]_vars
  PROVE  /\ cluster'.stable # cluster.stable =>
              /\ ctl.state = "promoted" /\ cluster'.stable = ctl.version
              /\ now - runner.started >= StepHold * Len(Steps)
         /\ cluster'.weight > cluster.weight =>
              \E i \in DOMAIN Steps : /\ cluster'.weight = Steps[i]
                                      /\ ~ glass => cluster.weight = IF i = 1 THEN 0 ELSE Steps[i - 1]
<1>1. cluster \in ClusterType
  BY DEF RInv, ClusterInv, TypeOK, ClusterType
<1>2. ASSUME runner.at = "acting", cluster' = After
      PROVE  /\ cluster'.stable # cluster.stable =>
                  /\ ctl.state = "promoted" /\ cluster'.stable = ctl.version
                  /\ now - runner.started >= StepHold * Len(Steps)
             /\ cluster'.weight > cluster.weight =>
                  \E i \in DOMAIN Steps :
                    /\ cluster'.weight = Steps[i]
                    /\ ~ glass => cluster.weight = IF i = 1 THEN 0 ELSE Steps[i - 1]
  <2>1. Safe
    BY <1>2, OneCommand
  <2>2. ctl.state = "promoted" => now - runner.started >= StepHold * Len(Steps)
    BY <1>2 DEF RInv, Held, Over
  <2> QED
    BY <1>2, <2>1, <2>2 DEF Safe
<1>3. ASSUME cluster'.stable = cluster.stable, cluster'.weight = cluster.weight \/ cluster'.weight = 0
      PROVE  cluster'.stable = cluster.stable /\ ~ (cluster'.weight > cluster.weight)
  <2>1. cluster.weight \in 0 .. 100
    BY <1>1 DEF ClusterType
  <2> QED
    BY <1>3, <2>1
<1>4. CASE Command
  BY <1>2, <1>4 DEF Command, After
<1>5. ASSUME NEW done \in BOOLEAN, CommandFails(done)
      PROVE  cluster' = cluster \/ (runner.at = "acting" /\ cluster' = After)
  BY <1>5 DEF CommandFails, After
<1>6. CASE Deploy
  <2>1. cluster'.stable = cluster.stable /\ cluster'.weight = cluster.weight
    BY <1>1, <1>6 DEF Deploy, ClusterType
  <2> QED
    BY <1>3, <2>1
<1>7. CASE BreakGlass
  <2>1. cluster'.stable = cluster.stable /\ cluster'.weight = 0
    BY <1>1, <1>7 DEF BreakGlass, ClusterType
  <2> QED
    BY <1>3, <2>1
<1>8. CASE cluster' = cluster
  BY <1>3, <1>8
<1>9. \/ Command \/ Deploy \/ BreakGlass \/ cluster' = cluster
      \/ \E done \in BOOLEAN : CommandFails(done)
  BY DEF Next, RunnerStep, Expire, NoMetrics, Evaluate, Run, Tick, Finish, vars
<1> QED
  BY <1>2, <1>4, <1>5, <1>6, <1>7, <1>8, <1>9

\* A build earns its promotion and its traffic (controller.py, tick()): it becomes the stable
\* one only after every step was held, and the canary's share only goes up by a step, from
\* the one before.
THEOREM PromotionEarned == Spec => RolloutEarned
<1>1. RInv /\ [Next]_vars =>
        [cluster'.stable # cluster.stable =>
           /\ ctl.state = "promoted" /\ cluster'.stable = ctl.version
           /\ now - runner.started >= StepHold * Len(Steps)]_vars
  BY EarnedStep
<1>2. RInv /\ [Next]_vars =>
        [cluster'.weight > cluster.weight =>
           \E i \in DOMAIN Steps : /\ cluster'.weight = Steps[i]
                                   /\ ~glass => cluster.weight = IF i = 1 THEN 0 ELSE Steps[i - 1]]_vars
  BY EarnedStep
<1> QED
  BY Invariance, <1>1, <1>2, PTL DEF Spec, RolloutEarned, EarnedPromotion, StepwiseWeight

----------------------------------------------------------------------------
(* Percentiles                                                             *)

\* Products of the numbers a percentile is made of.
LEMMA Products ==
  /\ \A x, y \in Int, r \in Nat : x <= y => x * r <= y * r
  /\ \A x \in Int, r \in Int : x * r \in Int
OBVIOUS

\* Of finitely many requests one is the slowest.
LEMMA Slowest ==
  ASSUME NEW w, NEW I, IsFiniteSet(I), I # {}, \A i \in I : w[i].ms \in Nat
  PROVE  \E i \in I : \A j \in I : w[j].ms <= w[i].ms
<1> DEFINE upTo(i) == {j \in I : w[j].ms <= w[i].ms}
           short(i) == Cardinality(I) - Cardinality(upTo(i))
           T == {short(i) : i \in I}
<1>1. \A i \in I : /\ IsFiniteSet(upTo(i)) /\ Cardinality(upTo(i)) \in Nat
                   /\ Cardinality(upTo(i)) <= Cardinality(I)
  BY FS_Subset, FS_CardinalityType
<1>2. Cardinality(I) \in Nat
  BY FS_CardinalityType
<1>3. \A i \in I : short(i) \in Nat
  <2> HIDE DEF upTo
  <2> QED
    BY <1>1, <1>2
<1>4. T \in SUBSET Nat /\ T # {}
  <2> HIDE DEF short
  <2> QED
    BY <1>3
<1>5. PICK i \in I : \A j \in I : short(i) <= short(j)
  <2>1. PICK x \in T : \A y \in T : x <= y
    <3> HIDE DEF T
    <3> QED
      BY <1>4, Least
  <2> HIDE DEF short
  <2> QED
    BY <2>1
<1>6. ASSUME NEW j \in I, ~ (w[j].ms <= w[i].ms)
      PROVE  FALSE
  <2>1. upTo(i) \in SUBSET upTo(j) /\ j \in upTo(j) /\ j \notin upTo(i)
    BY <1>6
  <2>2. Cardinality(upTo(i)) <= Cardinality(upTo(j)) /\ Cardinality(upTo(i)) # Cardinality(upTo(j))
    <3> HIDE DEF upTo
    <3> QED
      BY <1>1, <2>1, FS_Subset
  <2> HIDE DEF upTo
  <2> QED
    BY <1>1, <1>2, <1>5, <2>2
<1> QED
  BY <1>6

\* A rank is the latency of one of the requests.
LEMMA RankedIsOne ==
  ASSUME NEW w, NEW I, IsFiniteSet(I), \A i \in I : w[i].ms \in Nat, NEW k \in 1 .. Cardinality(I)
  PROVE  \E i \in I : Ranked(w, I, k) = w[i].ms
<1> DEFINE enough == {i \in I : Cardinality({j \in I : w[j].ms <= w[i].ms}) >= k}
           T == {w[i].ms : i \in enough}
<1>1. Cardinality(I) \in Nat /\ I # {}
  BY FS_CardinalityType, FS_EmptySet
<1>2. PICK m \in I : \A j \in I : w[j].ms <= w[m].ms
  BY <1>1, Slowest
<1>3. {j \in I : w[j].ms <= w[m].ms} = I
  BY <1>2
<1>4. m \in enough
  BY <1>1, <1>3
<1>5. T \in SUBSET Nat /\ T # {} /\ \A x \in T : \E i \in I : x = w[i].ms
  <2>1. enough \subseteq I
    OBVIOUS
  <2> HIDE DEF enough
  <2> QED
    BY <1>4, <2>1
<1>6. Ranked(w, I, k) = Min(T)
  BY DEF Ranked
<1>7. Min(T) \in T
  <2> HIDE DEF T
  <2>1. \E x \in T : \A y \in T : x <= y
    BY <1>5, Least
  <2> QED
    BY <2>1 DEF Min
<1> HIDE DEF T
<1> QED
  BY <1>5, <1>6, <1>7

\* Interpolation stays between the two values.
LEMMA Interpolated ==
  ASSUME NEW a \in Nat, NEW b \in Nat, NEW r \in 0 .. 99
  PROVE  LET p == 100 * a + (b - a) * r IN
           /\ p \in Nat
           /\ \/ 100 * a <= p /\ p <= 100 * b
              \/ 100 * b <= p /\ p <= 100 * a
<1> DEFINE m == (b - a) * r
<1>1. m \in Int
  BY Products
<1>2. CASE a <= b
  <2>1. 0 * r <= (b - a) * r /\ 0 <= b - a
    BY <1>2, Products
  <2>2. r * (b - a) <= 100 * (b - a) /\ r * (b - a) = m
    BY <2>1, Products
  <2>3. 0 <= m /\ m <= 100 * b - 100 * a
    BY <2>1, <2>2
  <2> HIDE DEF m
  <2>4. 100 * a + m \in Nat /\ 100 * a <= 100 * a + m /\ 100 * a + m <= 100 * b
    BY <1>1, <2>3
  <2> QED
    BY <2>4 DEF m
<1>3. CASE ~ (a <= b)
  <2>1. 0 <= a - b /\ (a - b) * r <= (a - b) * 100
    <3>1. 0 <= a - b /\ r * (a - b) <= 100 * (a - b)
      BY <1>3, Products
    <3> QED
      BY <3>1
  <2>2. 0 * r <= (a - b) * r
    BY <2>1, Products
  <2>3. m = 0 - (a - b) * r
    OBVIOUS
  <2>4. m <= 0 /\ 100 * b - 100 * a <= m
    BY <2>1, <2>2, <2>3
  <2> HIDE DEF m
  <2>5. 100 * a + m \in Nat /\ 100 * b <= 100 * a + m /\ 100 * a + m <= 100 * a
    BY <1>1, <2>4
  <2> QED
    BY <2>5 DEF m
<1> QED
  BY <1>2, <1>3

\* The requests of a window that succeeded.
Fine(w) == {i \in DOMAIN w : w[i].ok}

\* A percentile lies between the latencies of two requests that succeeded.
LEMMA PercentileFacts ==
  ASSUME NEW w, IsFiniteSet(Fine(w)), \A i \in Fine(w) : w[i].ms \in Nat
  PROVE  /\ Fine(w) = {} => P95(w) = None
         /\ P95(w) \in Nat
         /\ Fine(w) # {} => \E i, j \in Fine(w) : 100 * w[i].ms <= P95(w) /\ P95(w) <= 100 * w[j].ms
<1> DEFINE n == Cardinality(Fine(w))
           rank == 95 * (n - 1)
           low == 1 + rank \div 100
           value(k) == Ranked(w, Fine(w), k)
<1>1. n \in Nat /\ (n = 0 <=> Fine(w) = {})
  BY FS_CardinalityType, FS_EmptySet
<1>2. P95(w) = CASE Fine(w) = {} -> None
                 [] n = 1 -> 100 * value(1)
                 [] OTHER -> 100 * value(low) + (value(low + 1) - value(low)) * (rank % 100)
  BY DEF P95, Fine
<1>3. \A k \in 1 .. n : \E i \in Fine(w) : value(k) = w[i].ms
  BY RankedIsOne
<1> HIDE DEF value
<1>4. CASE Fine(w) = {}
  <2>1. P95(w) = None
    BY <1>1, <1>2, <1>4
  <2>2. None \in Nat
    BY DEF None
  <2> QED
    BY <1>4, <2>1, <2>2
<1>5. CASE n = 1
  <2>1. Fine(w) # {} /\ P95(w) = 100 * value(1) /\ 1 \in 1 .. n
    BY <1>1, <1>2, <1>5
  <2>2. PICK i \in Fine(w) : value(1) = w[i].ms
    BY <1>3, <2>1
  <2> QED
    BY <2>1, <2>2
<1>6. CASE Fine(w) # {} /\ n # 1
  <2>1. n \in Nat /\ n >= 2
    BY <1>1, <1>6
  <2>2. P95(w) = 100 * value(low) + (value(low + 1) - value(low)) * (rank % 100)
    BY <1>2, <1>6
  <2>3. low \in 1 .. n /\ low + 1 \in 1 .. n /\ rank % 100 \in 0 .. 99
    <3> HIDE DEF n
    <3>1. rank \in Nat
      BY <2>1
    <3> DEFINE q == rank \div 100
               r == rank % 100
    <3>2. q \in Nat /\ r \in 0 .. 99 /\ rank = 100 * q + r
      <4> HIDE DEF rank
      <4> QED
        BY <3>1
    <3>3. rank < 100 * (n - 1)
      BY <2>1
    <3> HIDE DEF rank
    <3>4. q < n - 1
      <4> HIDE DEF q, r
      <4> QED
        BY <2>1, <3>1, <3>2, <3>3
    <3> HIDE DEF q
    <3>5. 1 + q \in 1 .. n /\ 1 + q + 1 \in 1 .. n
      BY <2>1, <3>2, <3>4
    <3> QED
      BY <3>2, <3>5 DEF q
  <2> HIDE DEF low, rank, n
  <2>4. PICK i \in Fine(w) : value(low) = w[i].ms
    BY <1>3, <2>3
  <2>5. PICK j \in Fine(w) : value(low + 1) = w[j].ms
    BY <1>3, <2>3
  <2>6. /\ P95(w) = 100 * w[i].ms + (w[j].ms - w[i].ms) * (rank % 100)
        /\ w[i].ms \in Nat /\ w[j].ms \in Nat
    BY <2>2, <2>4, <2>5
  <2>7. /\ P95(w) \in Nat
        /\ \/ 100 * w[i].ms <= P95(w) /\ P95(w) <= 100 * w[j].ms
           \/ 100 * w[j].ms <= P95(w) /\ P95(w) <= 100 * w[i].ms
    <3> DEFINE a == w[i].ms
               b == w[j].ms
               r == rank % 100
    <3>1. a \in Nat /\ b \in Nat /\ r \in 0 .. 99 /\ P95(w) = 100 * a + (b - a) * r
      BY <2>3, <2>6
    <3> HIDE DEF a, b, r
    <3>2. /\ P95(w) \in Nat
          /\ \/ 100 * a <= P95(w) /\ P95(w) <= 100 * b
             \/ 100 * b <= P95(w) /\ P95(w) <= 100 * a
      BY <3>1, Interpolated
    <3> QED
      BY <3>2 DEF a, b
  <2> QED
    BY <1>6, <2>7
<1> QED
  BY <1>4, <1>5, <1>6

----------------------------------------------------------------------------
(* Evidence and verdicts                                                   *)

\* A window as a tick leaves it: in the order of time, with nothing that has expired.
Aged(w, n) ==
  \A i \in DOMAIN w : /\ w[i].t >= n - Window /\ w[i].t <= n
                      /\ \A j \in DOMAIN w : i <= j => w[i].t <= w[j].t

WindowsAged == \A l \in Lanes : Aged(samples[l], now)

\* Pruning leaves such a window as it is.
LEMMA AgedStays ==
  ASSUME NEW w \in Seq(Sample), NEW n \in Nat, Aged(w, n)
  PROVE  Pruned(w, n) = w
<1>1. w # << >> => 1 \in DOMAIN w
  OBVIOUS
<1> QED
  BY <1>1 DEF Pruned, Aged

\* A tick later what has expired is pruned.
LEMMA AgedPruned ==
  ASSUME NEW w \in Seq(Sample), NEW n \in Nat, Aged(w, n)
  PROVE  Aged(Pruned(w, n + 1), n + 1)
<1> DEFINE v == Pruned(w, n + 1)
<1>1. \A x \in Sample : x.t \in Int
  BY Bounds DEF Sample
<1>2. v \in Seq(Sample) /\ Survives(v, w, n + 1)
  BY <1>1, PrunedFacts
<1> HIDE DEF v
<1> DEFINE Rest(d) == /\ Len(v) = Len(w) - d /\ \A i \in 1 .. Len(w) - d : v[i] = w[i + d]
                      /\ d < Len(w) => w[d + 1].t >= (n + 1) - Window
<1>3. PICK d \in 0 .. Len(w) : Rest(d)
  BY <1>2 DEF Survives
<1>4. DOMAIN v = 1 .. Len(w) - d /\ DOMAIN w = 1 .. Len(w) /\ Len(w) \in Nat
  BY <1>2, <1>3
<1>5. \A i \in 1 .. Len(w) : w[i].t \in Int /\ w[i].t <= n
  BY <1>1, <1>4 DEF Aged
<1>6. ASSUME NEW i \in DOMAIN v
      PROVE  /\ v[i].t >= (n + 1) - Window /\ v[i].t <= n + 1
             /\ \A j \in DOMAIN v : i <= j => v[i].t <= v[j].t
  <2>1. v[i] = w[i + d] /\ i + d \in 1 .. Len(w) /\ d + 1 \in 1 .. Len(w) /\ d + 1 <= i + d /\ d < Len(w)
    BY <1>3, <1>4
  <2>2. w[d + 1].t <= w[i + d].t
    BY <1>4, <2>1 DEF Aged
  <2>3. Window \in Nat
    BY CanaryConfigValid DEF ValidGates
  <2>4. v[i].t >= (n + 1) - Window /\ v[i].t <= n + 1
    <3>1. w[d + 1].t >= (n + 1) - Window /\ w[d + 1].t \in Int /\ w[i + d].t \in Int /\ w[i + d].t <= n
      BY <1>3, <1>5, <2>1
    <3>2. v[i].t = w[i + d].t
      BY <2>1
    <3> QED
      BY <2>2, <2>3, <3>1, <3>2
  <2>5. ASSUME NEW j \in DOMAIN v, i <= j
        PROVE  v[i].t <= v[j].t
    <3>1. v[j] = w[j + d] /\ j + d \in 1 .. Len(w) /\ i + d <= j + d
      BY <1>3, <1>4, <2>5
    <3> QED
      BY <1>4, <2>1, <3>1 DEF Aged
  <2> QED
    BY <2>4, <2>5
<1>7. Aged(v, n + 1)
  BY <1>6 DEF Aged
<1> QED
  BY <1>7 DEF v

\* A new sample is the youngest.
LEMMA AgedObserved ==
  ASSUME NEW w \in Seq(Sample), NEW s \in Sample, s.t \in Nat, Aged(w, s.t)
  PROVE  Aged(Observed(w, s), s.t)
<1> DEFINE kept == Append(w, s)
<1>1. Observed(w, s) = IF Len(kept) > MaxSamples THEN Tail(kept) ELSE kept
  BY AgedStays DEF Observed
<1>2. /\ kept \in Seq(Sample) /\ Len(kept) = Len(w) + 1 /\ Len(w) \in Nat
      /\ \A i \in 1 .. Len(w) : kept[i] = w[i]
      /\ kept[Len(w) + 1] = s /\ kept # << >>
      /\ DOMAIN w = 1 .. Len(w) /\ DOMAIN kept = 1 .. Len(w) + 1
  BY AppendProperties, LenProperties
<1> HIDE DEF kept
<1>3. Window \in Nat
  BY CanaryConfigValid DEF ValidGates
<1>4. Aged(kept, s.t)
  <2>1. \A x \in Sample : x.t \in Int
    BY Bounds DEF Sample
  <2>2. \A i \in 1 .. Len(w) + 1 : i \in 1 .. Len(w) \/ i = Len(w) + 1
    BY <1>2
  <2>3. \A i \in 1 .. Len(w) + 1 : kept[i].t >= s.t - Window /\ kept[i].t <= s.t
    BY <1>2, <1>3, <2>1, <2>2 DEF Aged
  <2>4. ASSUME NEW i \in 1 .. Len(w) + 1, NEW j \in 1 .. Len(w) + 1, i <= j
        PROVE  kept[i].t <= kept[j].t
    <3>1. CASE j \in 1 .. Len(w)
      <4>1. i \in 1 .. Len(w)
        BY <1>2, <2>4, <3>1
      <4> QED
        BY <1>2, <2>4, <3>1, <4>1 DEF Aged
    <3>2. CASE j = Len(w) + 1
      BY <1>2, <2>3, <3>2
    <3> QED
      BY <2>2, <3>1, <3>2
  <2> QED
    BY <1>2, <2>3, <2>4 DEF Aged
<1>5. Aged(Tail(kept), s.t)
  <2>1. /\ Tail(kept) \in Seq(Sample) /\ DOMAIN Tail(kept) = 1 .. Len(w)
        /\ \A i \in 1 .. Len(w) : Tail(kept)[i] = kept[i + 1] /\ i + 1 \in 1 .. Len(w) + 1
    BY <1>2, HeadTailProperties, LenProperties
  <2>2. \A i, j \in 1 .. Len(w) : i <= j => i + 1 <= j + 1
    BY <1>2
  <2> QED
    BY <1>2, <1>4, <2>1, <2>2 DEF Aged
<1> QED
  BY <1>1, <1>4, <1>5

\* So no window ever holds a sample that has expired.
LEMMA WindowsStayAged == RInv /\ WindowsAged /\ [Next]_vars => WindowsAged'
<1> SUFFICES ASSUME RInv, WindowsAged, [Next]_vars
             PROVE  WindowsAged'
  OBVIOUS
<1>1. /\ TypeOK /\ now \in Nat /\ DOMAIN samples = Lanes
      /\ \A k \in Lanes : samples[k] \in Seq(Sample)
  BY Bounds, WindowType DEF RInv, ClusterInv, TypeOK
<1>2. CASE UNCHANGED <<now, samples>>
  BY <1>2 DEF WindowsAged, Aged
<1>3. ASSUME NEW r \in Traffic, Finish(r)
      PROVE  WindowsAged'
  <2> DEFINE s == [t |-> now, ok |-> r.ok, ms |-> r.ms]
  <2>1. r.lane \in Lanes /\ s \in Sample /\ s.t = now
    <3>1. r \in [lane : Lanes, ok : BOOLEAN, ms : Nat] /\ r.ms \in {q.ms : q \in Traffic}
      BY RolloutBounds
    <3> QED
      BY <1>1, <3>1 DEF Sample, TypeOK
  <2>2. now' = now /\ samples' = [samples EXCEPT ![r.lane] = Observed(samples[r.lane], s)]
    BY <1>3 DEF Finish
  <2> HIDE DEF s
  <2>3. Aged(Observed(samples[r.lane], s), now)
    BY <1>1, <2>1, AgedObserved DEF WindowsAged
  <2>4. ASSUME NEW l \in Lanes
        PROVE  Aged(samples'[l], now)
    BY <1>1, <2>1, <2>2, <2>3 DEF WindowsAged
  <2> QED
    BY <2>2, <2>4 DEF WindowsAged
<1>4. CASE Tick
  <2>1. now' = now + 1 /\ \A l \in Lanes : samples'[l] = Pruned(samples[l], now + 1)
    BY <1>4 DEF Tick
  <2>2. \A l \in Lanes : Aged(Pruned(samples[l], now + 1), now + 1)
    BY <1>1, AgedPruned DEF WindowsAged
  <2> QED
    BY <2>1, <2>2 DEF WindowsAged
<1>5. CASE samples' = Cleared(samples) /\ now' = now
  <2>1. \A l \in Lanes : samples'[l] = samples[l] \/ samples'[l] = << >>
    BY <1>5 DEF Cleared
  <2>2. Aged(<< >>, now)
    BY DEF Aged
  <2>3. \A l \in Lanes : Aged(samples'[l], now)
    BY <2>1, <2>2 DEF WindowsAged
  <2> QED
    BY <1>5, <2>3 DEF WindowsAged
<1>6. \/ UNCHANGED <<now, samples>> \/ Tick
      \/ samples' = Cleared(samples) /\ now' = now
      \/ \E r \in Traffic : Finish(r)
  BY DEF Next, RunnerStep, Command, Expire, NoMetrics, Evaluate, Run, CommandFails, Deploy, BreakGlass, vars
<1> QED
  BY <1>2, <1>3, <1>4, <1>5, <1>6

\* What a lane's evidence says, request by request.
LEMMA EvidenceFacts ==
  ASSUME RInv, WindowsAged, ~ Over, NEW l \in Lanes
  PROVE  /\ Evidence(l).requests = Cardinality(Heard(l))
         /\ Evidence(l).errors = Cardinality(Failed(l))
         /\ Evidence(l).p95 = P95(samples[l])
         /\ IsFiniteSet(Fine(samples[l])) /\ \A i \in Fine(samples[l]) : samples[l][i].ms \in Nat
         /\ Times(l) = {samples[l][i].ms : i \in Fine(samples[l])}
         /\ Cardinality(Heard(l)) \in Nat /\ Cardinality(Failed(l)) \in Nat
<1> DEFINE w == samples[l]
<1>1. w \in Seq(Sample) /\ now \in Nat
  BY Bounds, WindowType DEF RInv, ClusterInv, TypeOK
<1>2. DOMAIN w = 1 .. Len(w) /\ Len(w) \in Nat
  BY <1>1
<1>3. Heard(l) = DOMAIN w
  BY DEF RInv, FreshEvidence, WindowsAged, Aged, Heard
<1>4. IsFiniteSet(DOMAIN w) /\ Cardinality(DOMAIN w) = Len(w)
  <2>1. IsFiniteSet(1 .. Len(w)) /\ Cardinality(1 .. Len(w)) = IF 1 > Len(w) THEN 0 ELSE Len(w) - 1 + 1
    <3> DEFINE n == Len(w)
    <3>1. 1 \in Int /\ n \in Int
      BY <1>2
    <3> HIDE DEF n
    <3>2. IsFiniteSet(1 .. n) /\ Cardinality(1 .. n) = IF 1 > n THEN 0 ELSE n - 1 + 1
      BY ONLY <3>1, FS_Interval
    <3> QED
      BY <3>2 DEF n
  <2>2. (IF 1 > Len(w) THEN 0 ELSE Len(w) - 1 + 1) = Len(w)
    BY <1>2
  <2> QED
    BY <1>2, <2>1, <2>2
<1>5. Failed(l) = {i \in DOMAIN w : ~ w[i].ok}
  BY <1>3 DEF Failed
<1>6. /\ Cardinality(Heard(l)) \in Nat /\ Cardinality(Failed(l)) \in Nat
      /\ Cardinality(Failed(l)) <= Cardinality(Heard(l))
  <2>1. Failed(l) \in SUBSET Heard(l) /\ IsFiniteSet(Heard(l))
    BY <1>3, <1>4, <1>5
  <2> QED
    BY <2>1, FS_Subset, FS_CardinalityType
<1>7. Pruned(w, now) = w
  BY <1>1, AgedStays DEF WindowsAged
<1>8. Summary(w, now) = [requests |-> Cardinality(Heard(l)), errors |-> Cardinality(Failed(l)), p95 |-> P95(w)]
  <2>1. Summary(w, now) = [requests |-> Len(w), errors |-> Cardinality({i \in DOMAIN w : ~ w[i].ok}),
                           p95 |-> P95(w)]
    BY <1>7 DEF Summary
  <2> HIDE DEF w
  <2> QED
    BY <1>3, <1>4, <1>5, <2>1
<1>9. Fetched(w) = Summary(w, now)
  BY <1>6, <1>8 DEF Fetched
<1>10. Evidence(l) = [requests |-> Cardinality(Heard(l)), errors |-> Cardinality(Failed(l)), p95 |-> P95(w)]
  BY <1>8, <1>9 DEF Evidence
<1>11. Fine(w) \in SUBSET DOMAIN w /\ Heard(l) \ Failed(l) = Fine(w)
  BY <1>3, <1>5 DEF Fine
<1>12. \A i \in DOMAIN w : w[i].ms \in Nat
  <2>1. \A x \in Sample : x.ms \in Nat
    <3>1. {r.ms : r \in Traffic} \subseteq Nat
      BY RolloutBounds
    <3> QED
      BY <3>1 DEF Sample
  <2> QED
    BY <1>1, <2>1
<1>13. IsFiniteSet(Fine(w))
  BY <1>4, <1>11, FS_Subset
<1>14. Times(l) = {w[i].ms : i \in Fine(w)}
  BY <1>11 DEF Times
<1> HIDE DEF w
<1>15. Evidence(l).requests = Cardinality(Heard(l)) /\ Evidence(l).errors = Cardinality(Failed(l))
       /\ Evidence(l).p95 = P95(w)
  BY <1>10
<1> QED
  BY <1>6, <1>11, <1>12, <1>13, <1>14, <1>15 DEF w

\* The gates' numbers, of the two lanes.
LEMMA GateConstants ==
  /\ MaxErrorPct \in Nat /\ MaxRatioPct \in Nat \ {0} /\ MaxMs \in Nat /\ MinRequests \in Nat
BY CanaryConfigValid DEF ValidGates

\* 95 of 100 compare like the requests they lie between.
LEMMA Compare ==
  ASSUME NEW c \in Nat, NEW s \in Nat, NEW x \in Nat, NEW y \in Nat
  PROVE  /\ c <= 100 * x /\ 100 * y <= s /\ 100 * c > MaxRatioPct * s => Slower(x, y)
         /\ 100 * x <= c /\ s <= 100 * y /\ Slower(x, y) => 100 * c > MaxRatioPct * s
<1>1. MaxRatioPct \in Nat
  BY GateConstants
<1>2. MaxRatioPct * s \in Int /\ MaxRatioPct * y \in Int /\ MaxRatioPct * (100 * y) = 100 * (MaxRatioPct * y)
  BY <1>1
<1>3. /\ 100 * y <= s => MaxRatioPct * (100 * y) <= MaxRatioPct * s
      /\ s <= 100 * y => MaxRatioPct * s <= MaxRatioPct * (100 * y)
  <2>1. /\ 100 * y <= s => (100 * y) * MaxRatioPct <= s * MaxRatioPct
        /\ s <= 100 * y => s * MaxRatioPct <= (100 * y) * MaxRatioPct
    BY <1>1, Products
  <2> QED
    BY <1>1, <2>1
<1> DEFINE p == MaxRatioPct * s
           q == MaxRatioPct * y
<1>4. /\ p \in Int /\ q \in Int
      /\ 100 * y <= s => 100 * q <= p
      /\ s <= 100 * y => p <= 100 * q
  BY <1>2, <1>3
<1> HIDE DEF p, q
<1>5. /\ c <= 100 * x /\ 100 * y <= s /\ 100 * c > p => 100 * x > q
      /\ 100 * x <= c /\ s <= 100 * y /\ 100 * x > q => 100 * c > p
  BY <1>4
<1> QED
  BY <1>5 DEF p, q, Slower

\* A breach has a culprit.
LEMMA Culprit ==
  ASSUME RInv, WindowsAged, ~ Over, Breach(Evidence("stable"), Evidence("canary"))
  PROVE  \/ Unreliable
         \/ \E ms \in Times("canary") : OverLimit(ms) \/ \E b \in Baseline : Slower(ms, b)
<1> DEFINE c == samples["canary"]
           s == samples["stable"]
<1>0. "stable" \in Lanes /\ "canary" \in Lanes
  BY DEF Lanes
<1>1. CASE 100 * Evidence("canary").errors > MaxErrorPct * Evidence("canary").requests
  BY <1>0, <1>1, EvidenceFacts DEF Unreliable
<1>2. /\ Evidence("canary").p95 = P95(c) /\ IsFiniteSet(Fine(c))
      /\ \A i \in Fine(c) : c[i].ms \in Nat /\ c[i].ms \in Times("canary")
  BY <1>0, EvidenceFacts
<1>3. /\ Evidence("stable").p95 = P95(s) /\ IsFiniteSet(Fine(s))
      /\ \A i \in Fine(s) : s[i].ms \in Nat /\ s[i].ms \in Times("stable")
      /\ Evidence("stable").requests >= MinRequests => Baseline = Times("stable")
  BY <1>0, EvidenceFacts DEF Baseline
<1> HIDE DEF c, s
<1>4. /\ P95(c) \in Nat /\ (P95(c) # None => Fine(c) # {})
      /\ Fine(c) # {} => \E i, j \in Fine(c) : 100 * c[i].ms <= P95(c) /\ P95(c) <= 100 * c[j].ms
  BY <1>2, PercentileFacts
<1>5. /\ P95(s) \in Nat /\ (P95(s) # None => Fine(s) # {})
      /\ Fine(s) # {} => \E i, j \in Fine(s) : 100 * s[i].ms <= P95(s) /\ P95(s) <= 100 * s[j].ms
  BY <1>3, PercentileFacts
<1>6. CASE MaxMs # None /\ Evidence("canary").p95 > 100 * MaxMs
  <2>1. P95(c) # None
    BY <1>2, <1>6, GateConstants DEF None
  <2>2. PICK j \in Fine(c) : P95(c) <= 100 * c[j].ms
    BY <1>4, <2>1
  <2>3. c[j].ms > MaxMs
    BY <1>2, <1>4, <1>6, <2>2, GateConstants
  <2> QED
    BY <1>2, <1>6, <2>3 DEF OverLimit
<1>7. CASE /\ Evidence("stable").requests >= MinRequests /\ Evidence("canary").p95 # None
           /\ Evidence("stable").p95 # None
           /\ 100 * Evidence("canary").p95 > MaxRatioPct * Evidence("stable").p95
  <2>1. PICK j \in Fine(c) : P95(c) <= 100 * c[j].ms
    BY <1>2, <1>4, <1>7
  <2>2. PICK i \in Fine(s) : 100 * s[i].ms <= P95(s)
    BY <1>3, <1>5, <1>7
  <2>3. Slower(c[j].ms, s[i].ms)
    <3>1. c[j].ms \in Nat /\ s[i].ms \in Nat /\ 100 * P95(c) > MaxRatioPct * P95(s)
      BY <1>2, <1>3, <1>7
    <3> QED
      BY <1>4, <1>5, <2>1, <2>2, <3>1, Compare
  <2> QED
    BY <1>2, <1>3, <1>7, <2>3
<1> QED
  BY <1>1, <1>6, <1>7 DEF Breach

\* Where there is no breach the failures are few and not every request was slow.
LEMMA Innocent ==
  ASSUME RInv, WindowsAged, ~ Over, ~ Breach(Evidence("stable"), Evidence("canary"))
  PROVE  /\ ~ Unreliable
         /\ Times("canary") # {} => \E ms \in Times("canary") : ~ OverLimit(ms) /\ ~ SlowerThanAll(ms)
<1> DEFINE c == samples["canary"]
           s == samples["stable"]
<1>0. "stable" \in Lanes /\ "canary" \in Lanes
  BY DEF Lanes
<1>1. ~ Unreliable
  BY <1>0, EvidenceFacts DEF Unreliable, Breach
<1>2. /\ Evidence("canary").p95 = P95(c) /\ IsFiniteSet(Fine(c))
      /\ \A i \in Fine(c) : c[i].ms \in Nat /\ c[i].ms \in Times("canary")
      /\ Times("canary") # {} => Fine(c) # {}
  BY <1>0, EvidenceFacts
<1>3. /\ Evidence("stable").p95 = P95(s) /\ IsFiniteSet(Fine(s))
      /\ \A i \in Fine(s) : s[i].ms \in Nat /\ s[i].ms \in Times("stable")
      /\ Times("stable") # {} => Fine(s) # {}
      /\ Baseline # {} => Evidence("stable").requests >= MinRequests /\ Baseline = Times("stable")
  BY <1>0, EvidenceFacts DEF Baseline
<1>4. /\ MaxMs # None => ~ (P95(c) > 100 * MaxMs)
      /\ ~ (/\ Evidence("stable").requests >= MinRequests /\ P95(c) # None /\ P95(s) # None
            /\ 100 * P95(c) > MaxRatioPct * P95(s))
  BY <1>2, <1>3 DEF Breach
<1> HIDE DEF c, s
<1>5. ASSUME Times("canary") # {}
      PROVE  \E ms \in Times("canary") : ~ OverLimit(ms) /\ ~ SlowerThanAll(ms)
  <2>1. /\ P95(c) \in Nat
        /\ \E i, j \in Fine(c) : 100 * c[i].ms <= P95(c) /\ P95(c) <= 100 * c[j].ms
    BY <1>2, <1>5, PercentileFacts
  <2>2. PICK i \in Fine(c) : 100 * c[i].ms <= P95(c)
    BY <2>1
  <2>3. c[i].ms \in Nat
    BY <1>2
  <2>4. ~ OverLimit(c[i].ms)
    BY <1>4, <2>1, <2>2, <2>3, GateConstants DEF OverLimit
  <2>5. ASSUME SlowerThanAll(c[i].ms)
        PROVE  FALSE
    <3>1. /\ Baseline # {} /\ Evidence("stable").requests >= MinRequests
          /\ \A k \in Fine(s) : s[k].ms > 0 /\ Slower(c[i].ms, s[k].ms)
      BY <1>3, <2>5 DEF SlowerThanAll
    <3>2. /\ P95(s) \in Nat
          /\ \E k, j \in Fine(s) : 100 * s[k].ms <= P95(s) /\ P95(s) <= 100 * s[j].ms
      BY <1>3, <3>1, PercentileFacts
    <3>3. PICK k, j \in Fine(s) : 100 * s[k].ms <= P95(s) /\ P95(s) <= 100 * s[j].ms
      BY <3>2
    <3>4. s[k].ms \in Nat /\ s[k].ms > 0 /\ s[j].ms \in Nat /\ Slower(c[i].ms, s[j].ms)
      BY <1>3, <3>1
    <3>5. P95(s) # None
      BY <3>2, <3>3, <3>4 DEF None
    <3>6. 100 * P95(c) > MaxRatioPct * P95(s)
      BY <2>1, <2>2, <2>3, <3>2, <3>3, <3>4, Compare
    <3>7. P95(c) # None
      <4>1. MaxRatioPct * P95(s) \in Nat
        BY <3>2, GateConstants
      <4> QED
        BY <2>1, <3>6, <4>1 DEF None
    <3> QED
      BY <1>4, <3>1, <3>5, <3>6, <3>7
  <2> QED
    BY <1>2, <2>4, <2>5
<1> QED
  BY <1>1, <1>5

\* Why the gates decided as they did.
LEMMA DecisionReasons ==
  ASSUME NEW c, NEW s, NEW t, NEW n, NEW k, k = Decision(c, s, t, n)
  PROVE  /\ k = "rollback" => \/ t.requests < MinRequests /\ StallTimeout # None /\ n - c.since >= StallTimeout
                              \/ Breach(s, t)
         /\ k \in {"advance", "promote"} => ~ (t.requests < MinRequests) /\ ~ Breach(s, t)
<1> DEFINE thin == t.requests < MinRequests
           stalled == StallTimeout # None /\ n - c.since >= StallTimeout
           b == Breach(s, t)
           held == n - c.since >= StepHold
           short == n - c.since < StepHold
<1>1. k = CASE thin /\ stalled -> "rollback"
            [] thin /\ ~ stalled -> "hold"
            [] ~ thin /\ b -> "rollback"
            [] ~ thin /\ ~ b /\ short -> "hold"
            [] ~ thin /\ ~ b /\ held /\ c.step = Len(Steps) -> "promote"
            [] OTHER -> "advance"
  BY DEF Decision
<1> HIDE DEF thin, stalled, b, held, short
<1>2. /\ k = "rollback" => (thin /\ stalled) \/ b
      /\ k \in {"advance", "promote"} => ~ thin /\ ~ b
  BY <1>1
<1> QED
  BY <1>2 DEF thin, stalled, b

\* What a verdict rests on, whichever step makes it.
LEMMA MeritsStep ==
  ASSUME RInv, WindowsAged, [Next]_vars, ctl.state = "canary"
  PROVE  /\ ctl'.state = "rolled_back" /\ runner'.next = "rolled_back" => GroundsToSink
         /\ ctl'.step > ctl.step \/ ctl'.state = "promoted" => GroundsToRise
<1>1. ctl \in ControllerType /\ ctl.step \in Int /\ runner \in RunnerType /\ now \in Nat
  BY Bounds, StepsFacts DEF RInv, ClusterInv, TypeOK, ControllerType, RunnerType
<1>2. ASSUME ctl'.state \notin {"rolled_back", "promoted"}, ~ (ctl'.step > ctl.step)
      PROVE  /\ ctl'.state = "rolled_back" /\ runner'.next = "rolled_back" => GroundsToSink
             /\ ctl'.step > ctl.step \/ ctl'.state = "promoted" => GroundsToRise
  BY <1>2
<1>3. CASE ctl' = ctl
  BY <1>1, <1>2, <1>3
<1>4. CASE Run
  <2>1. ctl'.state = "canary" /\ ctl'.step = 1 /\ ctl.step >= 1
    BY <1>1, <1>4, StepsFacts DEF Run, Started, ControllerType
  <2> QED
    BY <1>1, <1>2, <2>1
<1>5. ASSUME NEW done \in BOOLEAN, CommandFails(done)
      PROVE  ctl'.state = "idle" /\ ~ (ctl'.step > ctl.step)
  <2>1. ctl'.state = "idle" /\ ctl'.step = 1 /\ ctl.step >= 1
    BY <1>1, <1>5, StepsFacts DEF CommandFails, Idle, ControllerType
  <2> QED
    BY <1>1, <2>1
<1>6. ASSUME NEW outcome, Applies("rollback", outcome)
      PROVE  ctl'.state = "rolled_back" /\ ctl'.step = ctl.step /\ runner'.next = outcome
  <2>1. ctl' = [ctl EXCEPT !.state = "rolled_back"]
    BY <1>6 DEF Applies, Decided
  <2>2. runner' = [runner EXCEPT !.at = "acting", !.failures = 0, !.next = outcome]
    BY <1>6 DEF Applies
  <2> QED
    BY <1>1, <2>1, <2>2 DEF ControllerType, RunnerType
<1>7. CASE Expire
  <2>1. ctl'.state = "rolled_back" /\ ctl'.step = ctl.step /\ runner'.next = "timed_out"
    BY <1>6, <1>7 DEF Expire
  <2> QED
    BY <1>1, <2>1
<1>8. CASE NoMetrics
  <2>1. CASE runner.failures + 1 >= MaxMetricFailures
    <3>1. ctl'.state = "rolled_back" /\ ctl'.step = ctl.step /\ mode.source = "prometheus"
      BY <1>6, <1>8, <2>1 DEF NoMetrics, Unreadable
    <3> QED
      BY <1>1, <2>1, <3>1 DEF GroundsToSink
  <2>2. CASE ~ (runner.failures + 1 >= MaxMetricFailures)
    BY <1>3, <1>8, <2>2 DEF NoMetrics
  <2> QED
    BY <2>1, <2>2
<1>9. CASE Evaluate
  <2>1. PICK kind : /\ kind = Decision(ctl, Evidence("stable"), Evidence("canary"), now)
                    /\ Applies(kind, OutcomeOf(kind))
    <3>1. PICK k \in {Decision(ctl, Evidence("stable"), Evidence("canary"), now)} : Applies(k, OutcomeOf(k))
      BY <1>9 DEF Evaluate
    <3> QED
      BY <3>1
  <2>2. ~ Over /\ "canary" \in Lanes
    BY <1>9 DEF Evaluate, Awake, Over, Lanes
  <2>3. Evidence("canary").requests = Cardinality(Heard("canary")) /\ Cardinality(Heard("canary")) \in Nat
    BY <2>2, EvidenceFacts
  <2>4. /\ kind = "rollback" =>
             \/ Cardinality(Heard("canary")) < MinRequests /\ StallTimeout # None /\ now - ctl.since >= StallTimeout
             \/ Breach(Evidence("stable"), Evidence("canary"))
        /\ kind \in {"advance", "promote"} =>
             ~ (Cardinality(Heard("canary")) < MinRequests) /\ ~ Breach(Evidence("stable"), Evidence("canary"))
    BY <2>1, <2>3, DecisionReasons
  <2>5. kind \in {"hold", "advance", "promote", "rollback"}
    BY <1>1, <2>1, DecisionFacts
  <2>6. CASE kind = "rollback"
    <3>1. GroundsToSink
      BY <2>2, <2>4, <2>6, Culprit DEF GroundsToSink
    <3>2. ctl'.state = "rolled_back" /\ ctl'.step = ctl.step
      BY <1>6, <2>1, <2>6
    <3> QED
      BY <1>1, <3>1, <3>2
  <2>7. CASE kind \in {"advance", "promote"}
    <3>1. GroundsToRise
      BY <2>2, <2>3, <2>4, <2>7, Innocent, GateConstants DEF GroundsToRise
    <3>2. ctl'.state # "rolled_back"
      BY <1>1, <2>1, <2>7 DEF Applies, Decided, ControllerType
    <3> QED
      BY <3>1, <3>2
  <2>8. CASE kind = "hold"
    BY <1>3, <2>1, <2>8 DEF Applies, Decided
  <2> QED
    BY <2>5, <2>6, <2>7, <2>8
<1>10. \/ ctl' = ctl \/ Run \/ Expire \/ NoMetrics \/ Evaluate
       \/ \E done \in BOOLEAN : CommandFails(done)
  BY DEF Next, RunnerStep, Command, Deploy, BreakGlass, Tick, Finish, vars
<1> QED
  BY <1>2, <1>3, <1>4, <1>5, <1>7, <1>8, <1>9, <1>10

\* The windows are empty to begin with.
LEMMA InitAged == Init => WindowsAged
BY DEF Init, WindowsAged, Aged

\* A build rises and falls by what the requests of its own rollout show (controller.py, start(),
\* tick(), _breach()), whatever the limits, however long a window is and whichever of its
\* requests the percentile falls between.
THEOREM JudgedOnItsMerits == Spec => OwnMerits
<1>1. RInv /\ WindowsAged /\ [Next]_vars => WindowsAged'
  BY WindowsStayAged
<1>2. RInv /\ WindowsAged /\ [Next]_vars =>
        [ctl.state = "canary" =>
           /\ ctl'.state = "rolled_back" /\ runner'.next = "rolled_back" => GroundsToSink
           /\ ctl'.step > ctl.step \/ ctl'.state = "promoted" => GroundsToRise]_vars
  BY MeritsStep
<1> QED
  BY Invariance, InitAged, <1>1, <1>2, PTL DEF Spec, OwnMerits
=============================================================================
