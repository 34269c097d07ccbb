----------------------------- MODULE Comparison -----------------------------
(***************************************************************************)
(* Which runs of a scenario the results page sets against each other        *)
(* (bench/metrics.py, bench/report.py): only the newest run of an arm       *)
(* counts, arms are compared at one load level, and each arm says which     *)
(* others it wants to be measured against.  Names are numbers in the order  *)
(* the page sorts them, 0 for none; figures are in hundredths.              *)
(***************************************************************************)
EXTENDS Summary, Integers

CONSTANTS
  Runs,      \* what a result file may hold: [label, backend, level, baseline, compareTo, requests]
  Scenario,  \* the name of scenario and profile, which an arm without one goes by
  MaxRuns    \* bound on the files of a behaviour

VARIABLE loaded   \* discover_runs: the files, oldest first

Nil == -1000   \* None, where a figure has no value

NothingAsserted == [ttft |-> None, tpot |-> None, e2e |-> None]

ComparisonInit == loaded = <<>>

\* Another scenario has been run; a file that does not parse is not among them.
Discover ==
  /\ Len(loaded) < MaxRuns
  /\ \E r \in Runs : loaded' = Append(loaded, r)

----------------------------------------------------------------------------
(* Two summaries.                                                            *)

RunSummary(r) == Summarize(r.requests, NothingAsserted)

Ratio(candidate, base) ==
  IF candidate = Nil \/ base \in {Nil, 0} THEN Nil ELSE (100 * candidate) \div base

PctDelta(candidate, base) ==
  IF Ratio(candidate, base) = Nil THEN Nil ELSE Ratio(candidate, base) - 100

PerSecond(n, s) == IF s.wall = 0 THEN 0 ELSE (100 * n) \div s.wall
Stat(s, metric, q) == IF s[metric].count = 0 THEN Nil ELSE s[metric].at[q]
ErrorRate(s) == IF s.ok + s.failed = 0 THEN 0 ELSE (100 * s.failed) \div (s.ok + s.failed)

\* Comparison.from_summaries; the total token rate and the cost are formed like the output rate.
FromSummaries(baseLabel, label, b, c) ==
  [baseline |-> baseLabel, candidate |-> label,
   output |-> Ratio(PerSecond(c.output, c), PerSecond(b.output, b)),
   requests |-> Ratio(PerSecond(c.ok, c), PerSecond(b.ok, b)),
   goodput |-> Ratio(PerSecond(c.goodput.met, c), PerSecond(b.goodput.met, b)),
   latency |-> [at \in {<<"ttft", 50>>, <<"ttft", 95>>, <<"itl", 95>>, <<"tpot", 95>>, <<"e2e", 95>>} |->
                  PctDelta(Stat(c, at[1], at[2]), Stat(b, at[1], at[2]))],
   errors |-> ErrorRate(c) - ErrorRate(b)]

----------------------------------------------------------------------------
(* Who is compared with whom.                                                *)

RunLabel(r) == IF r.label # 0 THEN r.label ELSE IF r.backend # 0 THEN r.backend ELSE Scenario

Labels(rs) == {RunLabel(rs[i]) : i \in DOMAIN rs}

\* The dictionary by label: the last of several stays.
ByLabel(rs) == [l \in Labels(rs) |-> rs[Max({i \in DOMAIN rs : RunLabel(rs[i]) = l})]]

\* baseline_label, of runs that are not none.
BaselineLabel(rs) ==
  LET declared == SelectSeq(rs, LAMBDA r : r.baseline # 0)
  IN IF declared = <<>> THEN RunLabel(Head(rs)) ELSE Head(declared).baseline

\* compare_runs
CompareRuns(rs, base) ==
  LET known == base \in Labels(rs)
      anchor == IF known THEN ByLabel(rs)[base] ELSE Head(rs)
      others == SelectSeq(rs, LAMBDA r : RunLabel(r) # RunLabel(anchor))
  IN [i \in DOMAIN others |->
        FromSummaries(RunLabel(anchor), RunLabel(others[i]), RunSummary(anchor), RunSummary(others[i]))]

\* want: a reference that was measured, and is not the arm itself.
WantedBy(rs, r, reference) == reference \in Labels(rs) \ {0, RunLabel(r)}

\* comparison_groups: the baselines that are declared, then the extra arms; if there are none,
\* everything against the first.
ComparisonGroups(rs) ==
  LET asked == [i \in DOMAIN rs |-> <<rs[i], rs[i].baseline>>]
                 \o FlattenSeq([i \in DOMAIN rs |-> [k \in DOMAIN rs[i].compareTo |-> <<rs[i], rs[i].compareTo[k]>>]])
      wants == SelectSeq(asked, LAMBDA a : WantedBy(rs, a[1], a[2]))
      members(ref) ==
        LET of == SelectSeq(wants, LAMBDA a : a[2] = ref) IN [i \in DOMAIN of |-> of[i][1]]
      fallback == BaselineLabel(rs)
      rest == SelectSeq(rs, LAMBDA r : RunLabel(r) # fallback)
  IN IF wants # <<>> THEN [ref \in {wants[i][2] : i \in DOMAIN wants} |-> members(ref)]
     ELSE [ref \in {fallback} \cap {l \in Labels(rs) : rest # <<>>} |-> rest]

----------------------------------------------------------------------------
(* The page.                                                                 *)

\* A slip: the load level is not part of an arm's identity.
SameLabel(r, s) == RunLabel(r) = RunLabel(s)

SameArm(r, s) == RunLabel(r) = RunLabel(s) /\ r.level = s.level

\* _latest_per_arm, sorted as render_index does it.
LatestPerArm(rs) ==
  LET last == SetToSortSeq({i \in DOMAIN rs : \A j \in DOMAIN rs : j > i => ~SameArm(rs[i], rs[j])}, <)
  IN SortSeq([k \in DOMAIN last |-> rs[last[k]]], LAMBDA r, s : RunLabel(r) < RunLabel(s))

\* _by_concurrency
AtLevel(rs, level) == SelectSeq(rs, LAMBDA r : r.level = level)
Levels(rs) == {rs[i].level : i \in DOMAIN rs}

\* _scenario_section: the relative tables, by load level and reference.
Tables(rs) ==
  LET newest == LatestPerArm(rs)
      anchor(group, ref) == Head(SelectSeq(group, LAMBDA r : RunLabel(r) = ref))
      table(group, ref) == CompareRuns(<<anchor(group, ref)>> \o ComparisonGroups(group)[ref], ref)
  IN [level \in Levels(newest) |->
        [ref \in DOMAIN ComparisonGroups(AtLevel(newest, level)) |->
           table(AtLevel(newest, level), ref)]]

----------------------------------------------------------------------------
(* Properties.                                                               *)

\* The run that counts for an arm at a load level.
Newest(level, label) ==
  loaded[Max({i \in DOMAIN loaded : loaded[i].level = level /\ RunLabel(loaded[i]) = label})]

\* The pairs <<arm, reference>> that the arms measured at a level ask for.
PairsAsked(level) ==
  LET arms == Labels(AtLevel(loaded, level))
  IN {a \in arms \X (arms \ {0}) :
        /\ a[1] # a[2]
        /\ Newest(level, a[1]).baseline = a[2] \/ Contains(Newest(level, a[1]).compareTo, a[2])}

\* Every row of the page sets the newest run of one arm against the newest run of another at
\* the same load, and says so: never an arm against itself, a superseded run or a run under
\* another load (compare_runs, _latest_per_arm, _by_concurrency).
RowsTrue ==
  \A level \in DOMAIN Tables(loaded) : \A ref \in DOMAIN Tables(loaded)[level] :
    \A row \in Range(Tables(loaded)[level][ref]) :
      /\ row.candidate # ref /\ {ref, row.candidate} \subseteq Labels(AtLevel(loaded, level))
      /\ row = FromSummaries(ref, row.candidate, RunSummary(Newest(level, ref)),
                              RunSummary(Newest(level, row.candidate)))

\* Whatever else is in the directory, the comparisons that arms ask for are all made where both
\* were measured, and no others; where nobody asks, the first arm is the reference of all, or
\* the one that is declared was not measured (comparison_groups).
RowsAsked ==
  \A level \in Levels(loaded) :
    /\ level \in DOMAIN Tables(loaded)
    /\ LET tables == Tables(loaded)[level]
           rows == UNION {{<<row.candidate, ref>> : row \in Range(tables[ref])} : ref \in DOMAIN tables}
           arms == Labels(AtLevel(loaded, level))
       IN IF PairsAsked(level) # {} THEN rows = PairsAsked(level)
          ELSE \/ rows = {<<l, Min(arms)>> : l \in arms \ {Min(arms)}}
               \/ \E l \in arms : Newest(level, l).baseline # 0 /\ rows \subseteq arms \X {Newest(level, l).baseline}

PageTrue == RowsTrue /\ RowsAsked
=============================================================================
