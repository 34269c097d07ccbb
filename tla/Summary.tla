------------------------------ MODULE Summary ------------------------------
(***************************************************************************)
(* What a benchmark run says of its requests (bench/records.py): latency    *)
(* percentiles, throughput over the wall time and goodput under an SLO.     *)
(* Times are in clock units, a percentile in hundredths of one; None is a   *)
(* time that was not observed, a latency that has no value and a limit that *)
(* is not asserted.                                                         *)
(***************************************************************************)
EXTENDS Naturals, Sequences, FiniteSets, FiniteSetsExt, SequencesExt

None == 99

----------------------------------------------------------------------------
(* RequestRecord.                                                            *)

Ttft(r) == IF r.first = None THEN None ELSE r.first - r.sent
E2e(r) == IF r.last = None THEN None ELSE r.last - r.sent

\* tpot_ms, in hundredths: no value without a second token that came later than the first.
Tpot(r) ==
  IF r.output < 2 \/ r.first = None \/ r.last = None \/ r.last <= r.first THEN None
  ELSE (100 * (r.last - r.first)) \div (r.output - 1)

----------------------------------------------------------------------------
(* Percentiles.                                                              *)

\* percentile: linear interpolation between the two ranks around q/100 (n - 1).
Percentile(values, q) ==
  LET sorted == SortSeq(values, <)
      rank == q * (Len(values) - 1)
      low == rank \div 100 + 1
      high == IF rank % 100 = 0 THEN low ELSE low + 1
  IN 100 * sorted[low] + (sorted[high] - sorted[low]) * (rank % 100)

Quantiles == {50, 90, 95, 99}

\* Percentiles.from_values: nothing is said of an empty sample.
Distribution(values) ==
  LET usable == SelectSeq(values, LAMBDA v : v # None)
  IN IF usable = <<>> THEN [count |-> 0, at |-> <<>>]
     ELSE [count |-> Len(usable), at |-> [q \in Quantiles |-> Percentile(usable, q)]]

----------------------------------------------------------------------------
(* RunResult.                                                                *)

OkRequests(rs) == SelectSeq(rs, LAMBDA r : r.ok)
Each(f(_), rs) == [i \in DOMAIN rs |-> f(rs[i])]
Total(f(_), rs) == FoldSeq(LAMBDA r, n : n + f(r), 0, rs)

\* wall_seconds: from the first request sent to the last token, of a failed one as well.
WallTime(rs) ==
  LET finished == {i \in DOMAIN rs : rs[i].last # None}
  IN IF finished = {} THEN 0
     ELSE Max({rs[i].last : i \in finished}) - Min({rs[i].sent : i \in DOMAIN rs})

\* SLO.is_met_by: a latency without a value meets no limit.
IsMetBy(slo, r) ==
  /\ r.ok
  /\ slo.ttft # None => Ttft(r) # None /\ Ttft(r) <= slo.ttft
  /\ slo.tpot # None => Tpot(r) # None /\ Tpot(r) <= slo.tpot
  /\ slo.e2e # None => E2e(r) # None /\ E2e(r) <= slo.e2e

\* goodput
Goodput(rs, slo) == [met |-> Len(SelectSeq(rs, LAMBDA r : IsMetBy(slo, r))), of |-> Len(rs)]

\* summarize: the latencies of the requests that succeeded, the errors of all.
Summarize(rs, slo) ==
  LET ok == OkRequests(rs)
  IN [ok |-> Len(ok), failed |-> Len(rs) - Len(ok), wall |-> WallTime(rs),
      output |-> Total(LAMBDA r : r.output, ok),
      ttft |-> Distribution(Each(Ttft, ok)),
      itl |-> Distribution(FlattenSeq(Each(LAMBDA r : r.gaps, ok))),
      tpot |-> Distribution(Each(Tpot, ok)),
      e2e |-> Distribution(Each(E2e, ok)),
      goodput |-> Goodput(rs, slo)]
=============================================================================
