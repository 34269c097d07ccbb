------------------------------ MODULE Sampler ------------------------------
(***************************************************************************)
(* Batched sampling (engine/core/sampler.py).  The batch is a sequence of   *)
(* rows [logits, temperature, topK, topP, penalty, history], one per        *)
(* sequence, and the tensor operations work on all of them at once.         *)
(* Probabilities are weights 2^logit instead of e^logit; topP is in         *)
(* quarters.  Sorting leaves the order of equal logits open, so top-p is    *)
(* given the order it met.                                                  *)
(***************************************************************************)
EXTENDS Integers, Sequences, FiniteSets, FiniteSetsExt, Functions, SequencesExt

CONSTANTS
  Vocab,      \* the tokens, 1 .. n
  Rows,       \* the rows to batch
  MaxBatch    \* bound on the rows of a batch

ASSUME SamplerBounds ==
  /\ Vocab = 1 .. Cardinality(Vocab) /\ Vocab # {} /\ MaxBatch \in Nat \ {0}
  /\ \A r \in Rows : /\ r.logits \in [Vocab -> Int] /\ r.temperature \in Nat
                     /\ r.topK \in Nat /\ r.topP \in 1 .. 4 /\ r.penalty \in Nat \ {0}
                     /\ Range(r.history) \subseteq Vocab

MinusInf == -100

----------------------------------------------------------------------------
(* apply_repetition_penalty                                                  *)

Penalised(x, penalty) == IF x < 0 THEN x * penalty ELSE x \div penalty

\* The padded index matrix: every row as wide as the longest history, padded with the
\* row's first token.
IndexRow(history, width) == [i \in 1 .. width |-> IF i <= Len(history) THEN history[i] ELSE history[1]]

ApplyPenalty(work, rows) ==
  LET hit == {i \in DOMAIN rows : rows[i].penalty # 1 /\ rows[i].history # <<>>}
      width == Max({Len(rows[i].history) : i \in hit})
  IN [i \in DOMAIN rows |->
        IF i \notin hit THEN work[i]
        ELSE LET index == IndexRow(rows[i].history, width)
             IN [t \in Vocab |-> IF t \in Range(index) THEN Penalised(work[i][t], rows[i].penalty)
                                 ELSE work[i][t]]]

----------------------------------------------------------------------------
(* apply_temperature, apply_top_k, apply_top_p                               *)

ApplyTemperature(work, rows) ==
  [i \in DOMAIN rows |->
     LET value == IF rows[i].temperature > 0 THEN rows[i].temperature ELSE 1
     IN [t \in Vocab |-> work[i][t] \div value]]

\* The logits in descending order (torch.topk).
Descending(row) == SortSeq([t \in 1 .. Cardinality(Vocab) |-> row[t]], LAMBDA a, b : a > b)

\* A slip: every row is cut at the largest k of the batch.
TopKWidest(work, rows) ==
  LET value(i) == IF rows[i].topK = 0 THEN Cardinality(Vocab) ELSE Min({rows[i].topK, Cardinality(Vocab)})
      kMax == Max({value(i) : i \in DOMAIN rows})
  IN [i \in DOMAIN rows |->
        [t \in Vocab |-> IF work[i][t] < Descending(work[i])[kMax] THEN MinusInf ELSE work[i][t]]]

\* The threshold of a row is its own k-th logit; equal logits survive together.
ApplyTopK(work, rows) ==
  LET vocab == Cardinality(Vocab)
      value(i) == IF rows[i].topK = 0 THEN vocab ELSE Min({rows[i].topK, vocab})
  IN [i \in DOMAIN rows |->
        [t \in Vocab |-> IF work[i][t] < Descending(work[i])[value(i)] THEN MinusInf ELSE work[i][t]]]

Weight(x) == IF x = MinusInf THEN 0 ELSE 2 ^ (x + 8)
Mass(row, S) == MapThenSumSet(LAMBDA t : Weight(row[t]), S)

\* The orders a descending sort of the row may return.
Orders(row) ==
  {o \in Bijection(1 .. Cardinality(Vocab), Vocab) :
     \A i \in 1 .. Cardinality(Vocab) - 1 : row[o[i]] >= row[o[i + 1]]}

\* A token is removed when the mass ahead of it is more than p.
TopP(row, p, order) ==
  [t \in Vocab |->
     LET rank == CHOOSE i \in DOMAIN order : order[i] = t
     IN IF p < 4 /\ 4 * Mass(row, {order[j] : j \in 1 .. rank - 1}) > p * Mass(row, Vocab)
        THEN MinusInf ELSE row[t]]

----------------------------------------------------------------------------
(* Sampler.forward                                                           *)

\* The scaled and top-k filtered logits of the batch.
Filtered(rows) ==
  LET work == ApplyPenalty([i \in DOMAIN rows |-> rows[i].logits], rows)
  IN ApplyTopK(ApplyTemperature(work, rows), rows)

ArgMax(row) == {t \in Vocab : \A u \in Vocab : row[u] <= row[t]}

\* _draw: the tokens a row may get, argmax when greedy and any that has weight otherwise.
Draw(row, greedy) == IF greedy THEN ArgMax(row) ELSE {t \in Vocab : row[t] # MinusInf}

\* What row i of the batch may sample.
Outcomes(rows, i) ==
  LET row == Filtered(rows)[i]
  IN UNION {Draw(TopP(row, rows[i].topP, o), rows[i].temperature = 0) : o \in Orders(row)}

----------------------------------------------------------------------------
(* Properties of a batch.                                                    *)

VARIABLE batch   \* the rows given to the sampler

SamplerInit == batch = <<>>

\* One more sequence samples in this step (ModelRunner.build_batch).
AddRow == Len(batch) < MaxBatch /\ \E r \in Rows : batch' = Append(batch, r)

\* A row samples what it would sample alone: no width, threshold, padding or shortcut that
\* is taken over the batch reaches a neighbour's tokens (Sampler.forward).
RowsIndependent == \A i \in DOMAIN batch : Outcomes(batch, i) = Outcomes(<<batch[i]>>, 1)

\* The history as a set of tokens: a token that occurs twice is penalised once.
Wanted(r) ==
  [t \in Vocab |-> IF t \in Range(r.history) THEN Penalised(r.logits[t], r.penalty) ELSE r.logits[t]]

\* Greedy rows give the most likely token after the penalty, whatever the filters.
GreedyIsArgMax ==
  \A i \in DOMAIN batch :
    batch[i].temperature = 0 => Outcomes(batch, i) = ArgMax(Wanted(batch[i]))

\* Top-p keeps a nucleus: the most likely tokens, with at least the mass p, and no token
\* beyond those that have more than it (apply_top_p).
NucleusReaches ==
  \A i \in DOMAIN batch :
    LET row == Filtered(batch)[i]
    IN \A o \in Orders(row) :
         LET kept == {t \in Vocab : TopP(row, batch[i].topP, o)[t] # MinusInf}
             least(t) == \A u \in kept : row[t] <= row[u]
         IN /\ 4 * Mass(row, kept) >= batch[i].topP * Mass(row, Vocab)
            /\ \A t \in kept, u \in Vocab \ kept : row[t] >= row[u]
            /\ batch[i].topP < 4 => \E t \in kept :
                 least(t) /\ 4 * Mass(row, kept \ {t}) <= batch[i].topP * Mass(row, Vocab)

\* The vectorised sampler is the sampler of one row, and that is the one of the definitions.
SamplerSound == RowsIndependent /\ GreedyIsArgMax /\ NucleusReaches
=============================================================================
