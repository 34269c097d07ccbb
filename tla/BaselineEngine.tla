--------------------------- MODULE BaselineEngine ---------------------------
(***************************************************************************)
(* The engines the benchmarks compare with (runtime/naive.py): requests     *)
(* wait in a queue, a batch of them is generated to completion by one       *)
(* padded call of the library, and each row is cut back to what the         *)
(* reference engine would have answered.  A request is [prompt, sampling];  *)
(* its index is its id.                                                     *)
(***************************************************************************)
EXTENDS OutputPath

CONSTANTS
  Asked,       \* the requests, in no order
  Says,        \* what the model says to each prompt, by the prompt
  Baselines,   \* [batchSize, flush]: one request at a time, or static batches
  PadToken,    \* the tokenizer's pad_token_id
  MaxAsked     \* bound on the requests of a behaviour

ASSUME BaselineBounds ==
  /\ \A b \in Baselines : b.batchSize > 0 /\ b.flush \in BOOLEAN
  /\ \A i \in DOMAIN Asked : /\ Asked[i].prompt \in DOMAIN Says
                             /\ Len(Says[Asked[i].prompt]) >= Asked[i].sampling.max

VARIABLES
  baseline,   \* the engine's configuration
  queue,      \* BaselineEngine._queue
  outputs,    \* what step() returned for each request, as a set
  withdrawn,  \* BaselineEngine._aborted
  dropped,    \* requests taken for a batch that raised
  shut        \* BaselineEngine._closed

baselineVars == <<baseline, queue, outputs, withdrawn, dropped, shut>>

BaselineInit ==
  /\ baseline \in Baselines
  /\ queue = <<>> /\ outputs = {} /\ withdrawn = {} /\ dropped = {} /\ shut = FALSE

----------------------------------------------------------------------------
(* One generate call.                                                        *)

\* _resolve_pad_token_id: an end-of-sequence token if there is one.
Pad == IF Eos # {} THEN CHOOSE t \in Eos : TRUE ELSE PadToken

\* Left padding, and the mask that hides it.
Padded(ids) ==
  LET width == Max({Len(Asked[i].prompt) : i \in ToSet(ids)})
  IN [k \in DOMAIN ids |->
        LET p == Asked[ids[k]].prompt
        IN [tokens |-> [n \in 1 .. width - Len(p) |-> Pad] \o p,
            mask |-> [n \in 1 .. width |-> n > width - Len(p)]]]

\* transformers' generate: the continuation of the visible tokens of a row that ends in one,
\* nothing sensible for any other.
Continue(row) ==
  LET shown == SetToSortSeq({n \in DOMAIN row.mask : row.mask[n]}, <)
      visible == [k \in DOMAIN shown |-> row.tokens[shown[k]]]
  IN IF Last(row.mask) /\ visible \in DOMAIN Says THEN Says[visible] ELSE [n \in 1 .. 9 |-> PadToken]

\* A row that has ended is padded until all have, or max_new_tokens are there.
Generated(ids) ==
  LET sampling == Asked[Head(ids)].sampling
      eos == IF sampling.ignoreEos THEN {} ELSE Eos
      length(row) == Min({sampling.max} \cup {n \in 1 .. sampling.max : row[n] \in eos})
      cut(says, ends) ==
        [k \in DOMAIN ids |-> [n \in 1 .. Max(Range(ends)) |-> IF n <= ends[k] THEN says[k][n] ELSE Pad]]
      rows(says) == cut(says, [k \in DOMAIN ids |-> length(says[k])])
      answers(padded) == rows([k \in DOMAIN ids |-> Continue(padded[k])])
  IN answers(Padded(ids))

----------------------------------------------------------------------------
(* _build_output                                                             *)

Building == [tokens |-> <<>>, dec |-> NewDecoder, text |-> <<>>, over |-> FALSE]

Built(b, t, fed, over) ==
  [tokens |-> Append(b.tokens, t), dec |-> fed.dec, text |-> b.text \o fed.text,
   over |-> over \/ fed.stop # <<>>]

\* A slip: only the length, the stop tokens and the stop strings cut a row.
FeedPadding(r, b, t) ==
  IF b.over THEN b
  ELSE Built(b, t, Feed(b.dec, <<t>>, r.stops), t \in r.stopTokens \/ Len(b.tokens) + 1 >= r.max)

\* One token of a row: an end-of-sequence token, a stop token, the length or a stop string
\* ends it, whichever the engine would have met.
FeedRow(r, b, t) ==
  IF b.over THEN b
  ELSE Built(b, t, Feed(b.dec, <<t>>, r.stops),
             (t \in Eos /\ ~r.ignoreEos) \/ t \in r.stopTokens \/ Len(b.tokens) + 1 >= r.max)

BuildOutput(id, row) ==
  LET answer(b) == [id |-> id, tokens |-> b.tokens, text |-> b.text \o Finish(b.dec).text]
  IN answer(FoldLeft(LAMBDA b, t : FeedRow(Asked[id].sampling, b, t), Building, row))

----------------------------------------------------------------------------
(* Operations.                                                               *)

Seen == ToSet(queue) \cup {o.id : o \in outputs} \cup withdrawn \cup dropped

\* add_request
Ask(id) ==
  /\ ~shut /\ id \notin Seen /\ Cardinality(Seen) < MaxAsked
  /\ queue' = Append(queue, id)
  /\ UNCHANGED <<baseline, outputs, withdrawn, dropped, shut>>

\* abort: only while it is queued.
Withdraw(id) ==
  /\ id \in ToSet(queue)
  /\ queue' = SelectSeq(queue, LAMBDA x : x # id)
  /\ withdrawn' = withdrawn \cup {id}
  /\ UNCHANGED <<baseline, outputs, dropped, shut>>

\* _take_batch
BatchSize ==
  IF Len(queue) < baseline.batchSize /\ ~baseline.flush THEN 0
  ELSE Min({baseline.batchSize, Len(queue)})

\* _sampling_kwargs: one set of parameters for the whole batch.
Mixed(ids) == \E i \in ToSet(ids) : Asked[i].sampling # Asked[Head(ids)].sampling

\* step: the batch has left the queue when _sampling_kwargs refuses it.
StepBaseline ==
  LET ids == SubSeq(queue, 1, BatchSize)
  IN /\ ~shut /\ BatchSize > 0
     /\ queue' = SubSeq(queue, BatchSize + 1, Len(queue))
     /\ \/ Mixed(ids) /\ dropped' = dropped \cup ToSet(ids) /\ UNCHANGED outputs
        \/ /\ ~Mixed(ids)
           /\ outputs' = outputs \cup {BuildOutput(ids[k], Generated(ids)[k]) : k \in DOMAIN ids}
           /\ UNCHANGED dropped
     /\ UNCHANGED <<baseline, withdrawn, shut>>

\* close
Shut ==
  /\ ~shut /\ shut' = TRUE /\ queue' = <<>>
  /\ UNCHANGED <<baseline, outputs, withdrawn, dropped>>

BaselineNext ==
  \/ \E id \in DOMAIN Asked : Ask(id) \/ Withdraw(id)
  \/ StepBaseline
  \/ Shut

----------------------------------------------------------------------------
(* Properties.                                                               *)

\* What LLMEngine answers to a request when the model says the same: token by token, until
\* _process finds a reason to stop.
Reference(id) ==
  LET r == Asked[id].sampling
      ended(b, t) == StopCheck(r, Append(b.tokens, t))
      next(b, t) ==
        IF b.over THEN b
        ELSE Built(b, t, Emit(Feed(b.dec, <<t>>, r.stops), ended(b, t)), ended(b, t) # "none")
      answer(b) == [id |-> id, tokens |-> b.tokens, text |-> b.text]
  IN answer(FoldLeft(next, Building, Says[Asked[id].prompt]))

\* A baseline answers every request with the tokens and the text of the reference engine,
\* whatever else is in the batch: padding, rows that end early and stop strings leave no
\* trace, so the engines are compared on the same work (_generate, _build_output).
SameAnswer == \A o \in outputs : o = Reference(o.id)
=============================================================================
