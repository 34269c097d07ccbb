----------------------------- MODULE MCBackends -----------------------------
(* The parts below the router, each on its own: what the state of one of     *)
(* them is has no bearing on the others, so a behaviour moves only `part`.   *)
EXTENDS OutputPath, Sampler, PagedBatch, LocalBackend, LoadGen, ResultIndex, BaselineEngine,
        BaselineDriver, Comparison, LoRARegistry, TenantWait

CONSTANT Parts   \* which of them

VARIABLE part

\* What the benchmarks keep beside the load.
benchVars == <<resultVars, baselineVars, driverVars, loaded>>

\* The LoRA registry and the queue of the tenants.
engineVars == <<vars, waitVars>>

backendVars == <<part, pathVars, batch, pagedVars, localVars, loadVars, benchVars, engineVars>>

\* Tokens 1 and 2 are "a" and "b", 3 and 4 the halves of a character, 5 has a character and
\* the first half of another, 6 is the special end-of-sequence token.
SomeBytes == <<<<"a">>, <<"b">>, <<"hi">>, <<"lo">>, <<"a", "hi">>, <<>>>>
SomeRequests ==
  {[stops |-> <<>>, stopTokens |-> {2}, max |-> 3, ignoreEos |-> TRUE],
   [stops |-> <<<<"a", "W">>>>, stopTokens |-> {}, max |-> 4, ignoreEos |-> FALSE],
   [stops |-> <<<<"b", "a", "a">>, <<"a", "b">>>>, stopTokens |-> {}, max |-> 4, ignoreEos |-> FALSE]}

Row(logits, temperature, topK, topP, penalty, history) ==
  [logits |-> logits, temperature |-> temperature, topK |-> topK, topP |-> topP,
   penalty |-> penalty, history |-> history]
SomeRows ==
  {Row(l, t, k, p, 1, <<>>) : l \in {<<0, 2, -2>>, <<4, 4, 0>>}, t \in {0, 1, 2}, k \in {0, 1, 2}, p \in {3, 4}}
    \cup {Row(l, t, 0, p, 2, h) : l \in {<<0, 4, -4>>, <<4, 4, 0>>}, t \in {0, 1}, p \in {3, 4},
                                  h \in {<<2>>, <<3, 2, 3>>}}

\* Two sequences that share a block, two that do not, and one that comes back after a
\* preemption to find all of its prompt in the cache; outputs that grow into a new block.
Sequence(table, prompt, known0, length, shared) ==
  [table |-> table, prompt |-> prompt, known |-> known0, length |-> length, shared |-> shared]
SomeShapes ==
  {<<Sequence(<<3, 0, 2>>, 3, 3, 5, 0), Sequence(<<3, 1, 4>>, 4, 4, 6, 2)>>,
   <<Sequence(<<1, 3>>, 2, 2, 4, 0), Sequence(<<0, 2, 4>>, 3, 3, 5, 0)>>,
   <<Sequence(<<3, 0>>, 2, 2, 4, 0), Sequence(<<3, 1, 4>>, 2, 4, 6, 2)>>}

Device(others, weights, layers, explicit, maxLen) ==
  [total |-> 20, util |-> 9, others |-> others, weights |-> weights, activations |-> 2,
   layers |-> layers, perLayer |-> 1, explicit |-> explicit, maxLen |-> maxLen, maxSeqs |-> 2, blockSize |-> 4]
SomeConfigs == {Device(o, w, p, e, l) : o \in {0, 3}, w \in {6, 14}, p \in {1, 3}, e \in {0, 5}, l \in {0, 5}}

Load(mode, concurrency, ceiling, duration, timeout, repeat, pool, warmup) ==
  [mode |-> mode, concurrency |-> concurrency, ceiling |-> ceiling, duration |-> duration,
   timeout |-> timeout, repeat |-> repeat, pool |-> pool, warmup |-> warmup]
SomeLoads ==
  {Load("closed", 2, 0, 0, 2, FALSE, 2, 1), Load("closed", 2, 0, 2, 0, FALSE, 3, 0),
   Load("open", 1, 1, 0, 2, FALSE, 2, 0), Load("open", 1, 0, 2, 0, TRUE, 1, 0)}

SomeSlos ==
  {[ttft |-> t, tpot |-> p, e2e |-> e] : t \in {0, 1, None}, p \in {50, None}, e \in {2, None}}

\* Adapters of different ranks and projections.
MixedRanks == [a \in Adapter |-> IF a = 1 THEN 2 ELSE 1]
MixedTargets == [a \in Adapter |-> IF a = 2 THEN {1} ELSE Layer]

\* Tenants of weights 1:2:4.
Weights == [t \in Tenant |-> IF t = 1 THEN 4 ELSE IF t = 2 THEN 2 ELSE 1]

\* Two scenarios that happen to write the same file, and one that does not.
SomeTargets == [s \in Saver |-> IF s = "s3" THEN "other" ELSE "same"]

\* Prompts of two lengths; rows that end early, at the length, at a stop token or in a stop string.
Answering(prompt, sampling) == [prompt |-> prompt, sampling |-> sampling]
Asking(stops, stopTokens, ignoreEos) ==
  [stops |-> stops, stopTokens |-> stopTokens, max |-> 4, ignoreEos |-> ignoreEos]
SomeAsked ==
  LET prompts == <<<<1>>, <<2, 1>>, <<1, 2>>>>
      samplings == <<Asking(<<>>, {}, FALSE), Asking(<<<<"a", "b">>>>, {4}, TRUE),
                     Asking(<<<<"a", "b">>>>, {}, FALSE)>>
  IN [i \in 1 .. 9 |-> Answering(prompts[((i - 1) \div 3) + 1], samplings[((i - 1) % 3) + 1])]
SomeSays == (<<1>> :> <<1, 6, 2, 2>>) @@ (<<2, 1>> :> <<5, 4, 1, 2>>) @@ (<<1, 2>> :> <<2, 5, 2, 6>>)
SomeBaselines == {[batchSize |-> 1, flush |-> TRUE], [batchSize |-> 2, flush |-> TRUE],
                  [batchSize |-> 2, flush |-> FALSE]}

\* Both baselines: one request at a time from a list that is popped, and static batches of two.
SomeWrapped == {[size |-> 1, inPlace |-> TRUE], [size |-> 2, inPlace |-> FALSE]}

\* Runs of four arms at two load levels, one without a name, that declare a baseline, extra
\* arms, both or neither; one of them finished nothing.
RecordOf(ok, sent0, first, last, output, gaps) ==
  [ok |-> ok, sent |-> sent0, first |-> first, last |-> last, output |-> output, gaps |-> gaps]
RunFile(label, backend, level, base, to, requests) ==
  [label |-> label, backend |-> backend, level |-> level, baseline |-> base, compareTo |-> to, requests |-> requests]
SomeRuns ==
  LET fast == <<RecordOf(TRUE, 0, 1, 3, 3, <<1, 1>>), RecordOf(TRUE, 1, 2, 2, 1, <<>>)>>
      slow == <<RecordOf(TRUE, 0, 2, 4, 2, <<2>>), RecordOf(FALSE, 0, 1, 1, 1, <<>>)>>
      none == <<RecordOf(FALSE, 0, None, None, 0, <<>>)>>
  IN {RunFile(1, 0, level, b, <<>>, fast) : level \in {1, 2}, b \in {0, 1}}
       \cup {RunFile(2, 1, level, 1, to, slow) : level \in {1, 2}, to \in {<<>>, <<3, 4>>}}
       \cup {RunFile(0, 3, 1, 0, to, rs) : to \in {<<>>, <<2, 1>>}, rs \in {fast, none}}
       \cup {RunFile(0, 0, 2, 4, <<>>, slow)}

BackendsInit ==
  /\ part \in Parts
  /\ req \in IF part = "path" THEN Requests ELSE {CHOOSE r \in Requests : TRUE}
  /\ shape \in IF part = "paged" THEN Shapes ELSE {CHOOSE s \in Shapes : TRUE}
  /\ cuda \in IF part = "paged" THEN Triton ELSE {FALSE}
  /\ config \in IF part = "local" THEN Configs ELSE {CHOOSE c \in Configs : TRUE}
  /\ load \in IF part = "load" THEN Loads ELSE {CHOOSE l \in Loads : TRUE}
  /\ baseline \in IF part = "baseline" THEN Baselines ELSE {CHOOSE b \in Baselines : TRUE}
  /\ wrapped \in IF part = "driver" THEN Wrapped ELSE {CHOOSE w \in Wrapped : TRUE}
  /\ PathInit /\ SamplerInit /\ PagedInit /\ LocalInit /\ LoadInit /\ ResultInit /\ BaselineInit
  /\ DriverInit /\ ComparisonInit /\ Init /\ WaitInit
  /\ part # "results" => index = <<>>

BenchNext ==
  \/ part = "results" /\ ResultNext /\ UNCHANGED <<baselineVars, driverVars, loaded>>
  \/ part = "baseline" /\ BaselineNext /\ UNCHANGED <<resultVars, driverVars, loaded>>
  \/ part = "driver" /\ DriverNext /\ UNCHANGED <<resultVars, baselineVars, loaded>>
  \/ part = "page" /\ Discover /\ UNCHANGED <<resultVars, baselineVars, driverVars>>

BackendsNext ==
  \/ part = "path" /\ PathNext
       /\ UNCHANGED <<part, batch, pagedVars, localVars, loadVars, benchVars, engineVars>>
  \/ part = "sampler" /\ AddRow
       /\ UNCHANGED <<part, pathVars, pagedVars, localVars, loadVars, benchVars, engineVars>>
  \/ part = "paged" /\ PagedNext
       /\ UNCHANGED <<part, pathVars, batch, localVars, loadVars, benchVars, engineVars>>
  \/ part = "local" /\ LocalNext
       /\ UNCHANGED <<part, pathVars, batch, pagedVars, loadVars, benchVars, engineVars>>
  \/ part = "load" /\ LoadNext
       /\ UNCHANGED <<part, pathVars, batch, pagedVars, localVars, benchVars, engineVars>>
  \/ part = "lora" /\ Next
       /\ UNCHANGED <<part, pathVars, batch, pagedVars, localVars, loadVars, benchVars, waitVars>>
  \/ part = "queue" /\ WaitNext
       /\ UNCHANGED <<part, pathVars, batch, pagedVars, localVars, loadVars, benchVars, vars>>
  \/ BenchNext
       /\ UNCHANGED <<part, pathVars, batch, pagedVars, localVars, loadVars, engineVars>>

BackendsSpec == BackendsInit /\ [][BackendsNext]_backendVars

\* What a benchmark says is what its requests were: the summary of a run, and the page that sets
\* runs against each other.
BenchTrue == RunHonest /\ PageTrue
=============================================================================
