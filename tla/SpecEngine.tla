----------------------------- MODULE SpecEngine -----------------------------
(***************************************************************************)
(* SpeculativeLLMEngine (engine/spec/spec_engine.py): the engine of module *)
(* Engine whose decode phase drafts several tokens, verifies them with one *)
(* forward pass of the target, takes them back and feeds the accepted ones *)
(* through the ordinary _process.  Drafts come from a second model with a  *)
(* KV pool of its own (ModelDrafter, engine/spec/drafter.py) or from the   *)
(* history of the sequence (NgramDrafter, engine/spec/ngram.py).           *)
(*                                                                         *)
(* The draft model may propose anything.  The target is deterministic for  *)
(* the requests with temperature 0 and may sample anything for the others. *)
(***************************************************************************)
EXTENDS Engine

CONSTANTS
  K,               \* SpeculativeConfig.num_speculative_tokens
  Methods,         \* the drafters the engine may be built with
  MaxSpecBatch,    \* SpeculativeConfig.max_batch_size, 0 for None
  DraftBlocks,     \* size of the draft pool
  DraftMaxLen,     \* SpeculativeConfig.draft_max_model_len
  MinNgram, MaxNgram,
  GreedyPrompt,    \* prompts of the requests with temperature 0
  TargetNext(_)    \* the token the target ranks first after a prefix

\* SpeculativeConfig._check and the bounds of its fields
ValidConfig ==
  /\ K \in Nat \ {0} /\ MaxSpecBatch \in Nat /\ DraftBlocks \in Nat \ {0}
  /\ DraftMaxLen \in Nat \ {0} /\ MinNgram \in Nat \ {0} /\ MaxNgram >= MinNgram
  /\ Methods \subseteq {"model", "ngram"}

ASSUME SpecAssumption == ValidConfig

VARIABLES
  method,     \* SpeculativeConfig.method
  mirrors,    \* ModelDrafter._mirrors: the draft-side sequence of a seq_id
  drafts,     \* the draft of each decode of the step, then DraftProposal
  left,       \* _Row.budget: how many tokens a row may still be drafted
  reserved,   \* blocks _fund has promised in this step
  extended,   \* _Verified records, in the order of the batch
  feed,       \* tokens to feed back, in step with `batch`
  caps        \* _caps: how far the K/V of a verified sequence is good

specVars == <<method, mirrors, drafts, left, reserved, extended, feed, caps>>
allVars == <<vars, specVars>>

NoEntry == [id \in {} |-> 0]

\* A mirror: its token_ids, the tokens whose K/V its cache holds (as many as its
\* num_computed_tokens), and the draft blocks it owns.
Mirror == [tokens : Seq(Token), fed : Seq(Token), blocks : Nat]

DraftsUsed == MapThenSumSet(LAMBDA id : mirrors[id].blocks, DOMAIN mirrors)

\* The engine's state is well formed, the draft pool is not overdrawn, and only
\* the sequences of the step have drafts.
SpecTypeOK ==
  /\ StepTypeOK
  /\ phase \in Phase \cup {"prepare", "draft", "fund", "verify"}
  /\ method \in Methods
  /\ DOMAIN mirrors \subseteq SeqId /\ \A id \in DOMAIN mirrors : mirrors[id] \in Mirror
  /\ DraftsUsed <= DraftBlocks
  /\ DOMAIN drafts \subseteq Scheduled /\ \A id \in DOMAIN drafts : Len(drafts[id]) <= K
  /\ reserved \in 0 .. Cardinality(Block)
  /\ feed \in Seq(Token)

SpecInit ==
  /\ Init
  /\ method \in Methods
  /\ mirrors = NoEntry /\ drafts = NoEntry /\ left = NoEntry /\ reserved = 0
  /\ extended = << >> /\ feed = << >> /\ caps = NoEntry

\* Everything of the engine but the pool and the sequences.
schedVars == <<queues, budget, bumped>>

Decodes == SelectSeq(batch, LAMBDA item : ~item.prefill)
Prefills == SelectSeq(batch, LAMBDA item : item.prefill)
SampledPrefills == SelectSeq(Prefills, LAMBDA item : ~item.chunk)
Ids(items) == [i \in DOMAIN items |-> items[i].id]

Greedy(id) == SubSeq(seqs[id].tokens, 1, seqs[id].prompt) \in GreedyPrompt

\* What the target may produce after the first n tokens of a sequence.
TargetChoices(id, n) ==
  IF Greedy(id) THEN {TargetNext(SubSeq(seqs[id].tokens, 1, n))} ELSE Token

\* Sampler over the last rows of some items
Draws(items) ==
  {d \in [DOMAIN items -> Token] : \A i \in DOMAIN items : d[i] \in TargetChoices(items[i].id, items[i].end)}

----------------------------------------------------------------------------
(* _execute: nothing to speculate on, or a batch above max_batch_size       *)

\* ModelRunner.execute
PlainForward ==
  /\ Forward
  /\ feed' \in Draws(Sampled)
  /\ batch' = Sampled
  /\ phase' = IF Sampled = << >> THEN "idle" ELSE "process"
  /\ drafts' = NoEntry /\ left' = NoEntry /\ caps' = NoEntry
  /\ UNCHANGED <<refs, free, retained, index, seqs, schedVars, todo,
                 method, mirrors, reserved, extended>>

Speculates ==
  /\ Decodes # << >>
  /\ MaxSpecBatch > 0 => Len(Decodes) <= MaxSpecBatch

ExecutePlain ==
  /\ phase = "execute" /\ ~Speculates
  /\ PlainForward

----------------------------------------------------------------------------
(* NgramDrafter.propose                                                    *)

\* The starts at which the last n tokens of a sequence also occur earlier.
Repeats(tokens, n) ==
  {i \in 1 .. Len(tokens) - n :
     SubSeq(tokens, i, i + n - 1) = SubSeq(tokens, Len(tokens) - n + 1, Len(tokens))}

\* find_ngram_continuation: what followed the latest repeat of the longest tail.
Continuation(tokens, k) ==
  LET sizes == {n \in MinNgram .. Min({MaxNgram, Len(tokens) - 1}) : Repeats(tokens, n) # {}}
      start == Max(Repeats(tokens, Max(sizes))) + Max(sizes)
  IN  IF sizes = {} THEN << >> ELSE SubSeq(tokens, start, Min({start + k - 1, Len(tokens)}))

ProposeNgram ==
  /\ phase = "execute" /\ Speculates /\ method = "ngram"
  /\ drafts' = [id \in ToSet(Ids(Decodes)) |-> Continuation(seqs[id].tokens, K)]
  /\ phase' = "fund" /\ todo' = Ids(Decodes) /\ reserved' = 0
  /\ UNCHANGED <<managerVars, schedVars, batch, method, mirrors, left, extended, feed, caps>>

----------------------------------------------------------------------------
(* ModelDrafter.propose                                                    *)

BeginPropose ==
  /\ phase = "execute" /\ Speculates /\ method = "model"
  /\ drafts' = [id \in ToSet(Ids(Decodes)) |-> << >>] /\ left' = NoEntry
  /\ phase' = "prepare" /\ todo' = Ids(Decodes)
  /\ UNCHANGED <<managerVars, schedVars, batch, method, mirrors, reserved, extended, feed, caps>>

\* _mirror_for: created with the prompt and no blocks on first sight.
MirrorFor(id) ==
  IF id \in DOMAIN mirrors THEN mirrors[id]
  ELSE [tokens |-> SubSeq(seqs[id].tokens, 1, seqs[id].prompt), fed |-> << >>, blocks |-> 0]

\* A slip: what the mirror has computed is trusted.
RewoundTrusting(m, tokens) == Min({Len(m.fed), Len(tokens) - 1, Len(m.tokens)})

\* _rewind: scan back from what the mirror has computed, at most one draft deep, to
\* the first token it agrees on with the target; start over if there is none.
Rewound(m, tokens) ==
  LET length == Min({Len(m.fed), Len(tokens) - 1, Len(m.tokens)})
      limit == Max({0, length - (K + 1)})
      agreeing == {n \in limit .. length : n > 0 /\ m.tokens[n] = tokens[n]}
  IN  IF agreeing = {} THEN 0 ELSE Max(agreeing)

\* num_allocatable of the draft pool
DraftFree == DraftBlocks - DraftsUsed

\* _blocks_needed for a mirror to have `computed` tokens
DraftNeed(m, computed) == Max({0, BlocksFor(computed) - m.blocks})

\* The mirror after a forward pass over its tokens up to the n-th.
Fed(m, n) ==
  [m EXCEPT !.fed = @ \o SubSeq(m.tokens, Len(m.fed) + 1, n),
            !.blocks = @ + DraftNeed(m, n)]

\* _catch_up: how far the draft pool lets a mirror be fed, at most to one token
\* short of the sequence.
CaughtUp(m) ==
  Max({n \in Len(m.fed) .. Len(m.tokens) - 1 : n = Len(m.fed) \/ DraftNeed(m, n) <= DraftFree})

\* One row of _prepare and its share of _catch_up: the mirror takes the tokens of
\* the target and is fed all of them but the last, as far as the draft pool goes;
\* a row that is starved drafts nothing.  A target at the length limit has no row.
PrepareRow(id) ==
  /\ phase = "prepare" /\ todo # << >> /\ id = Head(todo)
  /\ todo' = Tail(todo)
  /\ LET tokens == seqs[id].tokens
         room == Min({K, DraftMaxLen - Len(tokens)})
         old == MirrorFor(id)
         from == Rewound(old, tokens)
         m == [old EXCEPT !.tokens = tokens, !.fed = SubSeq(@, 1, from)]
         last == CaughtUp(m)
     IN  IF room <= 0
           THEN left' = [n \in DOMAIN left \cup {id} |-> IF n = id THEN 0 ELSE left[n]]
                /\ UNCHANGED mirrors
           ELSE /\ left' = [n \in DOMAIN left \cup {id} |->
                              IF n # id THEN left[n]
                              ELSE IF last < Len(tokens) - 1 THEN 0 ELSE room]
                /\ mirrors' = [n \in DOMAIN mirrors \cup {id} |->
                                 IF n = id THEN Fed(m, last) ELSE mirrors[n]]
  /\ UNCHANGED <<managerVars, schedVars, phase, batch, method, drafts, reserved, extended, feed, caps>>

\* The rows are ready: the first draft step.
EndPrepare ==
  /\ phase = "prepare" /\ todo = << >>
  /\ phase' = "draft" /\ todo' = Ids(Decodes)
  /\ UNCHANGED <<managerVars, schedVars, batch, specVars>>

\* _active: no block for one more token of the mirror
Starved(m) == DraftNeed(m, Len(m.fed) + 1) > DraftFree

\* One row of _draft_step: feed the last token, append a new one.
DraftRow(id, token) ==
  /\ phase = "draft" /\ todo # << >> /\ id = Head(todo)
  /\ left[id] > 0
  /\ LET m == mirrors[id]
     IN  IF Starved(m)
           THEN left' = [left EXCEPT ![id] = 0] /\ UNCHANGED <<mirrors, drafts>>
           ELSE LET fed == Fed(m, Len(m.fed) + 1)
                IN  /\ mirrors' = [mirrors EXCEPT ![id] = [fed EXCEPT !.tokens = Append(@, token)]]
                    /\ drafts' = [drafts EXCEPT ![id] = Append(@, token)]
                    /\ left' = [left EXCEPT ![id] = @ - 1]
  /\ todo' = Tail(todo)
  /\ UNCHANGED <<managerVars, schedVars, phase, batch, method, reserved, extended, feed, caps>>

DraftPasses(id) ==
  /\ phase = "draft" /\ todo # << >> /\ id = Head(todo)
  /\ left[id] = 0
  /\ todo' = Tail(todo)
  /\ UNCHANGED <<managerVars, schedVars, phase, batch, specVars>>

\* The next draft step, or the proposal.
EndDraftStep ==
  /\ phase = "draft" /\ todo = << >>
  /\ todo' = Ids(Decodes)
  /\ IF \E id \in DOMAIN left : left[id] > 0
       THEN UNCHANGED <<phase, reserved>>
       ELSE phase' = "fund" /\ reserved' = 0
  /\ UNCHANGED <<managerVars, schedVars, batch, method, mirrors, drafts, left, extended, feed, caps>>

----------------------------------------------------------------------------
(* _speculative_step after the proposal                                    *)

IsEmpty == \A id \in DOMAIN drafts : drafts[id] = << >>

ProposedNothing ==
  /\ phase = "fund" /\ extended = << >> /\ IsEmpty
  /\ PlainForward

\* _fund: how much of its draft the target's pool can hold.  The blocks of the
\* decodes before it have been taken already and are counted once more.
Fundable(id) ==
  Max({n \in 0 .. Len(drafts[id]) :
         n = 0 \/ Max({0, Growth(id, n)}) <= Cardinality(Pool!Allocatable) - reserved})

\* _extend: the draft joins the sequence, with slots and computed count.
Extend(id) ==
  /\ phase = "fund" /\ ~(extended = << >> /\ IsEmpty)
  /\ todo # << >> /\ id = Head(todo)
  /\ LET n == Fundable(id)
         item == CHOOSE item \in ToSet(batch) : item.id = id
     IN  /\ \E ext \in Extensions(id, n) :
              /\ Pool!Allocate(ToSet(ext))
              /\ seqs' = [seqs EXCEPT ![id].tokens = @ \o SubSeq(drafts[id], 1, n),
                                      ![id].table = @ \o ext,
                                      ![id].computed = @ + n]
              /\ kv' = [b \in Block |-> IF b \in ToSet(ext) THEN Unwritten ELSE kv[b]]
         /\ batch' = [i \in DOMAIN batch |->
                        IF batch[i].id = id
                          THEN [item EXCEPT !.end = @ + n, !.table = seqs'[id].table]
                          ELSE batch[i]]
         /\ reserved' = reserved + Max({0, Growth(id, n)})
         /\ extended' = Append(extended,
              [item |-> item, drafted |-> SubSeq(drafts[id], 1, n), base |-> seqs[id].computed])
  /\ todo' = Tail(todo)
  /\ UNCHANGED <<schedVars, phase, method, mirrors, drafts, left, feed, caps>>

\* The forward pass over the widened batch, and the prefills' samples.
ForwardWide ==
  /\ phase = "fund" /\ todo = << >>
  /\ Forward
  /\ feed' \in Draws(SampledPrefills)
  /\ batch' = SampledPrefills
  /\ phase' = "verify"
  /\ drafts' = NoEntry /\ left' = NoEntry /\ caps' = NoEntry
  /\ UNCHANGED <<refs, free, retained, index, seqs, schedVars, todo,
                 method, mirrors, reserved, extended>>

\* A slip: one more draft token is kept than the target agrees on.
AgreeingOneMore(r) ==
  LET Agrees(i) == r.drafted[i] = TargetNext(SubSeq(seqs[r.item.id].tokens, 1, r.base + i - 1))
  IN  Max({m \in 0 .. Len(r.drafted) : \A i \in 1 .. m - 1 : Agrees(i)})

\* verify_greedy: the longest prefix of the draft the target would have produced.
Agreeing(r) ==
  LET Agrees(i) == r.drafted[i] = TargetNext(SubSeq(seqs[r.item.id].tokens, 1, r.base + i - 1))
  IN  Max({m \in 0 .. Len(r.drafted) : \A i \in 1 .. m : Agrees(i)})

\* verify_rejection_sampling may stop anywhere; against a drafter without
\* probabilities the replacement is another token than the rejected one.
Rejections(r) ==
  {v \in [kept : 0 .. Len(r.drafted), bonus : Token] :
     method = "ngram" /\ v.kept < Len(r.drafted) => v.bonus # r.drafted[v.kept + 1]}

\* verify_sequence: how much of the draft is kept, and the token after it.
Verifications(r) ==
  IF Greedy(r.item.id)
    THEN {[kept |-> Agreeing(r),
           bonus |-> TargetNext(SubSeq(seqs[r.item.id].tokens, 1, r.base + Agreeing(r)))]}
    ELSE Rejections(r)

\* A slip: the table is cut back, and the blocks are not given back.
RollbackCutsTable(r) ==
  seqs' = [seqs EXCEPT ![r.item.id].tokens = SubSeq(@, 1, Len(@) - Len(r.drafted)),
                       ![r.item.id].table = SubSeq(@, 1, BlocksFor(r.base)),
                       ![r.item.id].computed = r.base]

\* _rollback: the sequence as the scheduler left it; its blocks stay in the table.
Rollback(r) ==
  seqs' = [seqs EXCEPT ![r.item.id].tokens = SubSeq(@, 1, Len(@) - Len(r.drafted)),
                       ![r.item.id].computed = r.base]

\* The K/V that is good once the accepted tokens are back: the bonus token has none.
Cap(r, v) == r.base + v.kept

\* verify_sequence wants one row per drafted token and one more; an item that feeds
\* several tokens has more rows, and it raises.
OneRowEach(r) == r.item.end - r.item.start = 1

\* One record of _verify_decodes
VerifyNext(r) ==
  /\ phase = "verify" /\ extended # << >> /\ r = Head(extended)
  /\ OneRowEach(r)
  /\ \E v \in Verifications(r) :
       LET new == SubSeq(r.drafted, 1, v.kept) \o <<v.bonus>>
       IN  /\ feed' = feed \o new
           /\ batch' = batch \o [i \in DOMAIN new |-> r.item]
           /\ caps' = [id \in DOMAIN caps \cup {r.item.id} |->
                         IF id = r.item.id THEN Cap(r, v) ELSE caps[id]]
  /\ Rollback(r)
  /\ extended' = Tail(extended)
  /\ phase' = IF Tail(extended) = << >> THEN "process" ELSE "verify"
  /\ UNCHANGED <<refs, free, retained, index, kv, schedVars, todo,
                 method, mirrors, drafts, left, reserved>>

----------------------------------------------------------------------------
(* _process, with the computed count following the tokens up to the cap    *)

\* Drafter.release
Release(gone) == mirrors' = [id \in DOMAIN mirrors \ gone |-> mirrors[id]]

\* seq.num_computed_tokens = min(cap, seq.num_tokens)
Credit(id, s) ==
  IF id \in DOMAIN caps THEN [s EXCEPT !.computed = Min({caps[id], Len(s.tokens)})] ELSE s

\* One pair of _process.  A sequence that an earlier token of its draft has finished
\* takes no more; the mirrors of finished sequences are released.
ProcessSpec(stops) ==
  /\ phase = "process"
  /\ LET id == Head(batch).id
     IN  IF seqs[id].status = "finished"
           THEN UNCHANGED <<managerVars, queues, mirrors>>
           ELSE /\ FeedBack(id, Credit(id, [seqs[id] EXCEPT !.tokens = Append(@, Head(feed))]), stops)
                /\ Release({n \in DOMAIN mirrors : seqs'[n].status = "finished"})
  /\ batch' = Tail(batch) /\ feed' = Tail(feed)
  /\ phase' = IF Tail(batch) = << >> THEN "idle" ELSE "process"
  /\ UNCHANGED <<todo, budget, bumped, method, drafts, left, reserved, extended, caps>>

\* SpeculativeLLMEngine.abort
AbortSpec(id) ==
  /\ Abort(id)
  /\ Release({id})
  /\ UNCHANGED <<method, drafts, left, reserved, extended, feed, caps>>

\* SpeculativeLLMEngine.close
CloseSpec ==
  /\ Close
  /\ mirrors' = NoEntry
  /\ UNCHANGED <<method, drafts, left, reserved, extended, feed, caps>>

----------------------------------------------------------------------------
Schedules ==
  /\ \/ BeginStep \/ PublishNext \/ EndPublish
     \/ \E id \in SeqId : SkipRunning(id) \/ PreemptVictim(id) \/ PreemptSelf(id) \/ EmitRunning(id)
     \/ EndRunning \/ Admit \/ EmitAdmitted \/ EndSchedule
  /\ UNCHANGED specVars

SpecStep ==
  /\ \/ Schedules
     \/ ExecutePlain \/ ProposeNgram \/ BeginPropose
     \/ \E id \in SeqId : PrepareRow(id) \/ DraftPasses(id) \/ Extend(id)
     \/ \E id \in SeqId, token \in Token : DraftRow(id, token)
     \/ EndPrepare \/ EndDraftStep \/ ProposedNothing \/ ForwardWide
     \/ \E r \in ToSet(extended) : VerifyNext(r)
     \/ \E stops \in BOOLEAN : ProcessSpec(stops)
  /\ UNCHANGED faulty

SpecNext ==
  \/ \E shape \in Shape : AddRequest(shape) /\ UNCHANGED <<faulty, specVars>>
  \/ \E id \in SeqId : AbortSpec(id) /\ UNCHANGED faulty
  \/ CloseSpec /\ UNCHANGED faulty
  \/ SpecStep

SpecSpec == SpecInit /\ [][SpecNext]_allVars

----------------------------------------------------------------------------
(* Properties.  Those of Engine are checked again under speculation.       *)

\* Greedy requests get the target's own continuation, token for token, however
\* the drafts are trimmed, rejected, cut short by a stop or interrupted by a
\* preemption: what a sequence holds between steps is what plain decoding yields.
GreedyExact ==
  phase \in {"idle", "publish", "process"} =>
    \A id \in SeqId : InFlight(id) /\ Greedy(id) =>
      \A n \in seqs[id].prompt + 1 .. NumTokens(id) :
        seqs[id].tokens[n] = TargetNext(SubSeq(seqs[id].tokens, 1, n - 1))

\* Between steps a running sequence has exactly its last token left to compute, as
\* after an ordinary decode: with fewer the next step has nothing to feed, with
\* more it feeds accepted tokens again and counts them as a prefill.
OneTokenLeft ==
  phase = "idle" => \A id \in ToSet(running) : Uncomputed(id) = 1

\* A draft never makes a step fail for want of blocks: whatever _fund lets through,
\* append_slots can serve, for several sequences that draft in one step.
DraftsFunded ==
  phase = "fund" /\ todo # << >> /\ ~(extended = << >> /\ IsEmpty) =>
    Growth(Head(todo), Fundable(Head(todo))) <= Cardinality(Pool!Allocatable)

\* Draft blocks belong to requests in flight: finishing, stopping in the middle of
\* a draft and aborting all give the mirror back.
MirrorsLive ==
  \A id \in DOMAIN mirrors :
    InFlight(id) /\ mirrors[id].blocks >= BlocksFor(Len(mirrors[id].fed))

\* The K/V a mirror drafts from is that of its own tokens, which at the start of a
\* draft are the target's: whatever was rejected has been rewound.
MirrorSound ==
  \A id \in DOMAIN mirrors : IsPrefix(mirrors[id].fed, mirrors[id].tokens)

\* After a speculative step the sequences are as plain decoding would have left them.
PlainDecoding == GreedyExact /\ OneTokenLeft

\* Neither the target nor the draft model ever reads the K/V of a token that was rejected.
BothCachesFaithful == ContextIntact /\ MirrorSound

\* The blocks of both pools are funded before they are used, and given back.
SpecBlocksInv == SpecTypeOK /\ BlocksAccounted /\ DraftsFunded /\ MirrorsLive
=============================================================================
