----------------------------- MODULE Streaming -----------------------------
(***************************************************************************)
(* From token ids to text that may be sent (runtime/streaming.py): the     *)
(* incremental detokenizer, which never sends half a character, and the    *)
(* stop-string matcher, which never sends the beginning of a stop string.  *)
(* A token stands for a few bytes; a character is one byte, or the pair    *)
(* "hi", "lo".  Text is a sequence of characters.                          *)
(***************************************************************************)
EXTENDS Naturals, Sequences, SequencesExt, FiniteSets, FiniteSetsExt

CONSTANTS
  Bytes,    \* the bytes of each token, <<>> for a special one
  Window    \* _WINDOW_TOKENS, 8 in the code

ASSUME StreamingBounds == Window \in Nat \ {0}

Token == DOMAIN Bytes
Wide == "W"
Replacement == "?"

----------------------------------------------------------------------------
(* tokenizer.decode, a byte-level tokenizer as the code's comments assume.   *)

\* A character that was begun and not completed.
Closed(st) == IF st.open THEN Append(st.out, Replacement) ELSE st.out

DecodeByte(st, b) ==
  CASE b = "lo" /\ st.open -> [out |-> Append(st.out, Wide), open |-> FALSE]
    [] b = "lo" /\ ~st.open -> [out |-> Append(st.out, Replacement), open |-> FALSE]
    [] b = "hi" -> [out |-> Closed(st), open |-> TRUE]
    [] OTHER -> [out |-> Append(Closed(st), b), open |-> FALSE]

Decode(tokens) ==
  Closed(FoldLeft(DecodeByte, [out |-> <<>>, open |-> FALSE],
                  FlattenSeq([i \in DOMAIN tokens |-> Bytes[tokens[i]]])))

----------------------------------------------------------------------------
(* IncrementalDetokenizer: [tokens, prefix, read, text].                     *)

\* Without seed tokens, as the engine creates it.
NewDetokenizer == [tokens |-> <<>>, prefix |-> 0, read |-> 0, text |-> <<>>]

From(s, n) == SubSeq(s, n + 1, Len(s))
PrefixText(d) == Decode(SubSeq(d.tokens, d.prefix + 1, d.read))
WindowText(d) == Decode(From(d.tokens, d.prefix))

\* What `text` has after `part`, or `other` if it does not begin with it.
Beyond(text, part, other) == IF IsPrefix(part, text) THEN From(text, Len(part)) ELSE other

\* The offsets after a delta: the old read offset starts the next window, unless that
\* would make it longer than _WINDOW_TOKENS.
Advance(d, delta) ==
  [det |-> [d EXCEPT !.prefix = Max({d.read, Len(d.tokens) - Window}),
                     !.read = Len(d.tokens), !.text = @ \o delta],
   delta |-> delta]

\* append, once the tokens are there: nothing while the window ends inside a character, the
\* difference of the two decodings otherwise; a decoding that is not prefix-stable falls back
\* to a full decode.
Appended(d, window) ==
  IF IsSuffix(<<Replacement>>, window) THEN [det |-> d, delta |-> <<>>]
  ELSE Advance(d, LET full == Decode(d.tokens)
                  IN Beyond(window, PrefixText(d), Beyond(full, d.text, full)))

\* append with the tokens of a step: there is always one.
Extended(d, tokens) == [d EXCEPT !.tokens = @ \o tokens]
AppendTokens(d, tokens) == Appended(Extended(d, tokens), WindowText(Extended(d, tokens)))

\* flush: what remains, an incomplete character included.
Flushed(d, delta) ==
  [det |-> [d EXCEPT !.prefix = d.read, !.read = Len(d.tokens), !.text = @ \o delta],
   delta |-> delta]
FlushTokens(d) ==
  IF d.read >= Len(d.tokens) THEN [det |-> d, delta |-> <<>>]
  ELSE Flushed(d, Beyond(WindowText(d), PrefixText(d), <<>>))

----------------------------------------------------------------------------
(* StopStringMatcher: a buffer, for the stop strings `stops` of the request. *)

\* The places (0-based) where stop string s begins in text.
Places(text, s) == {i \in 0 .. Len(text) - Len(s) : SubSeq(text, i + 1, i + Len(s)) = s}

\* A slip: the last character of a stop string is never waited for.
PartialShort(buffer, stops) ==
  Max({0} \cup {n \in 1 .. Len(buffer) :
        \E i \in DOMAIN stops : n < Len(stops[i]) - 1 /\ IsPrefix(SubSeq(buffer, Len(buffer) - n + 1, Len(buffer)), stops[i])})

\* _partial_suffix_len: the longest suffix that a stop string properly begins with.
PartialSuffixLen(buffer, stops) ==
  LET limit == Min({Len(buffer), Max({Len(stops[i]) : i \in DOMAIN stops}) - 1})
  IN Max({0} \cup {n \in 1 .. limit : \E i \in DOMAIN stops :
                     IsPrefix(From(buffer, Len(buffer) - n), stops[i])})

\* The match that begins first, the first configured one of those that begin there.
Earliest(buffer, stops) ==
  LET at(i) == Places(buffer, stops[i])
      hit == {i \in DOMAIN stops : at(i) # {}}
      first == Min(UNION {at(i) : i \in hit})
  IN [index |-> first, stop |-> stops[Min({i \in hit : first \in at(i)})]]

\* feed: [text, stop, buffer], stop = <<>> when none matched.
FeedText(buffer, text, stops) ==
  LET b == buffer \o text
      match == Earliest(b, stops)
      keep == PartialSuffixLen(b, stops)
  IN CASE stops = <<>> -> [text |-> text, stop |-> <<>>, buffer |-> buffer]
       [] stops # <<>> /\ (\E i \in DOMAIN stops : Places(b, stops[i]) # {}) ->
            [text |-> SubSeq(b, 1, match.index), stop |-> match.stop, buffer |-> <<>>]
       [] OTHER -> [text |-> SubSeq(b, 1, Len(b) - keep), stop |-> <<>>,
                    buffer |-> From(b, Len(b) - keep)]

----------------------------------------------------------------------------
(* StreamingDecoder: [det, buffer].                                          *)

NewDecoder == [det |-> NewDetokenizer, buffer |-> <<>>]

\* StreamingDecoder.feed with the tokens of a step.
Feed(dec, tokens, stops) ==
  LET matched(det, f) == [dec |-> [det |-> det, buffer |-> f.buffer], text |-> f.text, stop |-> f.stop]
      decoded(a) == matched(a.det, FeedText(dec.buffer, a.delta, stops))
  IN decoded(AppendTokens(dec.det, tokens))

\* StreamingDecoder.finish: both stages are flushed, the held text first.
Finish(dec) ==
  LET flushed(a) == [dec |-> [det |-> a.det, buffer |-> <<>>], text |-> dec.buffer \o a.delta]
  IN flushed(FlushTokens(dec.det))
=============================================================================
