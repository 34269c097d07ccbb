----------------------------- MODULE OutputPath -----------------------------
(***************************************************************************)
(* The path of a completion between two processes: a worker's engine       *)
(* samples tokens (LLMEngine._process and _emit), its local backend and    *)
(* its application turn them into server-sent events, and the gateway in   *)
(* front reads those as a remote backend.  Between the two, the connection *)
(* may time out or break at any moment.                                    *)
(***************************************************************************)
EXTENDS Streaming, RemoteBackend

CONSTANTS
  Eos,         \* the tokens of LLMEngine._eos_token_ids
  Requests,    \* sampling parameters: [stops, stopTokens, max, ignoreEos]
  MaxPings     \* bound on the keep-alive comments of a response

ASSUME OutputBounds ==
  /\ Eos \subseteq Token /\ MaxPings \in Nat
  /\ \A r \in Requests : /\ DOMAIN r = {"stops", "stopTokens", "max", "ignoreEos"}
                         /\ r.max \in Nat \ {0} /\ r.stopTokens \subseteq Token
                         /\ \A i \in DOMAIN r.stops : r.stops[i] # <<>>

VARIABLES
  req,      \* the request
  toks,     \* the tokens sampled
  dec,      \* LLMEngine._decoders[request_id]
  stop,     \* the stop string that matched, <<>> for none
  end,      \* "running", or how the worker's stream ended: a finish reason or an error
  head,     \* the status of the worker's response, 0 before it has one
  wire,     \* the lines sent and not read yet
  sent,     \* history: the text of all the lines sent
  pings,    \* keep-alive comments sent
  remote    \* the generate() call of the gateway in front

pathVars == <<req, toks, dec, stop, end, head, wire, sent, pings, remote>>

PathInit ==
  /\ req \in Requests
  /\ toks = <<>> /\ dec = NewDecoder /\ stop = <<>> /\ end = "running"
  /\ head = 0 /\ wire = <<>> /\ sent = <<>> /\ pings = 0
  /\ remote = Posted

----------------------------------------------------------------------------
(* The worker.                                                               *)

\* openai_finish_reason: clients know only two.
OpenaiFinishReason(reason) ==
  CASE reason = "none" -> "none" [] reason = "length" -> "length" [] OTHER -> "stop"

ChunkLine(text, reason) == [kind |-> "chunk", text |-> text, reason |-> OpenaiFinishReason(reason)]
Line(kind) == [kind |-> kind]

\* The end of every streamed response: the usage that was asked for, and [DONE].
Epilogue(n) == <<[kind |-> "usage", usage |-> n], Line("done")>>

\* Sequence.check_stop and the engine's own end-of-sequence set.
StopCheck(r, tokens) ==
  LET t == Last(tokens)
  IN CASE t \in r.stopTokens -> "stop"
       [] t \notin r.stopTokens /\ Len(tokens) >= r.max -> "length"
       [] t \in Eos /\ ~r.ignoreEos -> "stop"
       [] OTHER -> "none"

\* _emit: the decoder is flushed when the sequence ended for another reason than a
\* stop string.
Emit(fed, reason) ==
  LET finished(rest) == [dec |-> rest.dec, text |-> fed.text \o rest.text, stop |-> fed.stop]
  IN IF reason # "none" /\ fed.stop = <<>> THEN finished(Finish(fed.dec)) ELSE fed

\* _completion_sse: a chunk for an event with text or the terminator.
Sse(text, reason, n) ==
  (IF text # <<>> \/ reason # "none" THEN <<ChunkLine(text, reason)>> ELSE <<>>)
    \o (IF reason # "none" THEN Epilogue(n) ELSE <<>>)

\* A token is sampled for the request (LLMEngine._process, then the local backend's
\* event and the application's chunk).
Sampled(tokens, checked, out) ==
  LET reason == IF checked = "none" /\ out.stop # <<>> THEN "stop" ELSE checked
  IN /\ toks' = tokens /\ dec' = out.dec /\ stop' = out.stop
     /\ end' = IF reason = "none" THEN "running" ELSE reason
     /\ head' = 200
     /\ wire' = wire \o Sse(out.text, reason, Len(tokens))
     /\ sent' = sent \o out.text
     /\ UNCHANGED <<req, pings, remote>>

Sample(t) ==
  LET checked == StopCheck(req, Append(toks, t))
  IN /\ end = "running" /\ ~Over(remote)
     /\ Sampled(Append(toks, t), checked, Emit(Feed(dec, <<t>>, req.stops), checked))

\* _backend_status
BackendStatus(error) ==
  CASE error = "ModelNotFound" -> 404
    [] error = "BackendTimeout" -> 504
    [] error \in Retryable \ {"BackendTimeout"} -> 503
    [] error = "BackendRequest" -> 400
    [] OTHER -> 502

\* The status of a refusal before the first event: the quotas, the key, a backend error.
RefusalStatus(why) ==
  CASE why = "rate_limited" -> 429 [] why = "unauthorized" -> 401 [] OTHER -> BackendStatus(why)

Refusals == Retryable \cup NonRetryable \cup {"rate_limited", "unauthorized"}

Refuse(why) ==
  /\ end = "running" /\ toks = <<>> /\ ~Over(remote)
  /\ end' = why /\ head' = RefusalStatus(why)
  /\ UNCHANGED <<req, toks, dec, stop, wire, sent, pings, remote>>

\* The stream dies after its first event: the local backend (or the mock) ends it with a
\* failure event, the application with an error object, the usage and [DONE].
Fail ==
  /\ end = "running" /\ toks # <<>> /\ ~Over(remote)
  /\ end' = "error"
  /\ wire' = wire \o <<Line("error")>> \o Epilogue(Len(toks))
  /\ UNCHANGED <<req, toks, dec, stop, head, sent, pings, remote>>

\* A keep-alive comment.
Ping ==
  /\ head = 200 /\ end = "running" /\ ~Over(remote) /\ pings < MaxPings
  /\ pings' = pings + 1 /\ wire' = Append(wire, Line("comment"))
  /\ UNCHANGED <<req, toks, dec, stop, end, head, sent, remote>>

----------------------------------------------------------------------------
(* The gateway in front.                                                     *)

Answered ==
  /\ remote.at = "waiting" /\ head # 0
  /\ remote' = Open(remote, head)
  /\ UNCHANGED <<req, toks, dec, stop, end, head, wire, sent, pings>>

Read ==
  /\ remote.at = "reading" /\ wire # <<>>
  /\ remote' = ReadLine(remote, Head(wire)) /\ wire' = Tail(wire)
  /\ UNCHANGED <<req, toks, dec, stop, end, head, sent, pings>>

\* The connection is lost, or nothing came for too long: what was sent and not read is.
Break(kind) ==
  /\ ~Over(remote)
  /\ remote' = Interrupt(remote, kind) /\ wire' = <<>>
  /\ UNCHANGED <<req, toks, dec, stop, end, head, sent, pings>>

PathNext ==
  \/ \E t \in Token : Sample(t)
  \/ \E why \in Refusals : Refuse(why)
  \/ Fail
  \/ Ping
  \/ Answered
  \/ Read
  \/ \E kind \in {"timeout", "unreachable"} : Break(kind)

----------------------------------------------------------------------------
(* Properties.                                                               *)

\* What the client of the front gateway has is a beginning of what the worker sent, and
\* that is a beginning of the text of the tokens, as they stand now and after every later
\* token: no half character, nothing twice (IncrementalDetokenizer.append).
TextFaithful == IsPrefix(remote.text, sent) /\ IsPrefix(sent, Decode(toks))

\* Inside a character nothing can be said: the text of the last token waits for the next one.
MidCharacter == IsSuffix(<<Replacement>>, Decode(toks))

\* No stop string reaches the client, nor any part of the one that ended the response
\* (StopStringMatcher.feed).  The exception: a response that ends inside a character is
\* flushed without being matched, so a stop string completed by its last token is sent.
StopHidden ==
  /\ ~MidCharacter => \A i \in DOMAIN req.stops : Places(sent, req.stops[i]) = {}
  /\ stop # <<>> => IsPrefix(sent \o stop, Decode(toks))

\* A stop string ends the response with the token that completes it, or the first later one
\* that ends between two characters, however the tokens cut it: a response that ran on, or
\* ended for another reason, has none in its text.
StopNoticed ==
  stop = <<>> /\ ~MidCharacter
    => \A i \in DOMAIN req.stops : Places(Decode(toks), req.stops[i]) = {}

\* What the decoder held back, half a character or the beginning of a stop string, is sent
\* when the response ends without a stop string (StreamingDecoder.finish).
NothingLost == end \in {"stop", "length"} /\ stop = <<>> => sent = Decode(toks)

\* A completion that ends normally arrives whole, with its finish reason and its token count.
ArrivesWhole ==
  remote.at = "final" /\ end \in {"stop", "length"}
    => remote.text = sent /\ remote.reason = end /\ remote.usage = Len(toks)

\* An exception means that nothing was yielded, so that the router may try another replica
\* without repeating text; after the first text a broken connection is reported in-band.
RaisedFresh == remote.at = "raised" => remote.text = <<>>

\* Across the two processes a failure another replica may make good stays one, a timeout
\* stays a timeout, and a request that no replica can serve is not tried elsewhere
\* (_backend_status against _status_error).
ClassKept ==
  remote.at = "raised" /\ remote.status # 0
    => /\ end \in Retryable \cup {"rate_limited"} => remote.error \in Retryable
       /\ end = "BackendTimeout" => remote.error = "BackendTimeout"
       /\ end \in {"BackendRequest", "ModelNotFound", "unauthorized"} => remote.error \in NonRetryable

\* What the Backend contract asks: a failure after the first token ends the stream with a
\* failure event.  It does not hold: the error object of the worker has no choices, and the
\* [DONE] after it makes a normal end of what was a truncated completion.
NoSilentTruncation == remote.at = "final" => end # "error"

\* The text of the tokens is sent, all of it, and nothing of a stop string: the decoder
\* against definitions on the whole text (runtime/streaming.py).
StreamFaithful == TextFaithful /\ StopHidden /\ StopNoticed /\ NothingLost

\* What the caller of a remote backend sees is what became of the request on the other
\* side, whatever the connection does (gateway/backends/openai_compat.py).
DeliveryTrue == ArrivesWhole /\ RaisedFresh /\ ClassKept

\* What a client reads is what was sampled, as text and as an end.
PathTrue == StreamFaithful /\ DeliveryTrue
=============================================================================
