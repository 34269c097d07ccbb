--------------------------- MODULE RemoteBackend ---------------------------
(***************************************************************************)
(* OpenAICompatBackend (gateway/backends/openai_compat.py): the server-sent *)
(* events of a model server turned into the token events of the Backend    *)
(* protocol.  The state of one generate() call is a record:                 *)
(*   at       waiting (for the status), reading, or how it ended: final,    *)
(*            failed (in-band) or raised                                    *)
(*   started, reason, usage   the local variables                           *)
(*   text     what was yielded                                              *)
(*   error, status   the class that was raised, and its status_code         *)
(***************************************************************************)
EXTENDS Naturals, Sequences

Retryable == {"BackendUnavailable", "BackendTimeout", "BackendOverloaded", "RetryableBackend"}
NonRetryable == {"BackendRequest", "ModelNotFound", "AdapterNotFound", "StreamInterrupted",
                 "NonRetryableBackend"}

NoUsage == 0

\* generate() up to the answer: the request is built and posted.
Posted == [at |-> "waiting", started |-> FALSE, reason |-> "none", usage |-> NoUsage,
           text |-> <<>>, error |-> "none", status |-> 0]

\* _status_error: the class of a response that is not a 200.
StatusError(status) ==
  CASE status \in {429, 503} -> "BackendOverloaded"
    [] status = 404 -> "ModelNotFound"
    [] status \in {408, 504} -> "BackendTimeout"
    [] status \in (400 .. 499) \ {404, 408, 429} -> "BackendRequest"
    [] OTHER -> "BackendUnavailable"

\* _transport_error
TransportError(kind) == IF kind = "timeout" THEN "BackendTimeout" ELSE "BackendUnavailable"

Raise(g, error, status) == [g EXCEPT !.at = "raised", !.error = error, !.status = status]

\* The response's status line.
Open(g, status) ==
  IF status = 200 THEN [g EXCEPT !.at = "reading"] ELSE Raise(g, StatusError(status), status)

\* _FINISH_REASONS: what is not recognised ended the completion all the same.
Mapped(reason) ==
  CASE reason = "length" -> "length" [] reason \in {"abort", "cancelled"} -> "abort" [] OTHER -> "stop"

\* _choice and the yield of a delta; a chunk without choices (usage, an error object)
\* has neither text nor reason.
TakeChunk(g, line) ==
  [g EXCEPT !.started = @ \/ line.text # <<>>,
            !.reason = IF line.reason = "none" THEN @ ELSE Mapped(line.reason),
            !.text = @ \o line.text]

\* One turn of the loop over the response's lines (_payload, _decode), and the final event
\* after [DONE]: comments are skipped, and an error object says nothing it looks at.
ReadLine(g, line) ==
  CASE line.kind = "done" -> [g EXCEPT !.at = "final", !.reason = IF @ = "none" THEN "stop" ELSE @]
    [] line.kind = "usage" -> [g EXCEPT !.usage = line.usage]
    [] line.kind = "chunk" -> TakeChunk(g, line)
    [] line.kind \in {"comment", "error"} -> g

\* A slip: the call is given up with an exception whatever was yielded.
InterruptRaises(g, kind) == Raise(g, TransportError(kind), 0)

\* httpx.HTTPError: raised before the first text, a failure event after it.
Interrupt(g, kind) ==
  IF g.started THEN [g EXCEPT !.at = "failed"] ELSE Raise(g, TransportError(kind), 0)

Over(g) == g.at \in {"final", "failed", "raised"}
=============================================================================
