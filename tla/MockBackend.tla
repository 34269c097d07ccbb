---------------------------- MODULE MockBackend ----------------------------
(***************************************************************************)
(* The synthetic model server (gateway/backends/mock.py): the stream of one *)
(* request as a record [cut, emitted, pending], and the counters the        *)
(* backend keeps over all of them.  The fate of a request is drawn when it  *)
(* starts: cut = 0 fails before the first token, a cut inside the           *)
(* completion drops the stream there, a cut behind it lets it finish.       *)
(***************************************************************************)
EXTENDS Naturals

CONSTANTS
  MockTokens,   \* tokens of a completion
  PerEvent      \* MockConfig.tokens_per_event

ASSUME MockBounds == MockTokens \in Nat \ {0} /\ PerEvent \in Nat \ {0}

\* _rng and the draws of generate: a single token has no inside to cut.
Fates == {0, MockTokens + 1} \cup 1 .. MockTokens - 1

NewStream(fate) == [cut |-> fate, emitted |-> 0, pending |-> 0]

\* MockStats
NewStats == [requests |-> 0, inFlight |-> 0, completed |-> 0, failed |-> 0, cancelled |-> 0]
Entered(stats) == [stats EXCEPT !.requests = @ + 1, !.inFlight = @ + 1]

\* The end of a stream, by its last event or an exception, and the finally clause.
Left(stats, how) == [stats EXCEPT ![how] = @ + 1, !.inFlight = @ - 1]

Event(tokens, finished, error, usage) ==
  [tokens |-> tokens, finished |-> finished, error |-> error, usage |-> usage]
Silence == Event(0, FALSE, FALSE, 0)

Failing(s) == s.cut = 0
Dropped(s) == s.cut > 0 /\ s.emitted >= s.cut
Completing(s) == s.emitted + 1 >= MockTokens

\* What generate does when a sleep is over and it does not raise: the stream it leaves and
\* the event it yields, if any.  Tokens wait until they fill an event.
Woken(s) ==
  LET n == s.pending + 1
      next == [s EXCEPT !.emitted = @ + 1]
  IN CASE Dropped(s) -> [stream |-> s, event |-> Event(0, TRUE, TRUE, 0)]
       [] ~Dropped(s) /\ Completing(s) ->
            [stream |-> next, event |-> Event(n, TRUE, FALSE, MockTokens)]
       [] ~Dropped(s) /\ ~Completing(s) /\ n >= PerEvent ->
            [stream |-> [next EXCEPT !.pending = 0], event |-> Event(n, FALSE, FALSE, 0)]
       [] OTHER -> [stream |-> [next EXCEPT !.pending = n], event |-> Silence]
=============================================================================
