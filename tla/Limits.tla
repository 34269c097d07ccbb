------------------------------- MODULE Limits -------------------------------
(***************************************************************************)
(* gateway/limits.py: the token bucket and the admission test.  A bucket   *)
(* is refilled lazily, on access; its level may be negative.  Levels are   *)
(* whole tokens and time whole ticks, `rate` tokens per tick; a limit of 0 *)
(* is None, no limit.                                                      *)
(***************************************************************************)
EXTENDS Integers

NoLimit == 0

Least(x, y) == IF x <= y THEN x ELSE y

NewBucket(capacity, now) == [level |-> capacity, updated |-> now]

\* _refill; a clock that stands still, or goes back, changes nothing.
Refilled(bk, capacity, rate, now) ==
  IF now > bk.updated
    THEN [level |-> Least(capacity, bk.level + (now - bk.updated) * rate), updated |-> now]
    ELSE bk

Level(bk, capacity, rate, now) == Refilled(bk, capacity, rate, now).level

\* charge: unconditional.
Charged(bk, capacity, rate, now, amount) ==
  [Refilled(bk, capacity, rate, now) EXCEPT !.level = @ - amount]

\* retry_after, and retry_after_header: the deficit over the rate, in whole ticks, up.
RetryAfter(bk, capacity, rate, now, amount) ==
  LET deficit == amount - Level(bk, capacity, rate, now)
  IN  IF deficit <= 0 THEN 0 ELSE (deficit + rate - 1) \div rate

\* One of the two tests of check_request.
Affords(bk, capacity, rate, now, amount) ==
  capacity = NoLimit \/ amount = 0 \/ Level(bk, capacity, rate, now) >= amount

\* What check_request leaves in a bucket.  That a test refills the bucket it looks at
\* is left out: refilling twice is refilling once.
AfterCheck(bk, capacity, rate, now, amount, admitted) ==
  IF admitted /\ capacity # NoLimit /\ amount > 0
    THEN Charged(bk, capacity, rate, now, amount) ELSE bk
=============================================================================
