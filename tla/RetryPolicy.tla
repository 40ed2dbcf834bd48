---------------------------- MODULE RetryPolicy ----------------------------
(***************************************************************************)
(* ExponentialBackoff of plenora-runtime-messaging: how long a failed      *)
(* attempt waits for the next one, and whether there is a next one.        *)
(*                                                                         *)
(* c is an ExponentialBackoffConfig. Durations are whole numbers; None     *)
(* stands for an absent max_elapsed. The hash of seed and attempt that the *)
(* jitter draws from is a number, sample, the caller chooses.              *)
(***************************************************************************)
EXTENDS Integers

None == -1

\* validate_config.
IsValid(c) ==
    /\ c.initial > 0 /\ c.max > 0 /\ c.initial <= c.max
    /\ c.multiplier > 0
    /\ c.attempts > 0
    /\ c.jitter \in 0..100

\* One turn of the loop of delay_for_attempt. A product that overflows a
\* Duration is above max_delay, so checked_mul failing is the second case too.
Grow(c, delay) == IF delay * c.multiplier < c.max THEN delay * c.multiplier ELSE c.max

\* The delay before jitter of the attempt numbered attempt; attempt 0 counts as 1.
Nominal(c, attempt) ==
    LET delay[n \in 0..attempt] == IF n <= 1 THEN c.initial ELSE Grow(c, delay[n - 1])
    IN  delay[attempt]

\* apply_jitter: up to jitter percent of the delay is taken off.
ApplyJitter(c, delay, sample) ==
    LET spread == (delay * c.jitter) \div 100
    IN  (delay - spread) + (sample % (spread + 1))

DelayForAttempt(c, attempt, sample) == ApplyJitter(c, Nominal(c, attempt), sample)

DoNotRetry == [verdict |-> "DoNotRetry"]
ToDeadLetter == [verdict |-> "DeadLetter"]
RetryAfter(delay) == [verdict |-> "RetryAfter", delay |-> delay]

Exhausted(c) == IF c.exhausted = "DeadLetter" THEN ToDeadLetter ELSE DoNotRetry

\* The elapsed-time budget holds the wait for the next attempt as well.
Fits(c, elapsed, delay) ==
    c.elapsed = None \/ (elapsed < c.elapsed /\ elapsed + delay <= c.elapsed)

\* decide_class.
DecideClass(c, attempt, elapsed, class, sample) ==
    LET n == IF attempt = 0 THEN 1 ELSE attempt
        delay == DelayForAttempt(c, n, sample)
    IN  CASE class = "Permanent" -> DoNotRetry
          [] class = "DeadLetter" -> ToDeadLetter
          [] class = "OutcomeUnknown" /\ ~c.retryUnknown -> DoNotRetry
          [] OTHER -> IF n < c.attempts /\ Fits(c, elapsed, delay)
                      THEN RetryAfter(delay) ELSE Exhausted(c)
=============================================================================
