------------------------- MODULE MCBrokerDelivery -------------------------
EXTENDS BrokerDelivery, TLC

CONSTANTS good, orphan, crammed

\* A message that can be handled and buried, one without a correlation ID, and one
\* that can be handled but whose headers leave no room for a dead letter's.
Named == [message_id |-> "uuid", correlation_id |-> "uuid", causation_id |-> "absent"]
Good == [headers |-> [message_id |-> 1, correlation_id |-> 1], identity |-> Named,
         broker |-> <<<<"sequence", 1>>>>, payload |-> TRUE]
MCContentOf ==
    (good :> Good)
    @@ (orphan :> [Good EXCEPT !.headers = [message_id |-> 1], !.identity.correlation_id = "absent"])
    @@ (crammed :> [Good EXCEPT !.headers = [message_id |-> 1, correlation_id |-> 1, a |-> 1, b |-> 1]])

\* Two attempts, then the dead letter.
MCBackoff == [initial |-> 1, max |-> 4, multiplier |-> 2, attempts |-> 2, elapsed |-> None,
              jitter |-> 0, retryUnknown |-> FALSE, exhausted |-> "DeadLetter"]

\* Two deliveries whose leases are lost and that nobody buries, one with all that
\* can happen around it, or one that the sink cannot take.
MCSurroundings ==
    {{good, orphan, "second", "heartbeat"},
     {good, orphan} \cup FaultKinds \cup {"link", "operator", "sink"},
     {crammed, "nack", "operator", "sink"}}
Everything == {Messages \cup FaultKinds \cup {"second", "link", "operator", "sink"}}

----------------------------------------------------------------------------
(* The retry policy over bounded inputs: a few delays, bounds and           *)
(* percentages, invalid ones included.                                      *)

Policies ==
    {c \in [initial : {0, 1, 3}, max : {2, 7, 20}, multiplier : {0, 1, 2, 3}, attempts : {0, 1, 4},
            elapsed : {None, 0, 6, 15}, jitter : {0, 50, 101}, retryUnknown : BOOLEAN,
            exhausted : {"DeadLetter", "DoNotRetry"}] : IsValid(c)}

\* min(max_delay, initial_delay * multiplier^(attempt - 1)).
Reference(c, n) ==
    LET delay == c.initial * c.multiplier ^ (n - 1)
    IN  IF delay < c.max THEN delay ELSE c.max

\* delay_for_attempt, a loop that multiplies and clips, computes the capped power of
\* its reference, and jitter takes at most its percentage off it.
ASSUME DelayWithinReference ==
    \A c \in Policies, n \in 1..5, sample \in {0, 5, 8} :
        LET delay == DelayForAttempt(c, n, sample)
        IN  delay <= Reference(c, n) /\ 100 * delay >= (100 - c.jitter) * Reference(c, n)

\* A retry is granted only below max_attempts, and the wait for it ends within
\* max_elapsed, so neither is exceeded however often the policy is asked.
ASSUME RetriesBounded ==
    \A c \in Policies, n \in 0..5, elapsed \in {0, 4, 6, 15}, sample \in {0, 5} :
        \A class \in {"Retryable", "Permanent", "DeadLetter", "OutcomeUnknown"} :
            LET decision == DecideClass(c, n, elapsed, class, sample)
            IN  decision.verdict = "RetryAfter" =>
                    /\ n < c.attempts
                    /\ c.elapsed # None => elapsed + decision.delay <= c.elapsed
                    /\ class = "OutcomeUnknown" => c.retryUnknown

\* A dead letter that is replayed, and fails again, is buried again: its entries are
\* replaced and not added to, and only what was refused once is refused.
ASSUME BuriedAgain ==
    \A keys \in SUBSET {"message_id", "a", "b"}, size \in 1..3 :
        LET once == DeadLetterMessage([k \in keys |-> size])
        IN  once.verdict = Ok => DeadLetterMessage(once.entries) = once
=============================================================================
