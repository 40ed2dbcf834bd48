------------------------- MODULE CapabilitiesProofs -------------------------
(***************************************************************************)
(* Safety of capability dispatch for any documents, messages and adapters  *)
(* that satisfy the assumptions, any number of hops and attempts, every    *)
(* minimum binding and every retry configuration.                          *)
(*                                                                         *)
(* Registry, negotiation and delivery share no variable that these         *)
(* properties depend on, so each has an invariant of its own.              *)
(***************************************************************************)
EXTENDS Capabilities, FiniteSetTheorems, WellFoundedInduction, TLAPS

\* What RegistrySound says of a document that was discovered.
Reliable(doc) ==
    LET ops == Range(doc.operations)
    IN  /\ Unambiguous(doc.json)
        /\ Cardinality(RuntimeInterfaces(doc)) = 1
        /\ Cardinality({Key(op) : op \in ops}) = Len(doc.operations)
        /\ \A op \in ops :
            /\ WithinLimits(op.attributes)
            /\ \A s \in Range(op.surfaces) : Rank(SurfaceSideEffect(op, s)) >= Rank(op.effect)

\* What it says of one that is registered under the REST name.
Profiled(doc) ==
    \A name \in Range(ExpectedOperations) :
        \E op \in Operation(doc, name, 1) :
            /\ op.status = "Available" /\ "Runtime" \in Range(op.surfaces)
            /\ op.controls = [cancellation |-> TRUE, deadline |-> TRUE, key |-> TRUE]

SoundEntry(id, e) ==
    /\ e.discovered => Reliable(e.doc)
    /\ id.name = RestCapability => e.discovered /\ Profiled(e.doc)

RegistryInv ==
    /\ IsFiniteSet(Registered)
    /\ Cardinality(Registered) <= MaxCapabilities
    /\ \A id \in Registered : SoundEntry(id, registry.entries[id])

\* A hop goes on with nothing but the context on record, which is there for good,
\* and the binding was selected with it.
NegotiationInv ==
    /\ hops = [record |-> hops.record, given |-> hops.given, binding |-> hops.binding,
               receptions |-> hops.receptions]
    /\ hops.given \subseteq {hops.record}
    /\ hops.given # {} => hops.record # NoContext
    /\ hops.binding = "V1" => /\ hops.record # NoContext
                              /\ hops.record.requires = "V1" \/ hops.record.downgrade

IsCall(k) ==
    k = [pc |-> k.pc, attempt |-> k.attempt, error |-> k.error, started |-> k.started,
         applied |-> k.applied, uncertain |-> k.uncertain]

\* What PublicErrorHonest says of an error, and of whether its attempt had an effect.
Honest(error, applied) ==
    error # NoError =>
        LET public == PublicErrorOf(error)
        IN  /\ ValidRetry(public.effect, public.retry)
            /\ public.effect = "None" => ~applied

\* An attempt whose outcome is unknown is over.
Closed(k) == k.uncertain /\ ~Backoff.retryUnknown => k.pc \in {"dead", "dropped"}

\* While an attempt is in progress no error is on record.
Clean(k) == k.pc \in {"invoked", "publishing"} => k.error = NoError

DeliveryInv ==
    IsCall(call) /\ Honest(call.error, call.applied) /\ Closed(call) /\ Clean(call)

IInv == RegistryInv /\ NegotiationInv /\ DeliveryInv

----------------------------------------------------------------------------
(* Ordered checks.                                                          *)

\* A set of positions that is not empty has a first one.
LEMMA FirstIsOne ==
    ASSUME NEW S \in SUBSET Nat, S # {}
    PROVE  First(S) \in S
  <1> DEFINE R == {ss \in Nat \X Nat : ss[1] < ss[2]}
  <1>1. IsWellFoundedOn(R, Nat)
    BY NatLessThanWellFounded, Zenon DEF OpToRel
  <1> HIDE DEF R
  <1>2. PICK m \in S : \A k \in S : ~(<<k, m>> \in R)
    BY <1>1, WFMin
  <1>3. \A k \in S : ~(k < m)
    BY <1>2 DEF R
  <1>4. \A k \in S : m <= k
    BY <1>3
  <1> QED
    BY <1>2, <1>4 DEF First

\* Checks in order give what one of them returns, or the default.
LEMMA OneOfTheChecks ==
    ASSUME NEW n \in Nat, NEW checks, DOMAIN checks = 1..n, NEW default
    PROVE  \/ /\ FirstOf(checks, default) = default
              /\ \A i \in 1..n : ~checks[i][1]
           \/ \E i \in 1..n : FirstOf(checks, default) = checks[i][2]
  <1> DEFINE failed == {i \in DOMAIN checks : checks[i][1]}
  <1>1. FirstOf(checks, default) = IF failed = {} THEN default ELSE checks[First(failed)][2]
    BY DEF FirstOf
  <1>2. failed \in SUBSET Nat
    OBVIOUS
  <1>3. CASE failed = {}
    BY <1>1, <1>3
  <1>4. CASE failed # {}
    <2>1. First(failed) \in failed
      BY <1>2, <1>4, FirstIsOne
    <2> QED
      BY <1>1, <1>4, <2>1
  <1> QED
    BY <1>3, <1>4

\* A validation that has no objection found no check failing.
LEMMA NothingFailed ==
    ASSUME NEW n \in Nat, NEW checks, DOMAIN checks = 1..n,
           \A i \in 1..n : checks[i][2] # Ok, FirstFailure(checks) = Ok
    PROVE  \A i \in 1..n : ~checks[i][1]
  BY OneOfTheChecks DEF FirstFailure

\* Validations one after the other have no objection only if none of them has.
LEMMA AllWell ==
    ASSUME NEW n \in Nat, NEW verdicts, DOMAIN verdicts = 1..n, FirstVerdict(verdicts) = Ok
    PROVE  \A i \in 1..n : verdicts[i] = Ok
  <1> DEFINE bad == {i \in DOMAIN verdicts : verdicts[i] # Ok}
  <1>1. FirstVerdict(verdicts) = IF bad = {} THEN Ok ELSE verdicts[First(bad)]
    BY DEF FirstVerdict
  <1>2. bad \in SUBSET Nat
    OBVIOUS
  <1>3. bad = {}
    BY <1>1, <1>2, FirstIsOne
  <1> QED
    BY <1>3

----------------------------------------------------------------------------
(* Dispatch errors.                                                         *)

\* A refusal before the invocation: there was no effect, and it is not retried.
LEMMA RefusalHonest ==
    ASSUME NEW e, e.kind \in Before \/ (e.kind = "DeadlineExceeded" /\ ~e.started)
    PROVE  Honest(e, FALSE) /\ RetryClass(e) = "DeadLetter"
  <1>1. RetryClass(e) = "DeadLetter"
    BY DEF RetryClass, Before
  <1>2. \E c, p : \/ PublicErrorOf(e) = PlenoraError(c, p, "None", Retry("Quarantine"))
                  \/ PublicErrorOf(e) = PlenoraError(c, p, "None", Retry("Never"))
    <2>1. CASE e.kind \in Before
      BY <2>1 DEF PublicErrorOf, Before
    <2>2. CASE e.kind = "DeadlineExceeded" /\ ~e.started
      BY <2>2 DEF PublicErrorOf
    <2> QED
      BY <2>1, <2>2
  <1> QED
    BY <1>1, <1>2 DEF Honest, PlenoraError, Retry, ValidRetry

\* After the invocation the runtime itself never denies an effect.
Unsure ==
    {"IncompatibleResponse", "ResultMetadata", "ResultSinkUnavailable", "ResultPublication",
     "ResultPublicationUnknown"}

LEMMA UnsureHonest ==
    ASSUME NEW e, NEW applied, e.kind \in Unsure \/ (e.kind = "DeadlineExceeded" /\ e.started)
    PROVE  Honest(e, applied) /\ RetryClass(e) = "OutcomeUnknown"
  <1>1. RetryClass(e) = "OutcomeUnknown"
    BY DEF RetryClass, Before, Unsure
  <1>2. \E c, p : PublicErrorOf(e) = PlenoraError(c, p, "Unknown", Retry("RequiresRecovery"))
    <2>1. CASE e.kind \in Unsure
      BY <2>1 DEF PublicErrorOf, Unsure
    <2>2. CASE e.kind = "DeadlineExceeded" /\ e.started
      BY <2>2 DEF PublicErrorOf
    <2> QED
      BY <2>1, <2>2
  <1> QED
    BY <1>1, <1>2 DEF Honest, PlenoraError, Retry, ValidRetry

\* The failure of an adapter that tells the truth.
LEMMA FailureHonest ==
    ASSUME NEW a \in Answers, a.is = "failure", NEW discovered \in BOOLEAN
    PROVE  LET e == Failed(a.failure, discovered)
           IN  /\ e.kind = "Handler"
               /\ RetryClass(e) = a.failure.class
               /\ Honest(e, a.applied)
  <1>1. PICK f : f = a.failure
    OBVIOUS
  <1>2. PICK e : e = Failed(f, discovered)
    OBVIOUS
  <1>3. /\ e.kind = "Handler" /\ e.failure = f
        /\ e.missing = (discovered /\ f.public = Unmapped)
    BY <1>2 DEF Failed, Error, NoError
  <1>4. RetryClass(e) = f.class
    BY <1>3 DEF RetryClass, Before
  <1>5. CASE e.missing
    <2>1. PublicErrorOf(e) = PlenoraError("Protocol", "Finalize", "Unknown", Retry("RequiresRecovery"))
      BY <1>3, <1>5 DEF PublicErrorOf
    <2> QED
      BY <1>1, <1>2, <1>3, <1>4, <2>1 DEF Honest, PlenoraError, Retry, ValidRetry
  <1>6. CASE ~e.missing /\ f.public # Unmapped
    <2>1. PublicErrorOf(e) = f.public
      BY <1>3, <1>6 DEF PublicErrorOf
    <2>2. f = MappedFailure(f.public) /\ ValidRetry(f.public.effect, f.public.retry)
      BY <1>1, <1>6, AnswersAssumption
    <2>3. f.public.effect = "None" => ~a.applied
      BY <1>1, <2>2, AnswersAssumption DEF MappedFailure
    <2> QED
      BY <1>1, <1>2, <1>3, <1>4, <2>1, <2>2, <2>3 DEF Honest
  <1>7. CASE ~e.missing /\ f.public = Unmapped
    <2>1. PublicErrorOf(e) = PlenoraError("Internal", "Finalize", PublicEffect(f.certainty), PublicRetry(f))
      BY <1>3, <1>7 DEF PublicErrorOf
    <2>2. /\ f.certainty \in {"NotStarted", "Unknown"}
          /\ f.class \in {"Retryable", "Permanent", "DeadLetter", "OutcomeUnknown"}
          /\ f.certainty = "NotStarted" => ~a.applied
      BY <1>1, AnswersAssumption
    <2>3. PublicRetry(f).kind # "After"
      BY <2>2 DEF PublicRetry, Retry
    <2>4. f.certainty = "Unknown" => PublicRetry(f).kind = "RequiresRecovery"
      BY DEF PublicRetry, Retry
    <2> QED
      BY <1>1, <1>2, <1>3, <1>4, <2>1, <2>2, <2>3, <2>4
      DEF Honest, PlenoraError, PublicEffect, ValidRetry
  <1> QED
    BY <1>3, <1>5, <1>6, <1>7

\* A refused request was refused before the invocation.
LEMMA AdmissionRefuses ==
    ASSUME NEW r, Admission(r) # NoError
    PROVE  LET e == Admission(r)
           IN  e.kind \in Before \/ (e.kind = "DeadlineExceeded" /\ ~e.started)
  <1> DEFINE checks == <<
        <<r.size > MaxPayload, Error("PayloadTooLarge")>>,
        <<r.capability \notin Registered, Error("UnknownCapability")>>,
        <<RequestVerdict(r) # Ok, Rejection(RequestVerdict(r))>>,
        <<r.deadline.is = "malformed", Rejection("InvalidDeadline")>>,
        <<r.deadline.is = "instant" /\ r.deadline.at < clock, Late(FALSE)>>>>
  <1>1. Admission(r) = FirstOf(checks, NoError)
    BY DEF Admission
  <1>2. DOMAIN checks = 1..5
    OBVIOUS
  <1>3. /\ checks[1][2] = Error("PayloadTooLarge") /\ checks[2][2] = Error("UnknownCapability")
        /\ checks[3][2] = Rejection(RequestVerdict(r))
        /\ checks[4][2] = Rejection("InvalidDeadline") /\ checks[5][2] = Late(FALSE)
    OBVIOUS
  <1> HIDE DEF checks
  <1>4. PICK i \in 1..5 : Admission(r) = checks[i][2]
    <2>1. 5 \in Nat
      OBVIOUS
    <2>2. PICK seq : seq = checks
      OBVIOUS
    <2>3. FirstOf(seq, NoError) = NoError \/ \E i \in 1..5 : FirstOf(seq, NoError) = seq[i][2]
      BY <1>2, <2>1, <2>2, OneOfTheChecks
    <2> QED
      BY <1>1, <2>2, <2>3
  <1>5. /\ Error("PayloadTooLarge").kind \in Before /\ Error("UnknownCapability").kind \in Before
        /\ Late(FALSE).kind = "DeadlineExceeded" /\ ~Late(FALSE).started
    BY DEF Error, Late, Before, NoError
  <1>6. \A reason : Rejection(reason).kind \in Before
    BY DEF Rejection, Error, Before, NoError
  <1>7. i \in {1, 2, 3, 4, 5}
    OBVIOUS
  <1> QED
    BY <1>3, <1>4, <1>5, <1>6, <1>7

\* A response that is not accepted leaves the runtime unsure.
LEMMA ResponseUnsure ==
    ASSUME NEW a, ResponseError(a) # NoError
    PROVE  ResponseError(a).kind \in Unsure
  <1> DEFINE expected == ExpectedOutputs(Request)
             checks == <<
        <<a.is = "acknowledged" /\ expected # {}, BadResponse("MissingOutput")>>,
        <<a.is = "acknowledged", NoError>>,
        <<a.size > MaxPayload, BadResponse("OutputTooLarge")>>,
        <<\E p \in expected : p.contract # a.contract, BadResponse("OutputContractMismatch")>>,
        <<\E p \in expected : ~Supports(p, a.type), BadResponse("OutputContentTypeMismatch")>>,
        <<ResultVerdict(a.headers) # Ok, Unpublished("ResultMetadata")>>,
        <<~HasSink, Unpublished("ResultSinkUnavailable")>>>>
  <1>1. ResponseError(a) = FirstOf(checks, NoError)
    BY DEF ResponseError
  <1>2. DOMAIN checks = 1..7
    OBVIOUS
  <1>3. \A i \in 1..7 : checks[i][2] \in
            {BadResponse("MissingOutput"), NoError, BadResponse("OutputTooLarge"),
             BadResponse("OutputContractMismatch"), BadResponse("OutputContentTypeMismatch"),
             Unpublished("ResultMetadata"), Unpublished("ResultSinkUnavailable")}
    OBVIOUS
  <1> HIDE DEF checks
  <1>4. PICK i \in 1..7 : ResponseError(a) = checks[i][2]
    <2>1. 7 \in Nat
      OBVIOUS
    <2>2. PICK seq : seq = checks
      OBVIOUS
    <2>3. FirstOf(seq, NoError) = NoError \/ \E i \in 1..7 : FirstOf(seq, NoError) = seq[i][2]
      BY <1>2, <2>1, <2>2, OneOfTheChecks
    <2> QED
      BY <1>1, <2>2, <2>3
  <1>5. \A reason : BadResponse(reason).kind = "IncompatibleResponse"
    BY DEF BadResponse, Error, NoError
  <1>6. \A kind : Unpublished(kind).kind = kind
    BY DEF Unpublished, Error, NoError
  <1> QED
    BY <1>3, <1>4, <1>5, <1>6 DEF Unsure

----------------------------------------------------------------------------
(* The delivery.                                                            *)

\* What the worker makes of a decision of the policy.
LEMMA Verdicts ==
    ASSUME NEW attempt, NEW class
    PROVE  Verdict(DecideClass(Backoff, attempt, 0, class, 0)) \in {"waiting", "dead", "dropped"}
  <1>1. PICK d : d = DecideClass(Backoff, attempt, 0, class, 0)
    OBVIOUS
  <1>2. d.verdict \in {"RetryAfter", "DeadLetter", "DoNotRetry"}
    BY <1>1 DEF DecideClass, DoNotRetry, ToDeadLetter, RetryAfter, Exhausted
  <1> QED
    BY <1>1, <1>2 DEF Verdict

\* An attempt that fails: the error is honest, and if the runtime is unsure of the
\* effect, the policy is told so and there is no other attempt.
LEMMA FailStep ==
    ASSUME NEW c, IsCall(c), NEW error, Fail(c, error), Honest(error, c.applied),
           c.uncertain => Backoff.retryUnknown,
           c.started /\ error.kind # "Handler" => RetryClass(error) = "OutcomeUnknown"
    PROVE  DeliveryInv'
  <1>1. PICK k : k = call'
    OBVIOUS
  <1>2. /\ IsCall(k) /\ k.error = error /\ k.applied = c.applied
        /\ k.uncertain = (\/ c.uncertain \/ (c.started /\ error.kind # "Handler")
                          \/ RetryClass(error) = "OutcomeUnknown")
        /\ k.pc = Verdict(DecideClass(Backoff, c.attempt, 0, RetryClass(error), 0))
    BY <1>1 DEF Fail, IsCall
  <1>3. ASSUME k.uncertain, ~Backoff.retryUnknown PROVE k.pc = "dropped"
    <2>1. RetryClass(error) = "OutcomeUnknown"
      BY <1>2, <1>3
    <2>2. DecideClass(Backoff, c.attempt, 0, RetryClass(error), 0) = DoNotRetry
      BY <1>3, <2>1 DEF DecideClass
    <2> QED
      BY <1>2, <2>2 DEF Verdict, DoNotRetry
  <1>4. Closed(k)
    BY <1>3 DEF Closed
  <1>5. Clean(k)
    BY <1>2, Verdicts DEF Clean
  <1> QED
    BY <1>1, <1>2, <1>4, <1>5 DEF DeliveryInv

\* A cancelled attempt is the last one.
LEMMA CancelledStep ==
    ASSUME NEW c, IsCall(c), NEW error, Cancelled(c, error), Honest(error, c.applied)
    PROVE  DeliveryInv'
  <1>1. PICK k : k = call'
    OBVIOUS
  <1>2. IsCall(k) /\ k.error = error /\ k.applied = c.applied /\ k.pc = "dropped"
    BY <1>1 DEF Cancelled, IsCall
  <1> QED
    BY <1>1, <1>2 DEF DeliveryInv, Closed, Clean

\* The delivery as the worker starts on it.
LEMMA FreshAttempt ==
    ASSUME DeliveryInv
    PROVE  /\ IsCall(Started) /\ Started.error = NoError /\ Started.started = FALSE
           /\ Started.applied = FALSE /\ Started.uncertain = call.uncertain
  <1>1. IsCall(call)
    BY DEF DeliveryInv
  <1>2. PICK c : c = Started
    OBVIOUS
  <1>3. /\ c.error = NoError /\ c.started = FALSE /\ c.applied = FALSE
        /\ c.uncertain = call.uncertain
    BY <1>1, <1>2 DEF IsCall, Started
  <1>4. IsCall(c)
    BY <1>1, <1>2 DEF IsCall, Started
  <1> QED
    BY <1>2, <1>3, <1>4

\* The steps before the invocation.
LEMMA QueuedSteps ==
    ASSUME DeliveryInv, RejectUndecodable \/ Refuse \/ Invoke
    PROVE  DeliveryInv'
  <1>1. call.pc = "queued"
    BY DEF RejectUndecodable, Refuse, Invoke
  <1>2. call.uncertain => Backoff.retryUnknown
    BY <1>1 DEF DeliveryInv, Closed
  <1>3. CASE RejectUndecodable \/ Invoke
    <2>1. PICK c : c = Started
      OBVIOUS
    <2>2. IsCall(c) /\ c.error = NoError /\ c.uncertain = call.uncertain
      BY <2>1, FreshAttempt
    <2>3. PICK k : k = call'
      OBVIOUS
    <2>4. IsCall(k) /\ k.error = NoError /\ k.uncertain = call.uncertain
      BY <1>3, <2>1, <2>2, <2>3 DEF RejectUndecodable, Invoke, IsCall
    <2> QED
      BY <1>2, <2>3, <2>4 DEF DeliveryInv, Honest, Closed, Clean
  <1>4. CASE Refuse
    <2>1. PICK error : /\ error = Admission(Request) /\ error # NoError
                       /\ Fail(Started, error)
      BY <1>4 DEF Refuse
    <2>2. Honest(error, FALSE)
      BY <2>1, AdmissionRefuses, RefusalHonest
    <2>3. PICK c : c = Started
      OBVIOUS
    <2>4. IsCall(c) /\ ~c.started /\ c.applied = FALSE /\ c.uncertain = call.uncertain
      BY <2>3, FreshAttempt
    <2>5. Honest(error, c.applied)
      BY <2>2, <2>4
    <2>6. Fail(c, error)
      BY <2>1, <2>3
    <2> QED
      BY <1>2, <2>4, <2>5, <2>6, FailStep
  <1> QED
    BY <1>3, <1>4

\* The answer of the adapter.
LEMMA AdapterSteps ==
    ASSUME DeliveryInv, NEW a \in Answers, AdapterFails(a) \/ AdapterAnswers(a)
    PROVE  DeliveryInv'
  <1>1. call.pc = "invoked" /\ IsCall(call)
    BY DEF AdapterFails, AdapterAnswers, DeliveryInv
  <1>2. call.uncertain => Backoff.retryUnknown
    BY <1>1 DEF DeliveryInv, Closed
  <1>3. CASE AdapterFails(a)
    <2>1. PICK c : c = [call EXCEPT !.applied = a.applied]
      OBVIOUS
    <2>2. IsCall(c) /\ c.applied = a.applied /\ c.uncertain = call.uncertain
      BY <1>1, <2>1 DEF IsCall
    <2>3. PICK error : error = Failed(a.failure, Discovered(Request.capability))
      OBVIOUS
    <2>4. a.is = "failure" /\ Fail(c, error)
      BY <1>3, <2>1, <2>3 DEF AdapterFails
    <2>5. error.kind = "Handler" /\ Honest(error, a.applied)
      <3>1. PICK discovered \in BOOLEAN : error = Failed(a.failure, discovered)
        BY <2>3 DEF Discovered, Failed
      <3> QED
        BY <2>4, <3>1, FailureHonest
    <2> QED
      BY <1>2, <2>2, <2>4, <2>5, FailStep
  <1>4. CASE AdapterAnswers(a) /\ ResponseError(a) # NoError
    <2>1. PICK c : c = [call EXCEPT !.applied = TRUE]
      OBVIOUS
    <2>2. IsCall(c) /\ c.applied = TRUE /\ c.uncertain = call.uncertain
      BY <1>1, <2>1 DEF IsCall
    <2>3. PICK error : error = ResponseError(a)
      OBVIOUS
    <2>4. Fail(c, error)
      BY <1>4, <2>1, <2>3 DEF AdapterAnswers
    <2>5. Honest(error, c.applied) /\ RetryClass(error) = "OutcomeUnknown"
      BY <1>4, <2>3, ResponseUnsure, UnsureHonest
    <2> QED
      BY <1>2, <2>2, <2>4, <2>5, FailStep
  <1>5. CASE AdapterAnswers(a) /\ ResponseError(a) = NoError
    <2>1. PICK k : k = call'
      OBVIOUS
    <2>2. IsCall(k) /\ k.error = call.error /\ k.uncertain = call.uncertain
      BY <1>1, <1>5, <2>1 DEF AdapterAnswers, IsCall
    <2>3. call.error = NoError
      BY <1>1 DEF DeliveryInv, Clean
    <2> QED
      BY <1>2, <2>1, <2>2, <2>3 DEF DeliveryInv, Honest, Closed, Clean
  <1> QED
    BY <1>3, <1>4, <1>5

\* The end of an attempt whose adapter was invoked, by the sink, the deadline or a
\* cancellation.
LEMMA EndingSteps ==
    ASSUME DeliveryInv,
           \/ \E outcome \in {"Confirmed", "OutcomeUnknown", "Err"} : Publish(outcome)
           \/ \E applied \in BOOLEAN : DeadlineElapses(applied)
           \/ \E applied \in BOOLEAN : CancelTask(applied)
    PROVE  DeliveryInv'
  <1>1. IsCall(call) /\ call.pc \in {"invoked", "publishing"}
    BY DEF Publish, DeadlineElapses, CancelTask, DeliveryInv
  <1>2. (call.uncertain => Backoff.retryUnknown) /\ call.error = NoError
    BY <1>1 DEF DeliveryInv, Closed, Clean
  <1>3. ASSUME NEW outcome \in {"Confirmed", "OutcomeUnknown", "Err"}, Publish(outcome)
        PROVE  DeliveryInv'
    <2>1. CASE outcome = "Confirmed"
      <3>1. PICK k : k = call'
        OBVIOUS
      <3>2. IsCall(k) /\ k.error = NoError /\ k.uncertain = call.uncertain /\ k.pc = "acked"
        BY <1>1, <1>2, <1>3, <2>1, <3>1 DEF Publish, IsCall
      <3> QED
        BY <1>2, <3>1, <3>2 DEF DeliveryInv, Honest, Closed, Clean
    <2>2. CASE outcome # "Confirmed"
      <3>1. PICK error : /\ error \in {Unpublished("ResultPublicationUnknown"),
                                       Unpublished("ResultPublication")}
                         /\ Fail(call, error)
        BY <1>3, <2>2 DEF Publish
      <3>2. error.kind \in Unsure
        BY <3>1 DEF Unpublished, Error, NoError, Unsure
      <3>3. Honest(error, call.applied) /\ RetryClass(error) = "OutcomeUnknown"
        BY <3>2, UnsureHonest
      <3> QED
        BY <1>1, <1>2, <3>1, <3>3, FailStep
    <2> QED
      BY <2>1, <2>2
  <1>4. ASSUME NEW applied \in BOOLEAN, DeadlineElapses(applied)
        PROVE  DeliveryInv'
    <2>1. PICK c : c = [call EXCEPT !.applied = applied]
      OBVIOUS
    <2>2. IsCall(c)
      BY <1>1, <2>1 DEF IsCall
    <2>3. PICK error : error = Late(TRUE)
      OBVIOUS
    <2>4. Cancelled(c, error)
      BY <1>4, <2>1, <2>3 DEF DeadlineElapses
    <2>5. error.kind = "DeadlineExceeded" /\ error.started
      BY <2>3 DEF Late, Error, NoError
    <2>6. Honest(error, c.applied)
      BY <2>5, UnsureHonest
    <2> QED
      BY <2>2, <2>4, <2>6, CancelledStep
  <1>5. ASSUME NEW applied \in BOOLEAN, CancelTask(applied)
        PROVE  DeliveryInv'
    <2>1. PICK c : c = [call EXCEPT !.applied = @ \/ applied]
      OBVIOUS
    <2>2. IsCall(c)
      BY <1>1, <2>1 DEF IsCall
    <2>3. Cancelled(c, NoError)
      BY <1>5, <2>1 DEF CancelTask
    <2>4. Honest(NoError, c.applied)
      BY DEF Honest
    <2> QED
      BY <2>2, <2>3, <2>4, CancelledStep
  <1> QED
    BY <1>3, <1>4, <1>5

\* The steps that only move the delivery on.
LEMMA MovingSteps ==
    ASSUME DeliveryInv,
           \/ Build \/ Redeliver \/ Crash
           \/ \E w \in Wires : Send(w)
           \/ \E context \in Contexts : Select(context)
    PROVE  DeliveryInv'
  <1>1. PICK k : k = call'
    OBVIOUS
  <1>2. IsCall(call)
    BY DEF DeliveryInv
  <1>3. /\ IsCall(k) /\ k.error = call.error /\ k.applied = call.applied
        /\ k.uncertain = call.uncertain
    BY <1>1, <1>2 DEF IsCall, Build, Send, Select, Redeliver, Crash
  <1>4. k.pc \notin {"invoked", "publishing"} /\ call.pc \notin {"dead", "dropped"}
    BY <1>1, <1>2 DEF IsCall, Build, Send, Select, Redeliver, Crash
  <1> QED
    BY <1>1, <1>3, <1>4 DEF DeliveryInv, Closed, Clean

----------------------------------------------------------------------------
(* Negotiation.                                                             *)

\* A context that was accepted is the one on record, now and from now on.
LEMMA AcceptedIsStored ==
    ASSUME NEW record, NEW received, NEW external, NEW minimum,
           NEW accepted, accepted = Accept(record, received, external, minimum, TRUE),
           accepted # Refused
    PROVE  accepted = Stored(record, received, external, minimum) /\ accepted # NoContext
  <1>1. Candidate(received) # NoContext
    BY DEF Candidate, NoContext
  <1> QED
    BY <1>1 DEF Accept, Stored

LEMMA RecordIsKept ==
    ASSUME NEW record, record # NoContext, NEW received, NEW external, NEW minimum
    PROVE  Stored(record, received, external, minimum) = record
  BY DEF Stored

LEMMA ReceiveStep ==
    ASSUME NegotiationInv, NEW external, NEW received, NEW carries \in BOOLEAN,
           Receive(external, received, carries)
    PROVE  NegotiationInv'
  <1>1. PICK accepted : accepted = Accept(hops.record, received, external, Minimum, carries)
    OBVIOUS
  <1>2. PICK stored : stored = IF carries THEN Stored(hops.record, received, external, Minimum)
                               ELSE hops.record
    OBVIOUS
  <1>3. PICK h : h = hops'
    OBVIOUS
  <1>4. /\ h = [record |-> h.record, given |-> h.given, binding |-> h.binding,
                receptions |-> h.receptions]
        /\ h.record = stored /\ h.binding = hops.binding
        /\ h.given = IF accepted = Refused THEN hops.given ELSE hops.given \cup {accepted}
    BY <1>1, <1>2, <1>3 DEF Receive, NegotiationInv
  <1>5. hops.record # NoContext => stored = hops.record
    BY <1>2, RecordIsKept
  <1>6. accepted # Refused => accepted = stored /\ accepted # NoContext
    <2>1. CASE carries
      BY <1>1, <1>2, <2>1, AcceptedIsStored
    <2>2. CASE ~carries
      BY <1>1, <2>2 DEF Accept
    <2> QED
      BY <2>1, <2>2
  <1> QED
    BY <1>3, <1>4, <1>5, <1>6 DEF NegotiationInv

LEMMA UnconfirmedStep ==
    ASSUME NegotiationInv, ReceiveUnconfirmed
    PROVE  NegotiationInv'
  <1>1. PICK stored : stored = Stored(hops.record, wire.context, TRUE, Minimum)
    OBVIOUS
  <1>2. PICK h : h = hops'
    OBVIOUS
  <1>3. /\ h = [record |-> h.record, given |-> h.given, binding |-> h.binding,
                receptions |-> h.receptions]
        /\ h.record = stored /\ h.binding = hops.binding /\ h.given = hops.given
    BY <1>1, <1>2 DEF ReceiveUnconfirmed, NegotiationInv
  <1>4. hops.record # NoContext => stored = hops.record
    BY <1>1, RecordIsKept
  <1> QED
    BY <1>2, <1>3, <1>4 DEF NegotiationInv

LEMMA SelectStep ==
    ASSUME NegotiationInv, NEW context, Select(context)
    PROVE  NegotiationInv'
  <1>1. PICK binding : binding = SelectDestination(context, DestinationVersion(Identity(wire)))
    OBVIOUS
  <1>2. PICK h : h = hops'
    OBVIOUS
  <1>3. /\ h = [record |-> h.record, given |-> h.given, binding |-> h.binding,
                receptions |-> h.receptions]
        /\ h.record = hops.record /\ h.binding = binding /\ h.given = hops.given
    BY <1>1, <1>2 DEF Select, NegotiationInv
  <1>4. binding = "V1" => context.requires = "V1" \/ context.downgrade
    BY <1>1 DEF SelectDestination
  <1>5. context = hops.record /\ hops.record # NoContext
    BY DEF Select, NegotiationInv
  <1> QED
    BY <1>2, <1>3, <1>4, <1>5 DEF NegotiationInv
----------------------------------------------------------------------------
(* Registration.                                                            *)

\* The side effects are ranked.
LEMMA RankInRange ==
    ASSUME NEW effect \in {"None", "Local", "Remote"}
    PROVE  Rank(effect) \in 1..3
  <1>1. /\ DOMAIN SideEffects = 1..3
        /\ SideEffects[1] = "None" /\ SideEffects[2] = "Local" /\ SideEffects[3] = "Remote"
    BY DEF SideEffects
  <1>2. \E r \in 1..3 : SideEffects[r] = effect
    BY <1>1
  <1> QED
    BY <1>1, <1>2 DEF Rank

\* An operation that was converted keeps its limits, and no surface has a milder effect.
LEMMA ConvertedOperation ==
    ASSUME NEW op, OperationVerdict(op) = Ok, op.effect \in Range(SideEffects)
    PROVE  /\ ValidAttributes(op.attributes)
           /\ \A s \in Range(op.surfaces) : Rank(SurfaceSideEffect(op, s)) >= Rank(op.effect)
  <1> DEFINE checks == <<
        <<~IsName(op.name) \/ ~IsVersion(op.version), "InvalidOperation">>,
        <<Len(op.surfaces) \notin 1..4 \/ ~Distinct(op.surfaces), "InvalidOperation">>,
        <<op.reason \in {"", "oversized"}, "InvalidOperation">>,
        <<op.status = "Unavailable" /\ op.reason = Absent, "InvalidOperation">>,
        <<~ValidAttributes(op.attributes), "InvalidAttributes">>,
        <<~ValidOverrides(op), "InvalidOperation">>,
        <<~ValidPayload(op.input) \/ ~ValidPayload(op.output), "InvalidOperation">>>>
  <1>1. FirstFailure(checks) = Ok
    BY DEF OperationVerdict
  <1>2. DOMAIN checks = 1..7
    OBVIOUS
  <1>3. /\ checks[1][2] = "InvalidOperation" /\ checks[2][2] = "InvalidOperation"
        /\ checks[3][2] = "InvalidOperation" /\ checks[4][2] = "InvalidOperation"
        /\ checks[5][2] = "InvalidAttributes" /\ checks[6][2] = "InvalidOperation"
        /\ checks[7][2] = "InvalidOperation"
    OBVIOUS
  <1>4. /\ checks[5][1] = ~ValidAttributes(op.attributes)
        /\ checks[6][1] = ~ValidOverrides(op)
    OBVIOUS
  <1> HIDE DEF checks
  <1>5. ~checks[5][1] /\ ~checks[6][1]
    <2>1. PICK seq : seq = checks
      OBVIOUS
    <2>2. 7 \in Nat /\ \A i \in {1, 2, 3, 4, 5, 6, 7} : seq[i][2] # Ok
      BY <1>3, <2>1 DEF Ok
    <2>3. \A i \in 1..7 : seq[i][2] # Ok
      BY <2>2
    <2>4. \A i \in 1..7 : ~seq[i][1]
      BY <1>1, <1>2, <2>1, <2>2, <2>3, NothingFailed
    <2> QED
      BY <2>1, <2>4
  <1>6. ValidAttributes(op.attributes) /\ ValidOverrides(op)
    BY <1>4, <1>5
  <1>7. op.effect \in {"None", "Local", "Remote"}
    BY DEF Range, SideEffects
  <1>8. ASSUME NEW s \in Range(op.surfaces)
        PROVE  Rank(SurfaceSideEffect(op, s)) >= Rank(op.effect)
    <2>1. CASE s \in DOMAIN op.overrides
      <3>1. PICK effect : effect = op.overrides[s]
        OBVIOUS
      <3>2. effect \in {"None", "Local", "Remote"} /\ Rank(effect) > Rank(op.effect)
        BY <1>6, <2>1, <3>1 DEF ValidOverrides
      <3>3. Rank(effect) \in 1..3 /\ Rank(op.effect) \in 1..3
        BY <1>7, <3>2, RankInRange
      <3>4. SurfaceSideEffect(op, s) = effect
        BY <2>1, <3>1 DEF SurfaceSideEffect
      <3> QED
        BY <3>2, <3>3, <3>4
    <2>2. CASE s \notin DOMAIN op.overrides
      <3>1. SurfaceSideEffect(op, s) = op.effect
        BY <2>2 DEF SurfaceSideEffect
      <3>2. Rank(op.effect) \in 1..3
        BY <1>7, RankInRange
      <3> QED
        BY <3>1, <3>2
    <2> QED
      BY <2>1, <2>2
  <1> QED
    BY <1>6, <1>8

\* The loop over the operations stops at one that is not well, or that has the name and
\* version of an earlier one.
LEMMA ConvertedOperations ==
    ASSUME NEW ops, ops \in Seq(Range(ops)), OperationsVerdict(ops) = Ok
    PROVE  /\ \A i \in DOMAIN ops : OperationVerdict(ops[i]) = Ok
           /\ Cardinality({Key(op) : op \in Range(ops)}) = Len(ops)
  <1>1. PICK n \in Nat : n = Len(ops) /\ DOMAIN ops = 1..n
    OBVIOUS
  <1> DEFINE both(i) == <<OperationVerdict(ops[i]),
                          IF \E j \in 1..(i - 1) : Key(ops[j]) = Key(ops[i])
                          THEN "DuplicateOperation" ELSE Ok>>
             verdicts == [i \in DOMAIN ops |-> FirstVerdict(both(i))]
  <1>2. FirstVerdict(verdicts) = Ok
    BY DEF OperationsVerdict
  <1>3. \A i \in 1..n : verdicts[i] = Ok
    <2>1. PICK seq : seq = verdicts
      OBVIOUS
    <2>2. DOMAIN seq = 1..n /\ FirstVerdict(seq) = Ok
      BY <1>1, <1>2, <2>1
    <2>3. \A i \in 1..n : seq[i] = Ok
      BY <2>2, AllWell
    <2> QED
      BY <2>1, <2>3
  <1>4. ASSUME NEW i \in 1..n
        PROVE  OperationVerdict(ops[i]) = Ok /\ ~\E j \in 1..(i - 1) : Key(ops[j]) = Key(ops[i])
    <2>1. PICK pair : pair = both(i)
      OBVIOUS
    <2>2. FirstVerdict(pair) = Ok
      BY <1>1, <1>3, <2>1
    <2>3. 2 \in Nat /\ DOMAIN pair = 1..2
      BY <2>1
    <2>4. \A j \in 1..2 : pair[j] = Ok
      BY <2>2, <2>3, AllWell
    <2>5. pair[1] = Ok /\ pair[2] = Ok
      BY <2>4
    <2> QED
      BY <2>1, <2>5 DEF Ok
  <1>5. \A i, j \in 1..n : Key(ops[i]) = Key(ops[j]) => i = j
    <2> SUFFICES ASSUME NEW i \in 1..n, NEW j \in 1..n, Key(ops[i]) = Key(ops[j])
                 PROVE  i = j
      OBVIOUS
    <2>1. j \notin 1..(i - 1) /\ i \notin 1..(j - 1)
      BY <1>4
    <2> QED
      BY <2>1
  <1> HIDE DEF verdicts, both
  <1>6. Cardinality({Key(op) : op \in Range(ops)}) = n
    <2> DEFINE keys == {Key(op) : op \in Range(ops)}
               f == [i \in 1..n |-> Key(ops[i])]
    <2>1. f \in [1..n -> keys] /\ \A key \in keys : \E i \in 1..n : f[i] = key
      BY <1>1 DEF Range
    <2>2. f \in Surjection(1..n, keys)
      BY <2>1 DEF Surjection
    <2>3. f \in Injection(1..n, keys)
      BY <1>5, <2>1 DEF Injection, IsInjective
    <2>4. IsFiniteSet(1..n) /\ Cardinality(1..n) = n
      <3>1. 1 \in Int /\ n \in Int
        OBVIOUS
      <3>2. IsFiniteSet(1..n) /\ Cardinality(1..n) = IF 1 > n THEN 0 ELSE n - 1 + 1
        BY <3>1, FS_Interval
      <3> QED
        BY <3>2
    <2> HIDE DEF f, keys
    <2>5. Cardinality(keys) = Cardinality(1..n)
      BY <2>2, <2>3, <2>4, FS_Surjection
    <2> QED
      BY <2>4, <2>5 DEF keys
  <1> QED
    BY <1>1, <1>4, <1>6

\* A document that names a capability has one runtime interface.
LEMMA OneRuntimeInterface ==
    ASSUME NEW doc, RuntimeVerdict(doc) = Ok
    PROVE  Cardinality(RuntimeInterfaces(doc)) = 1
  <1> DEFINE runtime == RuntimeInterfaces(doc)
             interface == RuntimeInterface(doc)
             checks == <<
            <<\E i, j \in runtime : i # j, "DuplicateRuntimeInterface">>,
            <<<<interface.contract, interface.version>> \notin SupportedBindings,
              "UnsupportedRuntimeBinding">>,
            <<interface.artifact = Absent, "MissingRuntimeArtifact">>,
            <<~IsName(interface.artifact), "InvalidRuntimeCapability">>>>
  <1>1. runtime # {} /\ FirstFailure(checks) = Ok
    BY DEF RuntimeVerdict, Ok
  <1>2. DOMAIN checks = 1..4
    OBVIOUS
  <1>3. /\ checks[1][2] = "DuplicateRuntimeInterface" /\ checks[2][2] = "UnsupportedRuntimeBinding"
        /\ checks[3][2] = "MissingRuntimeArtifact" /\ checks[4][2] = "InvalidRuntimeCapability"
    OBVIOUS
  <1>4. checks[1][1] = \E i, j \in runtime : i # j
    OBVIOUS
  <1> HIDE DEF checks, runtime
  <1>5. ~checks[1][1]
    <2>1. PICK seq : seq = checks
      OBVIOUS
    <2>2. 4 \in Nat /\ \A i \in {1, 2, 3, 4} : seq[i][2] # Ok
      BY <1>3, <2>1 DEF Ok
    <2>3. \A i \in 1..4 : seq[i][2] # Ok
      BY <2>2
    <2>4. \A i \in 1..4 : ~seq[i][1]
      BY <1>1, <1>2, <2>1, <2>2, <2>3, NothingFailed
    <2> QED
      BY <2>1, <2>4
  <1>6. PICK i : runtime = {i}
    BY <1>1, <1>4, <1>5
  <1> QED
    BY <1>6, FS_Singleton DEF runtime

\* Three validations one after the other.
LEMMA ThreeWell ==
    ASSUME NEW a, NEW b, NEW c, FirstVerdict(<<a, b, c>>) = Ok
    PROVE  a = Ok /\ b = Ok /\ c = Ok
  <1>1. PICK seq : seq = <<a, b, c>>
    OBVIOUS
  <1>2. 3 \in Nat /\ DOMAIN seq = 1..3 /\ seq[1] = a /\ seq[2] = b /\ seq[3] = c
    BY <1>1
  <1>3. FirstVerdict(seq) = Ok
    BY <1>1
  <1>4. \A i \in 1..3 : seq[i] = Ok
    BY <1>2, <1>3, AllWell
  <1> QED
    BY <1>2, <1>4

\* What from_json and runtime_capability accept can be relied upon.
LEMMA AcceptedIsReliable ==
    ASSUME NEW doc \in Documents, FromJson(doc) = Ok, RuntimeVerdict(doc) = Ok
    PROVE  Reliable(doc)
  <1>1. UniqueJson(doc.json) = Ok /\ TryFromRaw(doc) = Ok
    <2>1. PICK a, b, c : /\ a = (IF doc.bytes > MaxDocumentBytes THEN "DocumentTooLarge" ELSE Ok)
                         /\ b = UniqueJson(doc.json) /\ c = TryFromRaw(doc)
      OBVIOUS
    <2>2. FirstVerdict(<<a, b, c>>) = Ok
      BY <2>1 DEF FromJson
    <2> QED
      BY <2>1, <2>2, ThreeWell
  <1>2. OperationsVerdict(doc.operations) = Ok
    <2>1. \E a, b : FirstVerdict(<<a, b, OperationsVerdict(doc.operations)>>) = Ok
      BY <1>1 DEF TryFromRaw
    <2>2. PICK a, b, c : c = OperationsVerdict(doc.operations) /\ FirstVerdict(<<a, b, c>>) = Ok
      BY <2>1
    <2> QED
      BY <2>2, ThreeWell
  <1>3. PICK ops : ops = doc.operations
    OBVIOUS
  <1>4. /\ ops \in Seq(Range(ops))
        /\ \A op \in Range(ops) : /\ op.effect \in Range(SideEffects)
                                  /\ ValidAttributes(op.attributes) => WithinLimits(op.attributes)
    BY <1>3, DocumentsAssumption
  <1>5. /\ \A i \in DOMAIN ops : OperationVerdict(ops[i]) = Ok
        /\ Cardinality({Key(op) : op \in Range(ops)}) = Len(ops)
    BY <1>2, <1>3, <1>4, ConvertedOperations
  <1>6. ASSUME NEW op \in Range(ops)
        PROVE  /\ WithinLimits(op.attributes)
               /\ \A s \in Range(op.surfaces) : Rank(SurfaceSideEffect(op, s)) >= Rank(op.effect)
    <2>1. OperationVerdict(op) = Ok
      BY <1>5 DEF Range
    <2> QED
      BY <1>4, <2>1, ConvertedOperation
  <1>7. Unambiguous(doc.json) /\ Cardinality(RuntimeInterfaces(doc)) = 1
    BY <1>1, DocumentsAssumption, OneRuntimeInterface
  <1> QED
    BY <1>3, <1>5, <1>6, <1>7 DEF Reliable

\* An operation of the profile is there, and as the profile wants it.
LEMMA ProfiledOperation ==
    ASSUME NEW doc \in Documents, NEW name, RestOperationVerdict(doc, name) = Ok
    PROVE  \E op \in Operation(doc, name, 1) :
               /\ op.status = "Available" /\ "Runtime" \in Range(op.surfaces)
               /\ op.controls = [cancellation |-> TRUE, deadline |-> TRUE, key |-> TRUE]
  <1> DEFINE op == CHOOSE o \in Operation(doc, name, 1) : TRUE
             checks == <<
            <<op.status # "Available", "OperationUnavailable">>,
            <<"Runtime" \notin Range(op.surfaces), "RuntimeSurfaceMissing">>,
            <<op.input.contract # ExpectedInput(name) \/ op.output.contract # ExpectedOutput(name),
              "PayloadContractMismatch">>,
            <<op.input.types # JsonOnly \/ op.output.types # JsonOnly, "EnvelopeContentTypeMismatch">>,
            <<op.effect # "Remote", "SideEffectMismatch">>,
            <<~op.controls.cancellation \/ ~op.controls.deadline \/ ~op.controls.key,
              "ControlsMismatch">>,
            <<op.labels.contract # "rest-attributes", "AttributesContractMismatch">>,
            <<Direction(name) # Absent /\ (\/ op.labels.direction # Direction(name)
                                           \/ op.labels.integrity # "sha256"),
              "TransferAttributesMismatch">>>>
  <1>1. Operation(doc, name, 1) # {} /\ FirstFailure(checks) = Ok
    BY DEF RestOperationVerdict, Ok
  <1>2. op \in Operation(doc, name, 1)
    BY <1>1
  <1> HIDE DEF op
  <1>3. DOMAIN checks = 1..8
    OBVIOUS
  <1>4. /\ checks[1][2] = "OperationUnavailable" /\ checks[2][2] = "RuntimeSurfaceMissing"
        /\ checks[3][2] = "PayloadContractMismatch" /\ checks[4][2] = "EnvelopeContentTypeMismatch"
        /\ checks[5][2] = "SideEffectMismatch" /\ checks[6][2] = "ControlsMismatch"
        /\ checks[7][2] = "AttributesContractMismatch" /\ checks[8][2] = "TransferAttributesMismatch"
    OBVIOUS
  <1>5. /\ checks[1][1] = (op.status # "Available")
        /\ checks[2][1] = ("Runtime" \notin Range(op.surfaces))
        /\ checks[6][1] = (~op.controls.cancellation \/ ~op.controls.deadline \/ ~op.controls.key)
    OBVIOUS
  <1> HIDE DEF checks
  <1>6. ~checks[1][1] /\ ~checks[2][1] /\ ~checks[6][1]
    <2>1. PICK seq : seq = checks
      OBVIOUS
    <2>2. 8 \in Nat /\ \A i \in {1, 2, 3, 4, 5, 6, 7, 8} : seq[i][2] # Ok
      BY <1>4, <2>1 DEF Ok
    <2>3. \A i \in 1..8 : seq[i][2] # Ok
      BY <2>2
    <2>4. \A i \in 1..8 : ~seq[i][1]
      BY <1>1, <1>3, <2>1, <2>2, <2>3, NothingFailed
    <2> QED
      BY <2>1, <2>4
  <1>7. op \in Range(doc.operations)
    BY <1>2 DEF Operation, Range
  <1>8. op.controls \in [cancellation : BOOLEAN, deadline : BOOLEAN, key : BOOLEAN]
    BY <1>7, DocumentsAssumption
  <1>9. op.controls = [cancellation |-> TRUE, deadline |-> TRUE, key |-> TRUE]
    BY <1>5, <1>6, <1>8
  <1> QED
    BY <1>5, <1>6, <1>2, <1>9

\* What the profile accepts has all of its operations.
LEMMA AcceptedIsProfiled ==
    ASSUME NEW doc \in Documents, RestVerdict(doc) = Ok
    PROVE  Profiled(doc)
  <1> DEFINE verdicts == [i \in DOMAIN ExpectedOperations |->
                            RestOperationVerdict(doc, ExpectedOperations[i])]
  <1>1. FirstVerdict(verdicts) = Ok
    <2>1. \E a, b : FirstVerdict(<<a, b, FirstVerdict(verdicts)>>) = Ok
      BY DEF RestVerdict
    <2>2. PICK a, b, c : c = FirstVerdict(verdicts) /\ FirstVerdict(<<a, b, c>>) = Ok
      BY <2>1
    <2> QED
      BY <2>2, ThreeWell
  <1>2. DOMAIN ExpectedOperations = 1..5
    BY DEF ExpectedOperations
  <1>3. \A i \in 1..5 : verdicts[i] = Ok
    <2>1. PICK seq : seq = verdicts
      OBVIOUS
    <2>2. 5 \in Nat /\ DOMAIN seq = 1..5 /\ FirstVerdict(seq) = Ok
      BY <1>1, <1>2, <2>1
    <2>3. \A i \in 1..5 : seq[i] = Ok
      BY <2>2, AllWell
    <2> QED
      BY <2>1, <2>3
  <1>4. \A i \in DOMAIN ExpectedOperations : RestOperationVerdict(doc, ExpectedOperations[i]) = Ok
    BY <1>2, <1>3
  <1>5. \A name \in Range(ExpectedOperations) : RestOperationVerdict(doc, name) = Ok
    BY <1>4 DEF Range
  <1> QED
    BY <1>5, ProfiledOperation DEF Profiled

\* Insertion, within the capacity, of an entry that is sound.
LEMMA InsertStep ==
    ASSUME RegistryInv, NEW id, NEW entry, InsertVerdict(id) = Ok, Insert(id, entry),
           SoundEntry(id, entry)
    PROVE  RegistryInv'
  <1>1. id \notin Registered /\ ~(Cardinality(Registered) >= MaxCapabilities)
    <2> DEFINE checks == <<<<id \in Registered, "Duplicate">>,
                           <<Cardinality(Registered) >= MaxCapabilities, "CapacityReached">>>>
    <2>1. FirstFailure(checks) = Ok /\ DOMAIN checks = 1..2
      BY DEF InsertVerdict
    <2>2. /\ checks[1][2] = "Duplicate" /\ checks[2][2] = "CapacityReached"
          /\ checks[1][1] = (id \in Registered)
          /\ checks[2][1] = (Cardinality(Registered) >= MaxCapabilities)
      OBVIOUS
    <2> HIDE DEF checks
    <2>3. PICK seq : seq = checks
      OBVIOUS
    <2>4. 2 \in Nat /\ \A i \in 1..2 : seq[i][2] # Ok
      BY <2>2, <2>3 DEF Ok
    <2>5. \A i \in 1..2 : ~seq[i][1]
      BY <2>1, <2>3, <2>4, NothingFailed
    <2>6. ~seq[1][1] /\ ~seq[2][1]
      BY <2>5
    <2> QED
      BY <2>2, <2>3, <2>6
  <1>2. PICK before, after : before = Registered /\ after = Registered'
    OBVIOUS
  <1>3. after = before \cup {id}
    BY <1>2 DEF Insert, Registered
  <1>4. /\ IsFiniteSet(after) /\ Cardinality(after) = Cardinality(before) + 1
        /\ Cardinality(before) \in Nat
    BY <1>1, <1>2, <1>3, FS_AddElement, FS_CardinalityType DEF RegistryInv
  <1>5. Cardinality(after) <= MaxCapabilities
    BY <1>1, <1>2, <1>4, CapabilitiesAssumption
  <1>6. ASSUME NEW i \in after PROVE SoundEntry(i, registry.entries[i])'
    <2>1. PICK e : e = registry'.entries[i]
      OBVIOUS
    <2>2. e = IF i = id THEN entry ELSE registry.entries[i]
      BY <1>2, <1>3, <1>6, <2>1 DEF Insert
    <2>3. SoundEntry(i, e)
      BY <1>2, <1>3, <1>6, <2>2 DEF RegistryInv
    <2> QED
      BY <2>1, <2>3
  <1> QED
    BY <1>2, <1>4, <1>5, <1>6 DEF RegistryInv

\* A registration with a document or without one.
LEMMA RegisterSteps ==
    ASSUME RegistryInv,
           \/ \E id \in Undiscovered : Register(id)
           \/ \E doc \in Documents : RegisterDiscovered(doc)
    PROVE  RegistryInv'
  <1>1. ASSUME NEW id \in Undiscovered, Register(id) PROVE RegistryInv'
    <2>1. PICK entry : entry = [discovered |-> FALSE, doc |-> NoDocument]
      OBVIOUS
    <2>2. InsertVerdict(id) = Ok /\ Insert(id, entry) /\ id.name # RestCapability
      BY <1>1, <2>1 DEF Register
    <2>3. SoundEntry(id, entry)
      BY <2>1, <2>2 DEF SoundEntry
    <2> QED
      BY <2>2, <2>3, InsertStep
  <1>2. ASSUME NEW doc \in Documents, RegisterDiscovered(doc) PROVE RegistryInv'
    <2>1. PICK id, entry : id = RuntimeCapability(doc) /\ entry = [discovered |-> TRUE, doc |-> doc]
      OBVIOUS
    <2>2. InsertVerdict(id) = Ok /\ Insert(id, entry) /\ RegisterVerdict(doc) = Ok
      BY <1>2, <2>1 DEF RegisterDiscovered
    <2>3. /\ FromJson(doc) = Ok /\ RuntimeVerdict(doc) = Ok
          /\ id.name = RestCapability => RestVerdict(doc) = Ok
      BY <2>1, <2>2 DEF RegisterVerdict, MustImplementRest
    <2>4. Reliable(doc) /\ (id.name = RestCapability => Profiled(doc))
      BY <2>3, AcceptedIsReliable, AcceptedIsProfiled
    <2>5. SoundEntry(id, entry)
      BY <2>1, <2>4 DEF SoundEntry
    <2> QED
      BY <2>2, <2>5, InsertStep
  <1> QED
    BY <1>1, <1>2

----------------------------------------------------------------------------
(* The invariant, and what it says.                                         *)

LEMMA CapabilitiesInvInit == Init => IInv
  <1> SUFFICES ASSUME Init PROVE IInv
    OBVIOUS
  <1>1. RegistryInv
    <2>1. Registered = {}
      BY DEF Init, Registered
    <2> QED
      BY <2>1, FS_EmptySet, CapabilitiesAssumption DEF RegistryInv
  <1>2. NegotiationInv
    <2>1. PICK h : h = hops
      OBVIOUS
    <2>2. h = [record |-> NoContext, given |-> {}, binding |-> "none", receptions |-> 0]
      BY <2>1 DEF Init
    <2> QED
      BY <2>1, <2>2 DEF NegotiationInv
  <1>3. DeliveryInv
    <2>1. PICK k : k = call
      OBVIOUS
    <2>2. IsCall(k) /\ k.error = NoError /\ k.uncertain = FALSE
      BY <2>1 DEF Init, Fresh, IsCall
    <2> QED
      BY <2>1, <2>2 DEF DeliveryInv, Honest, Closed, Clean
  <1> QED
    BY <1>1, <1>2, <1>3 DEF IInv

\* Each part of the invariant depends on a variable of its own.
LEMMA CapabilitiesFrames ==
    /\ RegistryInv /\ UNCHANGED registry => RegistryInv'
    /\ NegotiationInv /\ UNCHANGED hops => NegotiationInv'
    /\ DeliveryInv /\ UNCHANGED call => DeliveryInv'
  <1>1. RegistryInv /\ UNCHANGED registry => RegistryInv'
    BY DEF RegistryInv, Registered
  <1>2. NegotiationInv /\ UNCHANGED hops => NegotiationInv'
    BY DEF NegotiationInv
  <1>3. DeliveryInv /\ UNCHANGED call => DeliveryInv'
    BY DEF DeliveryInv
  <1> QED
    BY <1>1, <1>2, <1>3

LEMMA CapabilitiesInvNext == IInv /\ [Next]_vars => IInv'
  <1> SUFFICES ASSUME IInv, [Next]_vars PROVE IInv'
    OBVIOUS
  <1>1. RegistryInv /\ NegotiationInv /\ DeliveryInv
    BY DEF IInv
  <1>2. CASE \/ \E id \in Undiscovered : Register(id)
             \/ \E doc \in Documents : RegisterDiscovered(doc)
    <2>1. UNCHANGED <<hops, call>>
      BY <1>2 DEF Register, RegisterDiscovered
    <2> QED
      BY <1>1, <1>2, <2>1, RegisterSteps, CapabilitiesFrames DEF IInv
  <1>3. CASE Build \/ Redeliver \/ Crash \/ \E w \in Wires : Send(w)
    <2>1. UNCHANGED <<registry, hops>>
      BY <1>3 DEF Build, Redeliver, Crash, Send
    <2> QED
      BY <1>1, <1>3, <2>1, MovingSteps, CapabilitiesFrames DEF IInv
  <1>4. ASSUME NEW external \in BOOLEAN, NEW carries \in BOOLEAN,
               NEW received \in Contexts \cup {NoContext}, Receive(external, received, carries)
        PROVE  IInv'
    <2>1. UNCHANGED <<registry, call>>
      BY <1>4 DEF Receive
    <2> QED
      BY <1>1, <1>4, <2>1, ReceiveStep, CapabilitiesFrames DEF IInv
  <1>5. CASE ReceiveUnconfirmed
    <2>1. UNCHANGED <<registry, call>>
      BY <1>5 DEF ReceiveUnconfirmed
    <2> QED
      BY <1>1, <1>5, <2>1, UnconfirmedStep, CapabilitiesFrames DEF IInv
  <1>6. ASSUME NEW context \in Contexts, Select(context) PROVE IInv'
    <2>1. UNCHANGED registry
      BY <1>6 DEF Select
    <2>2. NegotiationInv'
      BY <1>1, <1>6, SelectStep
    <2>3. DeliveryInv'
      BY <1>1, <1>6, MovingSteps
    <2> QED
      BY <1>1, <2>1, <2>2, <2>3, CapabilitiesFrames DEF IInv
  <1>7. CASE RejectUndecodable \/ Refuse \/ Invoke
    <2>1. UNCHANGED <<registry, hops>>
      BY <1>7 DEF RejectUndecodable, Refuse, Invoke
    <2> QED
      BY <1>1, <1>7, <2>1, QueuedSteps, CapabilitiesFrames DEF IInv
  <1>8. ASSUME NEW a \in Answers, AdapterFails(a) \/ AdapterAnswers(a) PROVE IInv'
    <2>1. UNCHANGED <<registry, hops>>
      BY <1>8 DEF AdapterFails, AdapterAnswers
    <2> QED
      BY <1>1, <1>8, <2>1, AdapterSteps, CapabilitiesFrames DEF IInv
  <1>9. CASE \/ \E outcome \in {"Confirmed", "OutcomeUnknown", "Err"} : Publish(outcome)
             \/ \E applied \in BOOLEAN : DeadlineElapses(applied)
             \/ \E applied \in BOOLEAN : CancelTask(applied)
    <2>1. UNCHANGED <<registry, hops>>
      BY <1>9 DEF Publish, DeadlineElapses, CancelTask
    <2> QED
      BY <1>1, <1>9, <2>1, EndingSteps, CapabilitiesFrames DEF IInv
  <1>10. CASE Tick \/ UNCHANGED vars
    <2>1. UNCHANGED <<registry, hops, call>>
      BY <1>10 DEF Tick, vars
    <2> QED
      BY <1>1, <2>1, CapabilitiesFrames DEF IInv
  <1> QED
    BY <1>2, <1>3, <1>4, <1>5, <1>6, <1>7, <1>8, <1>9, <1>10 DEF Next, WorkerStep

\* The invariant of the registry, of negotiation and of the delivery at the worker
\* holds throughout.
THEOREM CapabilitiesInvariant == Spec => []IInv
  BY CapabilitiesInvInit, CapabilitiesInvNext, PTL DEF Spec

\* For any documents: what is registered can be relied upon, and nothing but a component
\* that implements the profile is registered under the REST name.
THEOREM CapabilitiesRegistry == Spec => []RegistrySound
  <1>1. IInv => RegistrySound
    <2> SUFFICES ASSUME RegistryInv PROVE RegistrySound
      BY DEF IInv
    <2>1. Cardinality(Registered) <= MaxCapabilities
      BY DEF RegistryInv
    <2>2. \A id \in Registered : SoundEntry(id, registry.entries[id])
      BY DEF RegistryInv
    <2>3. \A id \in Registered : registry.entries[id].discovered => Reliable(registry.entries[id].doc)
      BY <2>2 DEF SoundEntry
    <2>4. \A id \in Registered : id.name = RestCapability =>
              registry.entries[id].discovered /\ Profiled(registry.entries[id].doc)
      BY <2>2 DEF SoundEntry
    <2> QED
      BY <2>1, <2>3, <2>4 DEF RegistrySound, Reliable, Profiled
  <1> QED
    BY <1>1, CapabilitiesInvariant, PTL

\* Whatever the hops receive, in any number and any order: binding 1.0 is spoken only
\* with the consent of the context on record.
THEOREM CapabilitiesConsent == Spec => []ConsentKept
  <1>1. IInv => ConsentKept
    BY DEF IInv, NegotiationInv, ConsentKept
  <1> QED
    BY <1>1, CapabilitiesInvariant, PTL

\* Whatever the adapter and the sink answer: the public error of a dispatch error is one
\* that its constructor accepts, and denies an effect only if there was none.
THEOREM CapabilitiesPublicError == Spec => []PublicErrorHonest
  <1>1. IInv => PublicErrorHonest
    BY DEF IInv, DeliveryInv, Honest, PublicErrorHonest
  <1> QED
    BY <1>1, CapabilitiesInvariant, PTL

\* For any retry configuration that does not opt in: after an attempt whose outcome is
\* unknown, the message is neither waiting, nor queued, nor with the adapter.
THEOREM CapabilitiesNoBlindRepeat == Spec => []NoBlindRepeat
  <1>1. IInv => NoBlindRepeat
    BY DEF IInv, DeliveryInv, Closed, NoBlindRepeat
  <1> QED
    BY <1>1, CapabilitiesInvariant, PTL
=============================================================================
