---------------------------- MODULE OutboxProofs ----------------------------
(***************************************************************************)
(* Safety of the outbox for every number of entries, relays, failures and  *)
(* dropped runs, every batch size and every relay policy.                  *)
(***************************************************************************)
EXTENDS Outbox, FiniteSetTheorems, NaturalsInduction, WellFoundedInduction, TLAPS

\* What the fields of a run say together: an entry is at hand exactly between
\* its publication and its marking, it is no longer among those to do, and the
\* result is decided when the batch is left.
Shaped(k) ==
    /\ k.current = 0 <=> k.pc \in {"idle", "next", "release"}
    /\ k.pc = "idle" => k.todo = {}
    /\ k.current \notin k.todo
    /\ k.pc \in {"next", "confirmed", "unknown", "erred"} => k.result = "None"

Shapes == \A r \in Relays : Shaped(relay[r])

\* An entry the broker has not been given since it was last made available.
Fresh(e) ==
    \/ entry[e] \in {"Absent", "Pending"}
    \/ \E r \in Relays : \/ e \in relay[r].todo
                         \/ relay[r].pc = "erred" /\ relay[r].current = e

\* The broker was given an entry once for each time it was made available.
Spent ==
    OutcomeUnknown # "Retry" =>
        \A e \in Entries :
            /\ applied[e] <= 1 + recovered[e]
            /\ Fresh(e) => applied[e] <= recovered[e]

\* What is, or is about to be, marked published was taken by the broker.
Taken ==
    /\ \A e \in Entries : entry[e] = "Published" => applied[e] >= 1
    /\ \A r \in Relays : relay[r].pc = "confirmed" => applied[relay[r].current] >= 1

IInv == TypeOK /\ Shapes /\ ClaimsExclusive /\ StrandedForCause /\ Spent /\ Taken

----------------------------------------------------------------------------
(* Operators.                                                               *)

\* A nonempty set of entries has a first one.
LEMMA FirstIn ==
    ASSUME NEW S \in SUBSET Entries, S # {}
    PROVE  First(S) \in S
  <1> DEFINE R == {ss \in Nat \X Nat : ss[1] < ss[2]}
  <1>1. IsWellFoundedOn(R, Nat)
    BY NatLessThanWellFounded, Zenon DEF OpToRel
  <1>2. S \subseteq Nat
    BY BoundsAssumption DEF Entries
  <1> HIDE DEF R
  <1>3. PICK m \in S : \A k \in S : ~(<<k, m>> \in R)
    BY <1>1, <1>2, WFMin
  <1>4. \A k \in S : ~(k < m)
    BY <1>2, <1>3 DEF R
  <1>5. \A k \in S : m <= k
    BY <1>2, <1>4
  <1> QED
    BY <1>3, <1>5 DEF First

\* A run answers for what it has to do and for the entry at hand.
LEMMA HeldShaped ==
    ASSUME NEW k \in Relay, Shaped(k)
    PROVE  Held(k) = k.todo \cup ({k.current} \ {0})
  BY DEF Held, Shaped, Relay

\* Only the disposition Retry makes an entry pending again.
LEMMA FailedStates ==
    ASSUME NEW d \in {"Retry", "Reconcile", "Terminal"}
    PROVE  /\ FailedState(d) \in {"Pending", "AwaitingReconciliation", "Failed"}
           /\ FailedState(d) = "Pending" => d = "Retry"
  BY DEF FailedState

\* Recording a disposition changes only a count of the report.
LEMMA RecordedFrame ==
    ASSUME NEW k \in Relay, NEW d \in {"Retry", "Reconcile", "Terminal"}
    PROVE  /\ Recorded(k, d) \in Relay
           /\ Recorded(k, d).pc = k.pc /\ Recorded(k, d).todo = k.todo
           /\ Recorded(k, d).current = k.current /\ Recorded(k, d).result = k.result
           /\ Recorded(k, d).claimed = k.claimed
  <1>1. CASE d = "Retry"
    BY <1>1 DEF Recorded, Relay
  <1>2. CASE d = "Reconcile"
    BY <1>2 DEF Recorded, Relay
  <1>3. CASE d = "Terminal"
    BY <1>3 DEF Recorded, Relay
  <1> QED
    BY <1>1, <1>2, <1>3

\* current is 0 when no entry is at hand.
LEMMA NoEntry == 0 \in 0..MaxEntries
  BY BoundsAssumption

\* A run goes on with its batch.
LEMMA RunGoesOn ==
    ASSUME NEW k \in Relay, NEW g, g = [k EXCEPT !.pc = "next", !.current = 0]
    PROVE  /\ g \in Relay /\ g.pc = "next" /\ g.current = 0
           /\ g.todo = k.todo /\ g.result = k.result
  <1>1. [k EXCEPT !.pc = "next", !.current = 0] \in Relay
    BY NoEntry DEF Relay
  <1>2. g.pc = "next" /\ g.current = 0 /\ g.todo = k.todo /\ g.result = k.result
    BY DEF Relay
  <1> QED
    BY <1>1, <1>2

\* A run leaves its batch.
LEMMA RunLeaves ==
    ASSUME NEW k \in Relay, NEW result \in {"Store", "Publish", "PublishAndStore"},
           NEW g, g = Leave(k, result)
    PROVE  /\ g \in Relay /\ g.pc = "release" /\ g.current = 0
           /\ g.todo = k.todo /\ g.result = result
  <1>1. Leave(k, result) \in Relay
    BY NoEntry DEF Relay, Leave
  <1>2. g.pc = "release" /\ g.current = 0 /\ g.todo = k.todo /\ g.result = result
    BY DEF Relay, Leave
  <1> QED
    BY <1>1, <1>2

\* A run releases an entry.
LEMMA RunReleases ==
    ASSUME NEW k \in Relay, NEW e, NEW g, g = [k EXCEPT !.todo = @ \ {e}]
    PROVE  /\ g \in Relay /\ g.pc = k.pc /\ g.current = k.current
           /\ g.todo = k.todo \ {e} /\ g.result = k.result
  BY DEF Relay

\* A relay that is not running holds nothing.
LEMMA NoRunShaped == NoRun \in Relay /\ Shaped(NoRun) /\ Held(NoRun) = {}
  BY BoundsAssumption DEF NoRun, Relay, Shaped, Held, Entries

----------------------------------------------------------------------------
(* A step of one run. Relay r moves to k; the others stay.                  *)

\* The claims, when what r holds after the step it held before or claims now.
LEMMA RunMoves ==
    ASSUME IInv, NEW r \in Relays, NEW k \in Relay, Shaped(k),
           relay' = [relay EXCEPT ![r] = k],
           \A e \in Held(k) :
               entry'[e] = "Claimed" /\ (e \in Held(relay[r]) \/ entry[e] # "Claimed"),
           \A e \in Entries :
               entry[e] = "Claimed" /\ entry'[e] # "Claimed" => e \in Held(relay[r]),
           \A e \in Entries :
               entry'[e] = "Claimed" /\ e \notin Held(k)
               => \/ stranded'[e] # "no"
                  \/ /\ entry[e] = "Claimed" /\ e \notin Held(relay[r])
                     /\ stranded'[e] = stranded[e]
    PROVE  relay' \in [Relays -> Relay] /\ Shapes' /\ ClaimsExclusive' /\ StrandedForCause'
  <1>1. relay \in [Relays -> Relay] /\ relay' \in [Relays -> Relay]
    BY DEF IInv, TypeOK
  <1>2. relay'[r] = k /\ \A q \in Relays : q # r => relay'[q] = relay[q]
    BY <1>1
  <1>3. Shapes'
    BY <1>2 DEF IInv, Shapes
  <1>4. \A q \in Relays : Held(relay[q]) \subseteq Entries
    BY <1>1 DEF Held, Relay, Entries
  <1>5. Held(k) \subseteq Entries
    BY DEF Held, Relay, Entries
  <1>6. \A q \in Relays, e \in Entries : e \in Held(relay[q]) => entry[e] = "Claimed"
    BY DEF IInv, ClaimsExclusive
  <1>7. \A p, q \in Relays, e \in Entries :
            p # q /\ e \in Held(relay[p]) => e \notin Held(relay[q])
    BY DEF IInv, ClaimsExclusive
  <1>8. \A q \in Relays : \A e \in Held(relay'[q]) : entry'[e] = "Claimed"
    BY <1>2, <1>4, <1>6, <1>7
  <1>9. \A p, q \in Relays : p # q => Held(relay'[p]) \cap Held(relay'[q]) = {}
    <2> SUFFICES ASSUME NEW p \in Relays, NEW q \in Relays, p # q,
                        NEW e \in Held(relay'[p]), e \in Held(relay'[q])
                 PROVE  FALSE
      OBVIOUS
    <2>1. CASE p = r
      BY <2>1, <1>2, <1>4, <1>6, <1>7
    <2>2. CASE q = r
      BY <2>2, <1>2, <1>4, <1>6, <1>7
    <2>3. CASE p # r /\ q # r
      BY <2>3, <1>2, <1>4, <1>7
    <2> QED
      BY <2>1, <2>2, <2>3
  <1>10. ClaimsExclusive'
    BY <1>8, <1>9 DEF ClaimsExclusive
  <1>11. StrandedForCause'
    <2> SUFFICES ASSUME NEW e \in Entries, entry'[e] = "Claimed",
                        \A q \in Relays : e \notin Held(relay'[q])
                 PROVE  stranded'[e] # "no"
      BY DEF StrandedForCause
    <2>1. e \notin Held(k) /\ \A q \in Relays : q # r => e \notin Held(relay[q])
      BY <1>2
    <2> QED
      BY <2>1 DEF IInv, StrandedForCause
  <1> QED
    BY <1>1, <1>3, <1>10, <1>11

\* The publications, when the step makes no entry available again.
LEMMA RunSpends ==
    ASSUME IInv, NEW r \in Relays, NEW k, relay' = [relay EXCEPT ![r] = k],
           UNCHANGED <<applied, recovered>>,
           OutcomeUnknown # "Retry" =>
               \A e \in Entries :
                   \/ entry'[e] \in {"Absent", "Pending"}
                   \/ e \in k.todo
                   \/ k.pc = "erred" /\ k.current = e
                   => Fresh(e)
    PROVE  Spent'
  <1>1. relay'[r] = k /\ \A q \in Relays : q # r => relay'[q] = relay[q]
    BY DEF IInv, TypeOK
  <1>2. ASSUME OutcomeUnknown # "Retry", NEW e \in Entries, Fresh(e)'
        PROVE  Fresh(e)
    <2>1. CASE \/ entry'[e] \in {"Absent", "Pending"}
               \/ e \in k.todo
               \/ k.pc = "erred" /\ k.current = e
      BY <1>2, <2>1
    <2>2. CASE \E q \in Relays : /\ q # r
                                 /\ \/ e \in relay[q].todo
                                    \/ relay[q].pc = "erred" /\ relay[q].current = e
      BY <2>2 DEF Fresh
    <2> QED
      BY <1>1, <1>2, <2>1, <2>2 DEF Fresh
  <1> QED
    BY <1>2 DEF IInv, Spent

\* The published entries, when the step marks only what r had confirmed.
LEMMA RunTakes ==
    ASSUME IInv, NEW r \in Relays, NEW k, relay' = [relay EXCEPT ![r] = k],
           UNCHANGED applied, k.pc # "confirmed",
           \A e \in Entries :
               entry'[e] = "Published" =>
                   \/ entry[e] = "Published"
                   \/ relay[r].pc = "confirmed" /\ relay[r].current = e
    PROVE  Taken'
  <1>1. relay'[r] = k /\ \A q \in Relays : q # r => relay'[q] = relay[q]
    BY DEF IInv, TypeOK
  <1>2. \A e \in Entries : entry'[e] = "Published" => applied'[e] >= 1
    BY DEF IInv, Taken
  <1>3. \A q \in Relays : relay'[q].pc = "confirmed" => applied'[relay'[q].current] >= 1
    BY <1>1 DEF IInv, Taken
  <1> QED
    BY <1>2, <1>3 DEF Taken

----------------------------------------------------------------------------
(* Every action keeps the invariant.                                        *)

\* What the invariant says of one run.
LEMMA RunTyped ==
    ASSUME IInv, NEW r \in Relays
    PROVE  /\ relay[r] \in Relay /\ Shaped(relay[r])
           /\ Held(relay[r]) = relay[r].todo \cup ({relay[r].current} \ {0})
           /\ \A e \in Held(relay[r]) : e \in Entries /\ entry[e] = "Claimed"
  <1>1. relay[r] \in Relay /\ Shaped(relay[r])
    BY DEF IInv, TypeOK, Shapes
  <1>2. Held(relay[r]) = relay[r].todo \cup ({relay[r].current} \ {0})
    BY <1>1, HeldShaped
  <1>3. relay[r].todo \subseteq Entries /\ relay[r].current \in Entries \cup {0}
    BY <1>1, BoundsAssumption DEF Relay, Entries
  <1> QED
    BY <1>1, <1>2, <1>3 DEF IInv, ClaimsExclusive

\* A new entry is pending and in no hands.
LEMMA InsertKeeps ==
    ASSUME IInv, Insert
    PROVE  IInv'
  <1>1. PICK e \in Entries : entry[e] = "Absent" /\ entry' = [entry EXCEPT ![e] = "Pending"]
    BY DEF Insert, InState
  <1>2. UNCHANGED <<relay, applied, recovered, stranded, faults, drops>>
    BY DEF Insert
  <1>3. TypeOK'
    BY <1>1, <1>2 DEF IInv, TypeOK, States
  <1>4. entry \in [Entries -> States]
    BY DEF IInv, TypeOK
  <1>5. \A d \in Entries : d # e => entry'[d] = entry[d]
    BY <1>1, <1>4
  <1>6. entry'[e] = "Pending"
    BY <1>1, <1>4
  <1>7. Shapes'
    BY <1>2 DEF IInv, Shapes
  <1>8. ClaimsExclusive'
    <2>1. \A q \in Relays : \A d \in Held(relay[q]) : d \in Entries /\ entry[d] = "Claimed"
      BY RunTyped
    <2> QED
      BY <2>1, <1>1, <1>2, <1>5 DEF IInv, ClaimsExclusive
  <1>9. StrandedForCause'
    BY <1>1, <1>2, <1>5, <1>6 DEF IInv, StrandedForCause
  <1>10. Spent'
    <2>1. \A d \in Entries : Fresh(d)' => Fresh(d)
      BY <1>1, <1>2, <1>5 DEF Fresh
    <2> QED
      BY <2>1, <1>2 DEF IInv, Spent
  <1>11. Taken'
    BY <1>1, <1>2, <1>5, <1>6 DEF IInv, Taken
  <1> QED
    BY <1>3, <1>7, <1>8, <1>9, <1>10, <1>11 DEF IInv

\* claim_pending takes pending entries, which nobody holds.
LEMMA ClaimPendingKeeps ==
    ASSUME IInv, NEW r \in Relays, ClaimPending(r)
    PROVE  IInv'
  <1> DEFINE k == [NoRun EXCEPT !.pc = "next", !.todo = Batch, !.claimed = Cardinality(Batch)]
  <1>1. Batch \subseteq Entries /\ \A e \in Batch : entry[e] = "Pending"
    BY DEF Batch, InState
  <1>2. Cardinality(Batch) \in Nat
    <2>1. IsFiniteSet(Entries)
      BY BoundsAssumption, FS_Interval DEF Entries
    <2>2. IsFiniteSet(Batch)
      BY <1>1, <2>1, FS_Subset
    <2> QED
      BY <2>2, FS_CardinalityType
  <1>3. k \in Relay
    BY <1>1, <1>2, NoRunShaped DEF Relay
  <1>4. Shaped(k) /\ k.todo = Batch /\ k.pc = "next" /\ k.current = 0
    BY <1>1, <1>3, BoundsAssumption DEF NoRun, Shaped, Entries
  <1>5. relay' = [relay EXCEPT ![r] = k]
    BY DEF ClaimPending, MarkClaimed, Put
  <1> HIDE DEF k
  <1>6. Held(k) = Batch
    BY <1>3, <1>4, HeldShaped
  <1>7. Held(relay[r]) = {}
    BY DEF ClaimPending, At, Held
  <1>8. /\ entry' = [e \in Entries |-> IF e \in Batch THEN "Claimed" ELSE entry[e]]
        /\ UNCHANGED <<applied, recovered, stranded, faults, drops>>
    BY DEF ClaimPending, MarkClaimed, Works
  <1>9. relay' \in [Relays -> Relay] /\ Shapes' /\ ClaimsExclusive' /\ StrandedForCause'
    <2>1. \A e \in Held(k) : entry'[e] = "Claimed" /\ entry[e] # "Claimed"
      BY <1>1, <1>6, <1>8
    <2>2. \A e \in Entries : ~(entry[e] = "Claimed" /\ entry'[e] # "Claimed")
      BY <1>8
    <2>3. \A e \in Entries : entry'[e] = "Claimed" /\ e \notin Held(k) => entry[e] = "Claimed"
      BY <1>6, <1>8
    <2> QED
      BY <1>3, <1>4, <1>5, <1>7, <1>8, <2>1, <2>2, <2>3, RunMoves
  <1>10. TypeOK'
    BY <1>8, <1>9 DEF IInv, TypeOK, States
  <1>11. Spent'
    <2>1. \A e \in Entries :
              \/ entry'[e] \in {"Absent", "Pending"}
              \/ e \in k.todo
              \/ k.pc = "erred" /\ k.current = e
              => Fresh(e)
      BY <1>1, <1>4, <1>8 DEF Fresh
    <2> QED
      BY <1>5, <1>8, <2>1, RunSpends
  <1>12. Taken'
    <2>1. \A e \in Entries : entry'[e] = "Published" => entry[e] = "Published"
      BY <1>8
    <2> QED
      BY <1>4, <1>5, <1>8, <2>1, RunTakes
  <1> QED
    BY <1>9, <1>10, <1>11, <1>12 DEF IInv

\* A step of a run that leaves the store alone and gives up no entry.
LEMMA QuietKeeps ==
    ASSUME IInv, NEW r \in Relays, NEW k \in Relay, Shaped(k),
           relay' = [relay EXCEPT ![r] = k],
           Held(k) = Held(relay[r]), k.todo \subseteq relay[r].todo,
           k.pc \notin {"confirmed", "erred"},
           faults' \in 0..FaultBudget,
           UNCHANGED <<entry, applied, recovered, stranded, drops>>
    PROVE  IInv'
  <1>1. relay' \in [Relays -> Relay] /\ Shapes' /\ ClaimsExclusive' /\ StrandedForCause'
    <2>1. \A e \in Held(relay[r]) : entry[e] = "Claimed"
      BY RunTyped
    <2> QED
      BY <2>1, RunMoves
  <1>2. TypeOK'
    BY <1>1 DEF IInv, TypeOK
  <1>3. Spent'
    <2>1. \A e \in Entries :
              \/ entry'[e] \in {"Absent", "Pending"}
              \/ e \in k.todo
              \/ k.pc = "erred" /\ k.current = e
              => Fresh(e)
      BY DEF Fresh
    <2> QED
      BY <2>1, RunSpends
  <1>4. Taken'
    BY RunTakes
  <1> QED
    BY <1>1, <1>2, <1>3, <1>4 DEF IInv

\* A run gives up an entry it answers for by moving it on in the store.
LEMMA MarkKeeps ==
    ASSUME IInv, NEW r \in Relays, NEW k \in Relay, Shaped(k),
           relay' = [relay EXCEPT ![r] = k],
           NEW e \in Held(relay[r]), Held(k) = Held(relay[r]) \ {e},
           k.todo \subseteq relay[r].todo, k.pc \notin {"confirmed", "erred"},
           NEW st \in States \ {"Absent", "Claimed"}, Mark(e, st),
           st = "Published" => relay[r].pc = "confirmed" /\ relay[r].current = e,
           st = "Pending" /\ OutcomeUnknown # "Retry" => Fresh(e),
           UNCHANGED <<applied, recovered, stranded, faults, drops>>
    PROVE  IInv'
  <1>1. e \in Entries /\ \A d \in Held(relay[r]) : d \in Entries /\ entry[d] = "Claimed"
    BY RunTyped
  <1>2. entry \in [Entries -> States]
    BY DEF IInv, TypeOK
  <1>3. entry' = [entry EXCEPT ![e] = st]
    BY DEF Mark
  <1>4. entry'[e] = st /\ \A d \in Entries : d # e => entry'[d] = entry[d]
    BY <1>1, <1>2, <1>3
  <1>5. relay' \in [Relays -> Relay] /\ Shapes' /\ ClaimsExclusive' /\ StrandedForCause'
    <2>1. \A d \in Held(k) : entry'[d] = "Claimed" /\ d \in Held(relay[r])
      BY <1>1, <1>4
    <2>2. \A d \in Entries :
              entry[d] = "Claimed" /\ entry'[d] # "Claimed" => d \in Held(relay[r])
      BY <1>4
    <2>3. \A d \in Entries :
              entry'[d] = "Claimed" /\ d \notin Held(k)
              => /\ entry[d] = "Claimed" /\ d \notin Held(relay[r])
                 /\ stranded'[d] = stranded[d]
      BY <1>4
    <2> QED
      BY <2>1, <2>2, <2>3, RunMoves, ZenonT(60)
  <1>6. TypeOK'
    BY <1>2, <1>3, <1>5 DEF IInv, TypeOK
  <1>7. Spent'
    <2>1. OutcomeUnknown # "Retry" =>
              \A d \in Entries :
                  \/ entry'[d] \in {"Absent", "Pending"}
                  \/ d \in k.todo
                  \/ k.pc = "erred" /\ k.current = d
                  => Fresh(d)
      BY <1>4 DEF Fresh
    <2> QED
      BY <2>1, RunSpends
  <1>8. Taken'
    <2>1. \A d \in Entries :
              entry'[d] = "Published" =>
                  \/ entry[d] = "Published"
                  \/ relay[r].pc = "confirmed" /\ relay[r].current = d
      BY <1>4
    <2> QED
      BY <2>1, RunTakes
  <1> QED
    BY <1>5, <1>6, <1>7, <1>8 DEF IInv

\* A run gives up entries without moving them on: they are stranded.
LEMMA StrandKeeps ==
    ASSUME IInv, NEW r \in Relays, NEW k \in Relay, Shaped(k),
           relay' = [relay EXCEPT ![r] = k],
           Held(k) \subseteq Held(relay[r]),
           k.todo \subseteq relay[r].todo, k.pc \notin {"confirmed", "erred"},
           stranded' \in [Entries -> {"no", "unmarked", "unreleased", "dropped"}],
           \A e \in Entries : IF e \in Held(relay[r]) \ Held(k)
                              THEN stranded'[e] # "no"
                              ELSE stranded'[e] = stranded[e],
           faults' \in 0..FaultBudget, drops' \in 0..DropBudget,
           UNCHANGED <<entry, applied, recovered>>
    PROVE  IInv'
  <1>1. relay' \in [Relays -> Relay] /\ Shapes' /\ ClaimsExclusive' /\ StrandedForCause'
    <2>1. \A e \in Held(relay[r]) : entry[e] = "Claimed"
      BY RunTyped
    <2>2. \A e \in Held(k) : entry'[e] = "Claimed" /\ e \in Held(relay[r])
      BY <2>1
    <2>3. \A e \in Entries :
              entry'[e] = "Claimed" /\ e \notin Held(k)
              => \/ stranded'[e] # "no"
                 \/ /\ entry[e] = "Claimed" /\ e \notin Held(relay[r])
                    /\ stranded'[e] = stranded[e]
      OBVIOUS
    <2>4. \A e \in Entries : ~(entry[e] = "Claimed" /\ entry'[e] # "Claimed")
      OBVIOUS
    <2> QED
      BY <2>2, <2>3, <2>4, RunMoves, ZenonT(60)
  <1>2. TypeOK'
    BY <1>1 DEF IInv, TypeOK
  <1>3. Spent'
    <2>1. \A e \in Entries :
              \/ entry'[e] \in {"Absent", "Pending"}
              \/ e \in k.todo
              \/ k.pc = "erred" /\ k.current = e
              => Fresh(e)
      BY DEF Fresh
    <2> QED
      BY <2>1, RunSpends
  <1>4. Taken'
    BY RunTakes
  <1> QED
    BY <1>1, <1>2, <1>3, <1>4 DEF IInv

\* A failure that is injected was left to inject.
LEMMA FaultTyped ==
    ASSUME IInv, Fault \/ Works
    PROVE  faults' \in 0..FaultBudget
  BY BoundsAssumption DEF IInv, TypeOK, Fault, Works

\* A claim that fails and a run that returns hold nothing.
LEMMA EndsKeep ==
    ASSUME IInv, NEW r \in Relays, ClaimFails(r) \/ RunEnds(r) \/ RunFails(r)
    PROVE  IInv'
  <1> DEFINE old == relay[r]
  <1>1. old \in Relay /\ Shaped(old) /\ Held(old) = old.todo \cup ({old.current} \ {0})
    BY RunTyped
  <1>2. CASE ClaimFails(r)
    <2> DEFINE k == [NoRun EXCEPT !.result = "Store"]
    <2>1. k \in Relay /\ Shaped(k) /\ Held(k) = {} /\ k.todo = {} /\ k.pc = "idle"
      BY BoundsAssumption DEF NoRun, Relay, Shaped, Held, Entries
    <2>2. Held(old) = {}
      BY <1>2 DEF ClaimFails, At, Held
    <2>3. relay' = [relay EXCEPT ![r] = k]
      BY <1>2 DEF ClaimFails, Put
    <2>4. faults' \in 0..FaultBudget
      BY <1>2, FaultTyped DEF ClaimFails
    <2> HIDE DEF k
    <2> QED
      BY <1>2, <2>1, <2>2, <2>3, <2>4, QuietKeeps DEF ClaimFails
  <1>3. CASE RunEnds(r)
    <2> DEFINE k == [old EXCEPT !.pc = "idle", !.result = "Ok"]
    <2>1. k \in Relay
      BY <1>1 DEF Relay
    <2>2. old.pc = "next" /\ old.todo = {}
      BY <1>3 DEF RunEnds, At
    <2>3. Shaped(k) /\ k.todo = {} /\ k.pc = "idle" /\ k.current = 0
      BY <1>1, <2>2 DEF Relay, Shaped
    <2>4. relay' = [relay EXCEPT ![r] = k]
      BY <1>3 DEF RunEnds, Put
    <2> HIDE DEF k
    <2>5. Held(k) = Held(old)
      BY <1>1, <2>1, <2>2, <2>3 DEF Shaped, Held
    <2>6. faults' \in 0..FaultBudget
      BY <1>3 DEF RunEnds, IInv, TypeOK
    <2> QED
      BY <1>3, <2>1, <2>3, <2>4, <2>5, <2>6, QuietKeeps DEF RunEnds
  <1>4. CASE RunFails(r)
    <2> DEFINE k == [old EXCEPT !.pc = "idle"]
    <2>1. k \in Relay
      BY <1>1 DEF Relay
    <2>2. old.pc = "release" /\ old.todo = {}
      BY <1>4 DEF RunFails, At
    <2>3. Shaped(k) /\ k.todo = {} /\ k.pc = "idle" /\ k.current = 0
      BY <1>1, <2>2 DEF Relay, Shaped
    <2>4. relay' = [relay EXCEPT ![r] = k]
      BY <1>4 DEF RunFails, Put
    <2> HIDE DEF k
    <2>5. Held(k) = Held(old)
      BY <1>1, <2>1, <2>2, <2>3 DEF Shaped, Held
    <2>6. faults' \in 0..FaultBudget
      BY <1>4 DEF RunFails, IInv, TypeOK
    <2> QED
      BY <1>4, <2>1, <2>3, <2>4, <2>5, <2>6, QuietKeeps DEF RunFails
  <1> QED
    BY <1>2, <1>3, <1>4

\* mark_published moves on the entry at hand.
LEMMA MarkPublishedKeeps ==
    ASSUME IInv, NEW r \in Relays, MarkPublished(r)
    PROVE  IInv'
  <1> DEFINE old == relay[r]
             k == [old EXCEPT !.pc = "next", !.current = 0, !.published = @ + 1]
  <1>1. old \in Relay /\ Shaped(old) /\ Held(old) = old.todo \cup ({old.current} \ {0})
    BY RunTyped
  <1>2. old.pc = "confirmed"
    BY DEF MarkPublished, At
  <1>3. old.current # 0
    BY <1>1, <1>2 DEF Shaped
  <1>4. k \in Relay
    <2>1. old.published \in Nat
      BY <1>1 DEF Relay
    <2>2. old.published + 1 \in Nat
      BY <2>1
    <2> QED
      BY <1>1, <2>2, NoEntry DEF Relay
  <1>5. k.pc = "next" /\ k.current = 0 /\ k.todo = old.todo /\ k.result = old.result
    BY <1>1 DEF Relay
  <1>6. relay' = [relay EXCEPT ![r] = k]
    BY DEF MarkPublished, Put
  <1> HIDE DEF k
  <1>7. Shaped(k)
    BY <1>1, <1>2, <1>5, BoundsAssumption DEF Shaped, Relay, Entries
  <1>8. Held(k) = Held(old) \ {old.current} /\ old.current \in Held(old)
    BY <1>1, <1>3, <1>4, <1>5, <1>7, HeldShaped DEF Shaped
  <1>9. Mark(old.current, "Published") /\ UNCHANGED <<applied, recovered, stranded, faults, drops>>
    BY DEF MarkPublished, Works
  <1> QED
    BY <1>2, <1>4, <1>5, <1>6, <1>7, <1>8, <1>9, MarkKeeps DEF States

\* An unknown outcome becomes pending again under policy Retry only.
LEMMA MarkUnknownKeeps ==
    ASSUME IInv, NEW r \in Relays, MarkUnknown(r)
    PROVE  IInv'
  <1> DEFINE old == relay[r]
             kept == Recorded(old, OutcomeUnknown)
             k == [kept EXCEPT !.pc = "next", !.current = 0]
  <1>1. old \in Relay /\ Shaped(old) /\ Held(old) = old.todo \cup ({old.current} \ {0})
    BY RunTyped
  <1>2. old.pc = "unknown"
    BY DEF MarkUnknown, At
  <1>3. old.current # 0
    BY <1>1, <1>2 DEF Shaped
  <1>4. kept \in Relay /\ kept.todo = old.todo /\ kept.result = old.result
    BY <1>1, PolicyAssumption, RecordedFrame
  <1>5. relay' = [relay EXCEPT ![r] = k]
    BY DEF MarkUnknown, Put
  <1>6. /\ Mark(old.current, FailedState(OutcomeUnknown))
        /\ UNCHANGED <<applied, recovered, stranded, faults, drops>>
    BY DEF MarkUnknown, Works
  <1> HIDE DEF kept
  <1>7. k \in Relay
    BY <1>4, RunGoesOn
  <1>8. k.pc = "next" /\ k.current = 0 /\ k.todo = old.todo /\ k.result = old.result
    BY <1>4, RunGoesOn
  <1> HIDE DEF k
  <1>9. Shaped(k)
    BY <1>1, <1>2, <1>8, BoundsAssumption DEF Shaped, Relay, Entries
  <1>10. Held(k) = Held(old) \ {old.current} /\ old.current \in Held(old)
    BY <1>1, <1>3, <1>7, <1>8, <1>9, HeldShaped DEF Shaped
  <1>11. /\ FailedState(OutcomeUnknown) \in {"Pending", "AwaitingReconciliation", "Failed"}
         /\ FailedState(OutcomeUnknown) = "Pending" => OutcomeUnknown = "Retry"
    BY PolicyAssumption, FailedStates
  <1> QED
    BY <1>5, <1>6, <1>7, <1>8, <1>9, <1>10, <1>11, MarkKeeps DEF States

\* An erred publication was not applied: the entry is still fresh.
LEMMA MarkErredKeeps ==
    ASSUME IInv, NEW r \in Relays, MarkErred(r)
    PROVE  IInv'
  <1> DEFINE old == relay[r]
             kept == Recorded(old, ProducerError)
             k == Leave(kept, "Publish")
  <1>1. old \in Relay /\ Shaped(old) /\ Held(old) = old.todo \cup ({old.current} \ {0})
    BY RunTyped
  <1>2. old.pc = "erred"
    BY DEF MarkErred, At
  <1>3. old.current # 0
    BY <1>1, <1>2 DEF Shaped
  <1>4. kept \in Relay /\ kept.todo = old.todo
    BY <1>1, PolicyAssumption, RecordedFrame
  <1>5. relay' = [relay EXCEPT ![r] = k]
    BY DEF MarkErred, Put
  <1>6. /\ Mark(old.current, FailedState(ProducerError))
        /\ UNCHANGED <<applied, recovered, stranded, faults, drops>>
    BY DEF MarkErred, Works
  <1> HIDE DEF kept
  <1>7. k \in Relay
    BY <1>4, RunLeaves
  <1>8. k.pc = "release" /\ k.current = 0 /\ k.todo = old.todo
    BY <1>4, RunLeaves
  <1> HIDE DEF k
  <1>9. Shaped(k)
    BY <1>1, <1>8, BoundsAssumption DEF Shaped, Relay, Entries
  <1>10. Held(k) = Held(old) \ {old.current} /\ old.current \in Held(old)
    BY <1>1, <1>3, <1>7, <1>8, <1>9, HeldShaped DEF Shaped
  <1>11. FailedState(ProducerError) \in {"Pending", "AwaitingReconciliation", "Failed"}
    BY PolicyAssumption, FailedStates
  <1>12. Fresh(old.current)
    BY <1>2 DEF Fresh
  <1> QED
    BY <1>5, <1>6, <1>7, <1>8, <1>9, <1>10, <1>11, <1>12, MarkKeeps DEF States

\* A released entry was never given to the broker.
LEMMA ReleaseOneKeeps ==
    ASSUME IInv, NEW r \in Relays, ReleaseOne(r)
    PROVE  IInv'
  <1> DEFINE old == relay[r]
             e == First(old.todo)
             kept == Recorded(old, "Retry")
             k == [kept EXCEPT !.todo = @ \ {e}]
  <1>1. old \in Relay /\ Shaped(old) /\ Held(old) = old.todo \cup ({old.current} \ {0})
    BY RunTyped
  <1>2. old.pc = "release" /\ old.current = 0
    BY <1>1 DEF ReleaseOne, At, Shaped
  <1>3. e \in old.todo
    BY <1>1, FirstIn DEF ReleaseOne, Relay
  <1>4. kept \in Relay /\ kept.todo = old.todo /\ kept.pc = old.pc /\ kept.current = old.current
    BY <1>1, RecordedFrame
  <1>5. relay' = [relay EXCEPT ![r] = k]
    BY DEF ReleaseOne, Put
  <1>6. Mark(e, "Pending") /\ UNCHANGED <<applied, recovered, stranded, faults, drops>>
    BY DEF ReleaseOne, Works
  <1> HIDE DEF kept, e
  <1>7. k \in Relay
    BY <1>4, RunReleases
  <1>8. k.pc = "release" /\ k.current = 0 /\ k.todo = old.todo \ {e}
    BY <1>2, <1>4, RunReleases
  <1> HIDE DEF k
  <1>9. Shaped(k)
    BY <1>1, <1>8, BoundsAssumption DEF Shaped, Relay, Entries
  <1>10. Held(k) = Held(old) \ {e} /\ e \in Held(old)
    BY <1>1, <1>2, <1>3, <1>7, <1>8, <1>9, HeldShaped
  <1>11. Fresh(e)
    BY <1>3 DEF Fresh
  <1> QED
    BY <1>5, <1>6, <1>7, <1>8, <1>9, <1>10, <1>11, MarkKeeps DEF States

\* A marking that fails strands the entry at hand.
LEMMA MarkingFailsKeeps ==
    ASSUME IInv, NEW r \in Relays, MarkingFails(r)
    PROVE  IInv'
  <1> DEFINE old == relay[r]
             result == IF old.pc = "erred" THEN "PublishAndStore" ELSE "Store"
             k == Leave(old, result)
  <1>1. old \in Relay /\ Shaped(old) /\ Held(old) = old.todo \cup ({old.current} \ {0})
    BY RunTyped
  <1>2. old.current # 0
    BY <1>1 DEF MarkingFails, Shaped
  <1>3. k \in Relay /\ k.pc = "release" /\ k.current = 0 /\ k.todo = old.todo
    BY <1>1, RunLeaves
  <1>4. relay' = [relay EXCEPT ![r] = k]
    BY DEF MarkingFails, Put
  <1>5. stranded' = [stranded EXCEPT ![old.current] = "unmarked"]
    BY DEF MarkingFails
  <1>6. UNCHANGED <<entry, applied, recovered, drops>>
    BY DEF MarkingFails
  <1>7. faults' \in 0..FaultBudget
    BY FaultTyped DEF MarkingFails
  <1> HIDE DEF k
  <1>8. Shaped(k)
    BY <1>1, <1>3, BoundsAssumption DEF Shaped, Relay, Entries
  <1>9. Held(k) = Held(old) \ {old.current} /\ old.current \in Held(old)
    BY <1>1, <1>2, <1>3, <1>8, HeldShaped DEF Shaped
  <1>10. old.current \in Entries
    BY <1>9, RunTyped
  <1>11. stranded \in [Entries -> {"no", "unmarked", "unreleased", "dropped"}]
    BY DEF IInv, TypeOK
  <1>12. \A e \in Entries : IF e \in Held(old) \ Held(k)
                            THEN stranded'[e] # "no"
                            ELSE stranded'[e] = stranded[e]
    BY <1>5, <1>9, <1>10, <1>11
  <1>13. stranded' \in [Entries -> {"no", "unmarked", "unreleased", "dropped"}]
    BY <1>5, <1>11
  <1>14. drops' \in 0..DropBudget
    BY <1>6 DEF IInv, TypeOK
  <1> QED
    BY <1>3, <1>4, <1>6, <1>7, <1>8, <1>9, <1>12, <1>13, <1>14, StrandKeeps

\* A release that fails strands its entry.
LEMMA ReleaseFailsKeeps ==
    ASSUME IInv, NEW r \in Relays, ReleaseFails(r)
    PROVE  IInv'
  <1> DEFINE old == relay[r]
             e == First(old.todo)
             k == [old EXCEPT !.todo = @ \ {e}, !.unreleased = @ + 1]
  <1>1. old \in Relay /\ Shaped(old) /\ Held(old) = old.todo \cup ({old.current} \ {0})
    BY RunTyped
  <1>2. old.pc = "release" /\ old.current = 0
    BY <1>1 DEF ReleaseFails, At, Shaped
  <1>3. e \in old.todo
    BY <1>1, FirstIn DEF ReleaseFails, Relay
  <1>4. relay' = [relay EXCEPT ![r] = k]
    BY DEF ReleaseFails, Put
  <1>5. /\ stranded' = [stranded EXCEPT ![e] = "unreleased"]
        /\ UNCHANGED <<entry, applied, recovered, drops>>
    BY DEF ReleaseFails
  <1>6. faults' \in 0..FaultBudget
    BY FaultTyped DEF ReleaseFails
  <1> HIDE DEF e
  <1>7. k \in Relay
    <2>1. old.unreleased \in Nat
      BY <1>1 DEF Relay
    <2>2. old.unreleased + 1 \in Nat
      BY <2>1
    <2> QED
      BY <1>1, <2>2 DEF Relay
  <1>8. k.pc = "release" /\ k.current = 0 /\ k.todo = old.todo \ {e}
    BY <1>1, <1>2 DEF Relay
  <1> HIDE DEF k
  <1>9. Shaped(k)
    BY <1>1, <1>8, BoundsAssumption DEF Shaped, Relay, Entries
  <1>10. Held(k) = Held(old) \ {e} /\ e \in Held(old)
    BY <1>1, <1>2, <1>3, <1>7, <1>8, <1>9, HeldShaped
  <1>11. stranded \in [Entries -> {"no", "unmarked", "unreleased", "dropped"}]
    BY DEF IInv, TypeOK
  <1>12. \A d \in Entries : IF d \in Held(old) \ Held(k)
                            THEN stranded'[d] # "no"
                            ELSE stranded'[d] = stranded[d]
    BY <1>5, <1>10, <1>11
  <1>13. stranded' \in [Entries -> {"no", "unmarked", "unreleased", "dropped"}]
    BY <1>5, <1>11
  <1>14. drops' \in 0..DropBudget
    BY <1>5 DEF IInv, TypeOK
  <1> QED
    BY <1>4, <1>5, <1>6, <1>7, <1>8, <1>9, <1>10, <1>12, <1>13, <1>14, StrandKeeps

\* A dropped run strands all it held.
LEMMA DropRunKeeps ==
    ASSUME IInv, NEW r \in Relays, DropRun(r)
    PROVE  IInv'
  <1>1. NoRun \in Relay /\ Shaped(NoRun) /\ Held(NoRun) = {}
    BY NoRunShaped
  <1>2. NoRun.todo = {} /\ NoRun.pc = "idle"
    BY DEF NoRun
  <1>3. stranded' = [e \in Entries |-> IF e \in Held(relay[r]) THEN "dropped" ELSE stranded[e]]
    BY DEF DropRun
  <1>4. stranded \in [Entries -> {"no", "unmarked", "unreleased", "dropped"}]
    BY DEF IInv, TypeOK
  <1>5. \A e \in Entries : IF e \in Held(relay[r]) \ Held(NoRun)
                           THEN stranded'[e] # "no"
                           ELSE stranded'[e] = stranded[e]
    BY <1>1, <1>3
  <1>6. stranded' \in [Entries -> {"no", "unmarked", "unreleased", "dropped"}]
    BY <1>3, <1>4
  <1>7. faults' \in 0..FaultBudget /\ drops' \in 0..DropBudget
    BY BoundsAssumption DEF DropRun, IInv, TypeOK
  <1>8. relay' = [relay EXCEPT ![r] = NoRun] /\ UNCHANGED <<entry, applied, recovered>>
    BY DEF DropRun, Put
  <1> QED
    BY <1>1, <1>2, <1>5, <1>6, <1>7, <1>8, StrandKeeps

\* A recovery makes a stranded entry fresh and is counted.
LEMMA RecoverKeeps ==
    ASSUME IInv, NEW e \in Entries, Recover(e)
    PROVE  IInv'
  <1>1. /\ entry[e] = "Claimed" /\ \A r \in Relays : e \notin Held(relay[r])
        /\ entry' = [entry EXCEPT ![e] = "Pending"]
        /\ stranded' = [stranded EXCEPT ![e] = "no"]
        /\ recovered' = [recovered EXCEPT ![e] = @ + 1]
        /\ UNCHANGED <<relay, applied, faults, drops>>
    BY DEF Recover, Mark
  <1>2. TypeOK'
    BY <1>1 DEF IInv, TypeOK, States
  <1>3. /\ entry \in [Entries -> States] /\ recovered \in [Entries -> Nat]
        /\ applied \in [Entries -> Nat]
        /\ stranded \in [Entries -> {"no", "unmarked", "unreleased", "dropped"}]
    BY DEF IInv, TypeOK
  <1>4. /\ \A d \in Entries : d # e => /\ entry'[d] = entry[d] /\ stranded'[d] = stranded[d]
                                       /\ recovered'[d] = recovered[d]
        /\ entry'[e] = "Pending" /\ recovered'[e] = recovered[e] + 1
    BY <1>1, <1>3
  <1>5. Shapes'
    BY <1>1 DEF IInv, Shapes
  <1>6. ClaimsExclusive'
    <2>1. \A q \in Relays : \A d \in Held(relay[q]) : d \in Entries /\ entry[d] = "Claimed"
      BY RunTyped
    <2> QED
      BY <2>1, <1>1, <1>4 DEF IInv, ClaimsExclusive
  <1>7. StrandedForCause'
    BY <1>1, <1>4 DEF IInv, StrandedForCause
  <1>8. Spent'
    <2>1. \A d \in Entries : d # e /\ Fresh(d)' => Fresh(d)
      BY <1>1, <1>4 DEF Fresh
    <2>2. ASSUME OutcomeUnknown # "Retry", NEW d \in Entries
          PROVE  applied'[d] <= 1 + recovered'[d] /\ (Fresh(d)' => applied'[d] <= recovered'[d])
      <3>1. CASE d = e
        BY <2>2, <3>1, <1>1, <1>3, <1>4 DEF IInv, Spent
      <3>2. CASE d # e
        BY <2>1, <2>2, <3>2, <1>1, <1>4 DEF IInv, Spent
      <3> QED
        BY <3>1, <3>2
    <2> QED
      BY <2>2 DEF Spent
  <1>9. Taken'
    BY <1>1, <1>4 DEF IInv, Taken
  <1> QED
    BY <1>2, <1>5, <1>6, <1>7, <1>8, <1>9 DEF IInv

\* publish hands a fresh entry to the broker, once.
LEMMA PublishKeeps ==
    ASSUME IInv, NEW r \in Relays, NEW outcome \in {"confirmed", "unknown", "erred"},
           NEW takes \in BOOLEAN, Publish(r, outcome, takes)
    PROVE  IInv'
  <1> DEFINE old == relay[r]
  <1>1. old \in Relay /\ Shaped(old) /\ Held(old) = old.todo \cup ({old.current} \ {0})
    BY RunTyped
  <1>2. old.pc = "next" /\ old.current = 0
    BY <1>1 DEF Publish, At, Shaped
  <1>3. PICK e \in old.todo : e = First(old.todo)
    BY <1>1, FirstIn DEF Publish, Relay
  <1> DEFINE k == [old EXCEPT !.pc = outcome, !.todo = @ \ {e}, !.current = e]
  <1>4. relay' = [relay EXCEPT ![r] = k] /\ UNCHANGED <<entry, recovered, stranded, drops>>
    BY <1>3 DEF Publish, Put
  <1>5. applied' = IF takes THEN [applied EXCEPT ![e] = @ + 1] ELSE applied
    BY <1>3 DEF Publish
  <1>6. outcome = "confirmed" => takes
    BY DEF Publish
  <1>7. outcome = "erred" => ~takes
    BY DEF Publish
  <1>8. faults' \in 0..FaultBudget
    BY FaultTyped DEF Publish
  <1>9. e \in Entries /\ e \in 0..MaxEntries /\ e # 0
    BY <1>1, <1>3, BoundsAssumption DEF Relay, Entries
  <1>10. k \in Relay
    BY <1>1, <1>9 DEF Relay
  <1>11. k.pc = outcome /\ k.current = e /\ k.todo = old.todo \ {e} /\ k.result = old.result
    BY <1>1 DEF Relay
  <1> HIDE DEF k
  <1>12. Shaped(k)
    BY <1>1, <1>2, <1>9, <1>11 DEF Shaped
  <1>13. Held(k) = Held(old)
    BY <1>1, <1>2, <1>3, <1>9, <1>10, <1>11, <1>12, HeldShaped
  <1>14. \A d \in Held(old) : d \in Entries /\ entry[d] = "Claimed"
    BY RunTyped
  <1>15. relay' \in [Relays -> Relay] /\ Shapes' /\ ClaimsExclusive' /\ StrandedForCause'
    BY <1>4, <1>10, <1>12, <1>13, <1>14, RunMoves
  <1>16. applied \in [Entries -> Nat] /\ recovered \in [Entries -> Nat]
    BY DEF IInv, TypeOK
  <1>17. applied' \in [Entries -> Nat]
    <2>1. CASE takes
      <3>1. applied[e] + 1 \in Nat
        BY <1>9, <1>16
      <3>2. applied' = [applied EXCEPT ![e] = applied[e] + 1]
        BY <2>1, <1>5
      <3> QED
        BY <3>1, <3>2, <1>16
    <2>2. CASE ~takes
      BY <2>2, <1>5, <1>16
    <2> QED
      BY <2>1, <2>2
  <1>18. TypeOK'
    BY <1>4, <1>8, <1>15, <1>17 DEF IInv, TypeOK
  <1>19. /\ \A d \in Entries : d # e => applied'[d] = applied[d]
         /\ applied'[e] = IF takes THEN applied[e] + 1 ELSE applied[e]
    BY <1>5, <1>9, <1>16
  <1>20. relay'[r] = k /\ \A q \in Relays : q # r => relay'[q] = relay[q]
    BY <1>4 DEF IInv, TypeOK
  <1>21. Spent'
    <2>1. Fresh(e)
      BY <1>3 DEF Fresh
    <2>2. \A d \in Entries : d # e /\ Fresh(d)' => Fresh(d)
      BY <1>4, <1>11, <1>20 DEF Fresh
    <2>3. Fresh(e)' => ~takes
      <3>1. entry'[e] = "Claimed"
        BY <1>1, <1>3, <1>4, <1>14
      <3>2. \A q \in Relays : q # r => e \notin relay[q].todo /\ relay[q].current # e
        <4>1. \A q \in Relays : Held(relay[q]) = relay[q].todo \cup ({relay[q].current} \ {0})
          BY RunTyped
        <4>2. \A q \in Relays : q # r => e \notin Held(relay[q])
          BY <1>1, <1>3 DEF IInv, ClaimsExclusive
        <4> QED
          BY <4>1, <4>2, <1>9
      <3>3. ASSUME takes PROVE relay'[r].pc # "erred" /\ e \notin relay'[r].todo
        BY <3>3, <1>7, <1>11, <1>20
      <3>4. ASSUME takes, NEW q \in Relays
            PROVE  /\ e \notin relay'[q].todo
                   /\ ~(relay'[q].pc = "erred" /\ relay'[q].current = e)
        BY <3>2, <3>3, <3>4, <1>20
      <3>5. ASSUME takes PROVE ~Fresh(e)'
        BY <3>1, <3>4, <3>5 DEF Fresh
      <3> QED
        BY <3>5
    <2>4. ASSUME OutcomeUnknown # "Retry", NEW d \in Entries
          PROVE  applied'[d] <= 1 + recovered'[d] /\ (Fresh(d)' => applied'[d] <= recovered'[d])
      <3>1. CASE d = e
        <4>1. applied[e] <= recovered[e] /\ applied[e] \in Nat /\ recovered[e] \in Nat
          BY <2>1, <2>4, <1>9, <1>16 DEF IInv, Spent
        <4>2. recovered'[e] = recovered[e]
          BY <1>4
        <4>3. CASE takes
          <5>1. applied'[e] = applied[e] + 1 /\ ~Fresh(e)'
            BY <4>3, <2>3, <1>19
          <5>2. applied'[e] <= 1 + recovered'[e]
            BY <5>1, <4>1, <4>2
          <5> QED
            BY <5>1, <5>2, <3>1
        <4>4. CASE ~takes
          BY <4>1, <4>2, <4>4, <3>1, <1>19
        <4> QED
          BY <4>3, <4>4
      <3>2. CASE d # e
        BY <2>2, <2>4, <3>2, <1>4, <1>19 DEF IInv, Spent
      <3> QED
        BY <3>1, <3>2
    <2> QED
      BY <2>4 DEF Spent
  <1>22. Taken'
    <2>1. \A d \in Entries : applied'[d] >= applied[d]
      BY <1>16, <1>19
    <2>2. \A d \in Entries : applied[d] \in Nat /\ applied'[d] \in Nat
      BY <1>16, <1>17
    <2>3. \A d \in Entries : entry'[d] = "Published" => applied'[d] >= 1
      BY <1>4, <2>1, <2>2 DEF IInv, Taken
    <2>4. ASSUME NEW q \in Relays, relay'[q].pc = "confirmed"
          PROVE  applied'[relay'[q].current] >= 1
      <3>1. CASE q = r
        BY <3>1, <2>2, <2>4, <1>6, <1>9, <1>11, <1>16, <1>19, <1>20
      <3>2. CASE q # r
        <4>1. relay[q].pc = "confirmed" /\ relay'[q] = relay[q]
          BY <2>4, <3>2, <1>20
        <4>2. relay[q] \in Relay /\ Shaped(relay[q])
          BY RunTyped
        <4>3. relay[q].current \in Entries
          BY <4>1, <4>2, BoundsAssumption DEF Shaped, Relay, Entries
        <4> QED
          BY <4>1, <4>3, <2>1, <2>2 DEF IInv, Taken
      <3> QED
        BY <3>1, <3>2
    <2> QED
      BY <2>3, <2>4 DEF Taken
  <1> QED
    BY <1>15, <1>18, <1>21, <1>22 DEF IInv

----------------------------------------------------------------------------

\* An empty store and idle relays satisfy the invariant.
LEMMA IInvInit == Init => IInv
  <1> SUFFICES ASSUME Init PROVE IInv
    OBVIOUS
  <1>1. NoRun \in Relay /\ Shaped(NoRun) /\ Held(NoRun) = {}
    BY NoRunShaped
  <1>2. NoRun.todo = {} /\ NoRun.pc = "idle"
    BY DEF NoRun
  <1>3. \A r \in Relays : relay[r] = NoRun
    BY DEF Init
  <1>4. TypeOK
    BY <1>1, BoundsAssumption DEF Init, TypeOK, States
  <1>5. Shapes /\ ClaimsExclusive
    BY <1>1, <1>3 DEF Shapes, ClaimsExclusive
  <1>6. StrandedForCause
    BY DEF Init, StrandedForCause
  <1>7. Spent
    BY DEF Init, Spent
  <1>8. Taken
    BY <1>2, <1>3 DEF Init, Taken
  <1> QED
    BY <1>4, <1>5, <1>6, <1>7, <1>8 DEF IInv

\* Every step keeps the invariant.
LEMMA IInvNext == IInv /\ [Next]_vars => IInv'
  <1> SUFFICES ASSUME IInv, [Next]_vars PROVE IInv'
    OBVIOUS
  <1>1. CASE Insert
    BY <1>1, InsertKeeps
  <1>2. ASSUME NEW r \in Relays, RunStep(r) PROVE IInv'
    <2>1. CASE ClaimPending(r)
      BY <2>1, ClaimPendingKeeps
    <2>2. CASE ClaimFails(r) \/ RunEnds(r) \/ RunFails(r)
      BY <2>2, EndsKeep
    <2>3. CASE \E outcome \in {"confirmed", "unknown", "erred"}, takes \in BOOLEAN :
                   Publish(r, outcome, takes)
      BY <2>3, PublishKeeps
    <2>4. CASE MarkPublished(r)
      BY <2>4, MarkPublishedKeeps
    <2>5. CASE MarkUnknown(r)
      BY <2>5, MarkUnknownKeeps
    <2>6. CASE MarkErred(r)
      BY <2>6, MarkErredKeeps
    <2>7. CASE MarkingFails(r)
      BY <2>7, MarkingFailsKeeps
    <2>8. CASE ReleaseOne(r)
      BY <2>8, ReleaseOneKeeps
    <2>9. CASE ReleaseFails(r)
      BY <2>9, ReleaseFailsKeeps
    <2> QED
      BY <1>2, <2>1, <2>2, <2>3, <2>4, <2>5, <2>6, <2>7, <2>8, <2>9 DEF RunStep
  <1>3. ASSUME NEW r \in Relays, DropRun(r) PROVE IInv'
    BY <1>3, DropRunKeeps
  <1>4. ASSUME NEW e \in Entries, Recover(e) PROVE IInv'
    BY <1>4, RecoverKeeps
  <1>5. CASE UNCHANGED vars
    <2>1. UNCHANGED <<TypeOK, Shapes, ClaimsExclusive, StrandedForCause>>
      BY <1>5 DEF vars, TypeOK, Shapes, ClaimsExclusive, StrandedForCause
    <2>2. UNCHANGED Spent
      BY <1>5 DEF vars, Spent, Fresh
    <2>3. UNCHANGED Taken
      BY <1>5 DEF vars, Taken
    <2> QED
      BY <2>1, <2>2, <2>3 DEF IInv
  <1> QED
    BY <1>1, <1>2, <1>3, <1>4, <1>5 DEF Next

----------------------------------------------------------------------------
(* The report.                                                              *)

\* ReportBalances, of one run.
Balanced(k) ==
    k.claimed = Cardinality(k.todo) + AtHand(k) + k.published + k.retried
                + k.reconcile + k.terminal + k.unreleased + Lost(k)

\* A batch is finite, and loses one element at a time.
LEMMA BatchFinite ==
    ASSUME NEW S \in SUBSET Entries
    PROVE  /\ Cardinality(S) \in Nat
           /\ \A e \in S : Cardinality(S \ {e}) = Cardinality(S) - 1
           /\ S = {} => Cardinality(S) = 0
  <1>1. IsFiniteSet(Entries)
    BY BoundsAssumption, FS_Interval DEF Entries
  <1>2. IsFiniteSet(S)
    BY <1>1, FS_Subset
  <1>3. Cardinality(S) \in Nat
    BY <1>2, FS_CardinalityType
  <1>4. \A e \in S : Cardinality(S \ {e}) = Cardinality(S) - 1
    BY <1>2, FS_RemoveElement
  <1>5. S = {} => Cardinality(S) = 0
    BY FS_EmptySet
  <1> QED
    BY <1>3, <1>4, <1>5

\* The counts of a run, as numbers.
LEMMA CountsTyped ==
    ASSUME NEW k \in Relay
    PROVE  /\ k.claimed \in Nat /\ k.published \in Nat /\ k.retried \in Nat
           /\ k.reconcile \in Nat /\ k.terminal \in Nat /\ k.unreleased \in Nat
           /\ k.todo \in SUBSET Entries
           /\ AtHand(k) \in {0, 1} /\ Lost(k) \in {0, 1}
  BY DEF Relay, AtHand, Lost

\* Recording a disposition adds one to one count.
LEMMA RecordedCounts ==
    ASSUME NEW k \in Relay, NEW d \in {"Retry", "Reconcile", "Terminal"}
    PROVE  LET g == Recorded(k, d)
           IN  /\ g.published = k.published /\ g.unreleased = k.unreleased
               /\ g.retried + g.reconcile + g.terminal = k.retried + k.reconcile + k.terminal + 1
  <1>1. CASE d = "Retry"
    BY <1>1, CountsTyped DEF Recorded, Relay
  <1>2. CASE d = "Reconcile"
    BY <1>2, CountsTyped DEF Recorded, Relay
  <1>3. CASE d = "Terminal"
    BY <1>3, CountsTyped DEF Recorded, Relay
  <1> QED
    BY <1>1, <1>2, <1>3

\* Recording the entry at hand, or one of those to do, and putting it down.
LEMMA RecordedBalances ==
    ASSUME NEW k \in Relay, Balanced(k), NEW d \in {"Retry", "Reconcile", "Terminal"},
           NEW g \in Relay, LET c == Recorded(k, d)
                            IN  /\ g.claimed = c.claimed /\ g.published = c.published
                                /\ g.retried = c.retried /\ g.reconcile = c.reconcile
                                /\ g.terminal = c.terminal /\ g.unreleased = c.unreleased,
           Lost(g) = Lost(k),
           Cardinality(g.todo) + AtHand(g) = Cardinality(k.todo) + AtHand(k) - 1
    PROVE  Balanced(g)
  <1> DEFINE c == Recorded(k, d)
  <1>1. /\ c.claimed = k.claimed /\ c.published = k.published /\ c.unreleased = k.unreleased
        /\ c.retried + c.reconcile + c.terminal = k.retried + k.reconcile + k.terminal + 1
    BY RecordedCounts, RecordedFrame
  <1>2. /\ k.claimed \in Nat /\ k.published \in Nat /\ k.retried \in Nat
        /\ k.reconcile \in Nat /\ k.terminal \in Nat /\ k.unreleased \in Nat
        /\ AtHand(k) \in Nat /\ Lost(k) \in Nat /\ Cardinality(k.todo) \in Nat
    BY CountsTyped, BatchFinite, SMTT(30)
  <1>3. /\ g.retried \in Nat /\ g.reconcile \in Nat /\ g.terminal \in Nat
        /\ AtHand(g) \in Nat /\ Cardinality(g.todo) \in Nat
    BY CountsTyped, BatchFinite
  <1>4. /\ g.claimed = k.claimed /\ g.published = k.published /\ g.unreleased = k.unreleased
        /\ g.retried + g.reconcile + g.terminal = k.retried + k.reconcile + k.terminal + 1
    BY <1>1
  <1> HIDE DEF c
  <1>5. k.claimed = Cardinality(k.todo) + AtHand(k) + k.published + k.retried
                    + k.reconcile + k.terminal + k.unreleased + Lost(k)
    BY DEF Balanced
  <1>6. g.claimed = Cardinality(g.todo) + AtHand(g) + g.published + g.retried
                    + g.reconcile + g.terminal + g.unreleased + Lost(g)
    BY <1>2, <1>3, <1>4, <1>5
  <1> QED
    BY <1>6 DEF Balanced

\* One run moves to a balanced report.
LEMMA RunBalances ==
    ASSUME IInv, ReportBalances, NEW r \in Relays, NEW k, Balanced(k),
           relay' = [relay EXCEPT ![r] = k]
    PROVE  ReportBalances'
  <1>1. relay'[r] = k /\ \A q \in Relays : q # r => relay'[q] = relay[q]
    BY DEF IInv, TypeOK
  <1>2. \A q \in Relays : Balanced(relay[q])
    BY DEF ReportBalances, Balanced
  <1>3. \A q \in Relays : Balanced(relay'[q])
    BY <1>1, <1>2
  <1> QED
    BY <1>3 DEF ReportBalances, Balanced

\* An empty report balances.
LEMMA BalancedNoRun == Balanced(NoRun)
  BY BatchFinite DEF Balanced, NoRun, AtHand, Lost

\* A run starts with everything to do.
LEMMA StartsBalance ==
    ASSUME IInv, ReportBalances, NEW r \in Relays, ClaimPending(r) \/ ClaimFails(r)
    PROVE  ReportBalances'
  <1>1. CASE ClaimPending(r)
    <2> DEFINE k == [NoRun EXCEPT !.pc = "next", !.todo = Batch, !.claimed = Cardinality(Batch)]
    <2>1. Batch \in SUBSET Entries
      BY DEF Batch, InState
    <2>2. Cardinality(Batch) \in Nat
      BY <2>1, BatchFinite
    <2>3. k \in Relay
      BY <2>1, <2>2, NoRunShaped DEF Relay
    <2>4. /\ k.todo = Batch /\ k.claimed = Cardinality(Batch) /\ k.current = 0
          /\ k.published = 0 /\ k.retried = 0 /\ k.reconcile = 0 /\ k.terminal = 0
          /\ k.unreleased = 0 /\ k.result = "None"
      BY <2>3 DEF NoRun
    <2>5. relay' = [relay EXCEPT ![r] = k]
      BY <1>1 DEF ClaimPending, MarkClaimed, Put
    <2> HIDE DEF k
    <2>6. AtHand(k) = 0 /\ Lost(k) = 0
      BY <2>4 DEF AtHand, Lost
    <2>7. Balanced(k)
      BY <2>2, <2>4, <2>6 DEF Balanced
    <2> QED
      BY <2>5, <2>7, RunBalances
  <1>2. CASE ClaimFails(r)
    <2> DEFINE k == [NoRun EXCEPT !.result = "Store"]
    <2>1. Balanced(k)
      BY BatchFinite DEF Balanced, NoRun, AtHand, Lost
    <2> QED
      BY <1>2, <2>1, RunBalances DEF ClaimFails, Put
  <1> QED
    BY <1>1, <1>2

\* A step that moves one entry of the run from one place of the report to
\* another, or none.
LEMMA ShiftBalances ==
    ASSUME IInv, ReportBalances, NEW r \in Relays, NEW k \in Relay,
           relay' = [relay EXCEPT ![r] = k],
           k.claimed = relay[r].claimed, k.retried = relay[r].retried,
           k.reconcile = relay[r].reconcile, k.terminal = relay[r].terminal,
           Cardinality(k.todo) + AtHand(k) + k.published + k.unreleased + Lost(k)
             = Cardinality(relay[r].todo) + AtHand(relay[r]) + relay[r].published
               + relay[r].unreleased + Lost(relay[r])
    PROVE  ReportBalances'
  <1> DEFINE old == relay[r]
  <1>1. old \in Relay
    BY RunTyped
  <1>2. /\ old.claimed \in Nat /\ old.published \in Nat /\ old.retried \in Nat
        /\ old.reconcile \in Nat /\ old.terminal \in Nat /\ old.unreleased \in Nat
        /\ AtHand(old) \in Nat /\ Lost(old) \in Nat /\ Cardinality(old.todo) \in Nat
    BY <1>1, CountsTyped, BatchFinite
  <1>3. /\ k.published \in Nat /\ k.unreleased \in Nat
        /\ AtHand(k) \in Nat /\ Lost(k) \in Nat /\ Cardinality(k.todo) \in Nat
    BY CountsTyped, BatchFinite
  <1>4. old.claimed = Cardinality(old.todo) + AtHand(old) + old.published + old.retried
                      + old.reconcile + old.terminal + old.unreleased + Lost(old)
    BY DEF ReportBalances
  <1> DEFINE there == Cardinality(k.todo) + AtHand(k) + k.published + k.unreleased + Lost(k)
             here == Cardinality(old.todo) + AtHand(old) + old.published + old.unreleased + Lost(old)
             kept == old.retried + old.reconcile + old.terminal
  <1>5. there = here /\ kept = k.retried + k.reconcile + k.terminal
    OBVIOUS
  <1>6. old.claimed = here + kept
    BY <1>2, <1>4
  <1>7. k.retried \in Nat /\ k.reconcile \in Nat /\ k.terminal \in Nat
    BY CountsTyped
  <1>8. there + kept = Cardinality(k.todo) + AtHand(k) + k.published + k.retried
                       + k.reconcile + k.terminal + k.unreleased + Lost(k)
    BY <1>3, <1>5, <1>7
  <1> HIDE DEF there, here, kept
  <1>9. k.claimed = Cardinality(k.todo) + AtHand(k) + k.published + k.retried
                    + k.reconcile + k.terminal + k.unreleased + Lost(k)
    BY <1>5, <1>6, <1>8
  <1>10. Balanced(k)
    BY <1>9 DEF Balanced
  <1> QED
    BY <1>10, RunBalances

\* Returning changes no count.
LEMMA EndsBalance ==
    ASSUME IInv, ReportBalances, NEW r \in Relays, RunEnds(r) \/ RunFails(r)
    PROVE  ReportBalances'
  <1> DEFINE old == relay[r]
             ended == [old EXCEPT !.pc = "idle", !.result = "Ok"]
             failed == [old EXCEPT !.pc = "idle"]
  <1>1. old \in Relay /\ Shaped(old)
    BY RunTyped
  <1>2. CASE RunEnds(r)
    <2>1. ended \in Relay /\ relay' = [relay EXCEPT ![r] = ended]
      BY <1>1, <1>2 DEF Relay, RunEnds, Put
    <2>2. old.result = "None"
      BY <1>1, <1>2 DEF RunEnds, At, Shaped
    <2>3. /\ ended.claimed = old.claimed /\ ended.retried = old.retried
          /\ ended.reconcile = old.reconcile /\ ended.terminal = old.terminal
          /\ ended.todo = old.todo /\ ended.current = old.current
          /\ ended.published = old.published /\ ended.unreleased = old.unreleased
          /\ ended.result = "Ok"
      BY <1>1 DEF Relay
    <2> HIDE DEF ended
    <2>4. AtHand(ended) = AtHand(old) /\ Lost(ended) = Lost(old)
      BY <2>2, <2>3 DEF AtHand, Lost
    <2> QED
      BY <2>1, <2>3, <2>4, ShiftBalances
  <1>3. CASE RunFails(r)
    <2>1. failed \in Relay /\ relay' = [relay EXCEPT ![r] = failed]
      BY <1>1, <1>3 DEF Relay, RunFails, Put
    <2>2. /\ failed.claimed = old.claimed /\ failed.retried = old.retried
          /\ failed.reconcile = old.reconcile /\ failed.terminal = old.terminal
          /\ failed.todo = old.todo /\ failed.current = old.current
          /\ failed.published = old.published /\ failed.unreleased = old.unreleased
          /\ failed.result = old.result
      BY <1>1 DEF Relay
    <2> HIDE DEF failed
    <2>3. AtHand(failed) = AtHand(old) /\ Lost(failed) = Lost(old)
      BY <2>2 DEF AtHand, Lost
    <2> QED
      BY <2>1, <2>2, <2>3, ShiftBalances
  <1> QED
    BY <1>2, <1>3

\* The entry to do becomes the entry at hand.
LEMMA PublishBalances ==
    ASSUME IInv, ReportBalances, NEW r \in Relays,
           NEW outcome \in {"confirmed", "unknown", "erred"},
           NEW takes \in BOOLEAN, Publish(r, outcome, takes)
    PROVE  ReportBalances'
  <1> DEFINE old == relay[r]
  <1>1. old \in Relay /\ Shaped(old)
    BY RunTyped
  <1>2. old.pc = "next" /\ old.current = 0 /\ old.result = "None"
    BY <1>1 DEF Publish, At, Shaped
  <1>3. PICK e \in old.todo : e = First(old.todo)
    BY <1>1, FirstIn DEF Publish, Relay
  <1> DEFINE k == [old EXCEPT !.pc = outcome, !.todo = @ \ {e}, !.current = e]
  <1>4. relay' = [relay EXCEPT ![r] = k]
    BY <1>3 DEF Publish, Put
  <1>5. e \in 0..MaxEntries /\ e # 0
    BY <1>1, <1>3, BoundsAssumption DEF Relay, Entries
  <1>6. k \in Relay
    BY <1>1, <1>5 DEF Relay
  <1>7. /\ k.claimed = old.claimed /\ k.retried = old.retried /\ k.reconcile = old.reconcile
        /\ k.terminal = old.terminal /\ k.published = old.published
        /\ k.unreleased = old.unreleased /\ k.result = old.result
        /\ k.current = e /\ k.todo = old.todo \ {e}
    BY <1>1 DEF Relay
  <1> HIDE DEF k
  <1>8. AtHand(k) = 1 /\ AtHand(old) = 0 /\ Lost(k) = 0 /\ Lost(old) = 0
    BY <1>2, <1>5, <1>7 DEF AtHand, Lost
  <1>9. old.todo \in SUBSET Entries
    BY <1>1 DEF Relay
  <1>10. Cardinality(k.todo) = Cardinality(old.todo) - 1 /\ Cardinality(old.todo) \in Nat
    BY <1>3, <1>7, <1>9, BatchFinite
  <1>11. old.published \in Nat /\ old.unreleased \in Nat
    BY <1>1 DEF Relay
  <1>12. Cardinality(k.todo) + AtHand(k) + k.published + k.unreleased + Lost(k)
         = Cardinality(old.todo) + AtHand(old) + old.published + old.unreleased + Lost(old)
    BY <1>7, <1>8, <1>10, <1>11
  <1> QED
    BY <1>4, <1>6, <1>7, <1>12, ShiftBalances

\* The entry at hand becomes a published one.
LEMMA MarkPublishedBalances ==
    ASSUME IInv, ReportBalances, NEW r \in Relays, MarkPublished(r)
    PROVE  ReportBalances'
  <1> DEFINE old == relay[r]
             k == [old EXCEPT !.pc = "next", !.current = 0, !.published = @ + 1]
  <1>1. old \in Relay /\ Shaped(old)
    BY RunTyped
  <1>2. old.pc = "confirmed" /\ old.current # 0
    BY <1>1 DEF MarkPublished, At, Shaped
  <1>3. old.published \in Nat /\ old.unreleased \in Nat /\ old.todo \in SUBSET Entries
    BY <1>1 DEF Relay
  <1>4. k \in Relay
    <2>1. old.published + 1 \in Nat
      BY <1>3
    <2> QED
      BY <1>1, <2>1, NoEntry DEF Relay
  <1>5. relay' = [relay EXCEPT ![r] = k]
    BY DEF MarkPublished, Put
  <1>6. /\ k.claimed = old.claimed /\ k.retried = old.retried /\ k.reconcile = old.reconcile
        /\ k.terminal = old.terminal /\ k.published = old.published + 1
        /\ k.unreleased = old.unreleased /\ k.result = old.result
        /\ k.current = 0 /\ k.todo = old.todo
    BY <1>1 DEF Relay
  <1> HIDE DEF k
  <1>7. AtHand(k) = 0 /\ AtHand(old) = 1 /\ Lost(k) = Lost(old)
    BY <1>2, <1>6 DEF AtHand, Lost
  <1>8. Lost(old) \in Nat /\ Cardinality(old.todo) \in Nat
    BY <1>1, <1>3, CountsTyped, BatchFinite
  <1>9. Cardinality(k.todo) = Cardinality(old.todo)
    BY <1>6
  <1>10. Cardinality(k.todo) + AtHand(k) + k.published + k.unreleased + Lost(k)
         = Cardinality(old.todo) + AtHand(old) + old.published + old.unreleased + Lost(old)
    BY <1>3, <1>6, <1>7, <1>8, <1>9
  <1> QED
    BY <1>4, <1>5, <1>6, <1>10, ShiftBalances

\* The entry whose marking failed is lost to the report: the run claimed it, and
\* its result says so.
LEMMA MarkingFailsBalances ==
    ASSUME IInv, ReportBalances, NEW r \in Relays, MarkingFails(r)
    PROVE  ReportBalances'
  <1> DEFINE old == relay[r]
             result == IF old.pc = "erred" THEN "PublishAndStore" ELSE "Store"
             k == Leave(old, result)
  <1>1. old \in Relay /\ Shaped(old)
    BY RunTyped
  <1>2. old.current # 0 /\ old.result = "None"
    BY <1>1 DEF MarkingFails, Shaped
  <1>3. k \in Relay /\ k.current = 0 /\ k.todo = old.todo /\ k.result = result
    BY <1>1, RunLeaves
  <1>4. relay' = [relay EXCEPT ![r] = k]
    BY DEF MarkingFails, Put
  <1>5. /\ k.claimed = old.claimed /\ k.retried = old.retried /\ k.reconcile = old.reconcile
        /\ k.terminal = old.terminal /\ k.published = old.published
        /\ k.unreleased = old.unreleased
    BY <1>1 DEF Relay, Leave
  <1>6. k.result \in {"Store", "PublishAndStore"}
    BY <1>3
  <1> HIDE DEF k
  <1>7. AtHand(k) = 0 /\ AtHand(old) = 1 /\ Lost(old) = 0
    BY <1>2, <1>3 DEF AtHand, Lost
  <1>8. /\ old.claimed \in Nat /\ old.published \in Nat /\ old.retried \in Nat
        /\ old.reconcile \in Nat /\ old.terminal \in Nat /\ old.unreleased \in Nat
        /\ Cardinality(old.todo) \in Nat
    BY <1>1, CountsTyped, BatchFinite
  <1>9. old.claimed > 0
    <2>1. old.claimed = Cardinality(old.todo) + AtHand(old) + old.published + old.retried
                        + old.reconcile + old.terminal + old.unreleased + Lost(old)
      BY DEF ReportBalances
    <2> QED
      BY <2>1, <1>7, <1>8
  <1>10. Lost(k) = 1
    BY <1>5, <1>6, <1>9 DEF Lost
  <1>11. Cardinality(k.todo) = Cardinality(old.todo)
    BY <1>3
  <1>12. Cardinality(k.todo) + AtHand(k) + k.published + k.unreleased + Lost(k)
         = Cardinality(old.todo) + AtHand(old) + old.published + old.unreleased + Lost(old)
    BY <1>5, <1>7, <1>8, <1>10, <1>11
  <1> QED
    BY <1>3, <1>4, <1>5, <1>12, ShiftBalances

\* An entry to do becomes an unreleased one.
LEMMA ReleaseFailsBalances ==
    ASSUME IInv, ReportBalances, NEW r \in Relays, ReleaseFails(r)
    PROVE  ReportBalances'
  <1> DEFINE old == relay[r]
  <1>1. old \in Relay
    BY RunTyped
  <1>2. PICK e \in old.todo : e = First(old.todo)
    BY <1>1, FirstIn DEF ReleaseFails, Relay
  <1> DEFINE k == [old EXCEPT !.todo = @ \ {e}, !.unreleased = @ + 1]
  <1>3. relay' = [relay EXCEPT ![r] = k]
    BY <1>2 DEF ReleaseFails, Put
  <1>4. old.published \in Nat /\ old.unreleased \in Nat /\ old.todo \in SUBSET Entries
    BY <1>1 DEF Relay
  <1>5. k \in Relay
    <2>1. old.unreleased + 1 \in Nat
      BY <1>4
    <2> QED
      BY <1>1, <2>1 DEF Relay
  <1>6. /\ k.claimed = old.claimed /\ k.retried = old.retried /\ k.reconcile = old.reconcile
        /\ k.terminal = old.terminal /\ k.published = old.published
        /\ k.unreleased = old.unreleased + 1 /\ k.result = old.result
        /\ k.current = old.current /\ k.todo = old.todo \ {e}
    BY <1>1 DEF Relay
  <1> HIDE DEF k
  <1>7. AtHand(k) = AtHand(old) /\ Lost(k) = Lost(old)
    BY <1>6 DEF AtHand, Lost
  <1>8. AtHand(old) \in Nat /\ Lost(old) \in Nat /\ Cardinality(old.todo) \in Nat
    BY <1>1, <1>4, CountsTyped, BatchFinite
  <1>9. Cardinality(k.todo) = Cardinality(old.todo) - 1
    BY <1>2, <1>4, <1>6, BatchFinite
  <1>10. Cardinality(k.todo) + AtHand(k) + k.published + k.unreleased + Lost(k)
         = Cardinality(old.todo) + AtHand(old) + old.published + old.unreleased + Lost(old)
    BY <1>4, <1>6, <1>7, <1>8, <1>9
  <1> QED
    BY <1>3, <1>5, <1>6, <1>10, ShiftBalances

\* The marking of a failure, and the release of an entry not attempted.
LEMMA RecordsBalance ==
    ASSUME IInv, ReportBalances, NEW r \in Relays,
           MarkUnknown(r) \/ MarkErred(r) \/ ReleaseOne(r)
    PROVE  ReportBalances'
  <1> DEFINE old == relay[r]
  <1>1. old \in Relay /\ Shaped(old) /\ Balanced(old)
    BY RunTyped DEF ReportBalances, Balanced
  <1>2. AtHand(old) \in Nat /\ Cardinality(old.todo) \in Nat /\ old.todo \in SUBSET Entries
    BY <1>1, CountsTyped, BatchFinite
  <1>3. CASE MarkUnknown(r)
    <2>1. old.current # 0
      BY <1>1, <1>3 DEF MarkUnknown, At, Shaped
    <2>2. PICK c \in Relay : c = Recorded(old, OutcomeUnknown)
      BY <1>1, PolicyAssumption, RecordedFrame
    <2> DEFINE k == [c EXCEPT !.pc = "next", !.current = 0]
    <2>3. c.todo = old.todo /\ c.result = old.result /\ c.claimed = old.claimed
      BY <1>1, <2>2, PolicyAssumption, RecordedFrame
    <2>4. relay' = [relay EXCEPT ![r] = k]
      BY <1>3, <2>2 DEF MarkUnknown, Put
    <2>5. k \in Relay /\ k.current = 0 /\ k.todo = old.todo /\ k.result = old.result
      BY <2>3, RunGoesOn
    <2>6. /\ k.claimed = c.claimed /\ k.published = c.published /\ k.retried = c.retried
          /\ k.reconcile = c.reconcile /\ k.terminal = c.terminal /\ k.unreleased = c.unreleased
      BY DEF Relay
    <2> HIDE DEF k
    <2>7. AtHand(k) = 0 /\ AtHand(old) = 1 /\ Lost(k) = Lost(old)
      BY <2>1, <2>3, <2>5, <2>6 DEF AtHand, Lost
    <2>8. Cardinality(k.todo) + AtHand(k) = Cardinality(old.todo) + AtHand(old) - 1
      BY <1>2, <2>5, <2>7
    <2>9. Balanced(k)
      BY <1>1, <2>2, <2>5, <2>6, <2>7, <2>8, PolicyAssumption, RecordedBalances
    <2> QED
      BY <2>4, <2>9, RunBalances
  <1>4. CASE MarkErred(r)
    <2>1. old.current # 0 /\ old.result = "None"
      BY <1>1, <1>4 DEF MarkErred, At, Shaped
    <2>2. PICK c \in Relay : c = Recorded(old, ProducerError)
      BY <1>1, PolicyAssumption, RecordedFrame
    <2> DEFINE k == Leave(c, "Publish")
    <2>3. c.todo = old.todo
      BY <1>1, <2>2, PolicyAssumption, RecordedFrame
    <2>4. relay' = [relay EXCEPT ![r] = k]
      BY <1>4, <2>2 DEF MarkErred, Put
    <2>5. k \in Relay /\ k.current = 0 /\ k.todo = old.todo /\ k.result = "Publish"
      BY <2>3, RunLeaves
    <2>6. /\ k.claimed = c.claimed /\ k.published = c.published /\ k.retried = c.retried
          /\ k.reconcile = c.reconcile /\ k.terminal = c.terminal /\ k.unreleased = c.unreleased
      BY DEF Relay, Leave
    <2> HIDE DEF k
    <2>7. AtHand(k) = 0 /\ AtHand(old) = 1 /\ Lost(k) = 0 /\ Lost(old) = 0
      BY <2>1, <2>5 DEF AtHand, Lost
    <2>8. Cardinality(k.todo) + AtHand(k) = Cardinality(old.todo) + AtHand(old) - 1
      BY <1>2, <2>5, <2>7
    <2>9. Balanced(k)
      BY <1>1, <2>2, <2>5, <2>6, <2>7, <2>8, PolicyAssumption, RecordedBalances
    <2> QED
      BY <2>4, <2>9, RunBalances
  <1>5. CASE ReleaseOne(r)
    <2>1. PICK e \in old.todo : e = First(old.todo)
      BY <1>1, <1>5, FirstIn DEF ReleaseOne, Relay
    <2>2. PICK c \in Relay : c = Recorded(old, "Retry")
      BY <1>1, RecordedFrame
    <2> DEFINE k == [c EXCEPT !.todo = @ \ {e}]
    <2>3. /\ c.todo = old.todo /\ c.result = old.result /\ c.claimed = old.claimed
          /\ c.current = old.current
      BY <1>1, <2>2, RecordedFrame
    <2>4. relay' = [relay EXCEPT ![r] = k]
      BY <1>5, <2>1, <2>2 DEF ReleaseOne, Put
    <2>5. /\ k \in Relay /\ k.current = old.current /\ k.todo = old.todo \ {e}
          /\ k.result = old.result
      BY <2>3, RunReleases
    <2>6. /\ k.claimed = c.claimed /\ k.published = c.published /\ k.retried = c.retried
          /\ k.reconcile = c.reconcile /\ k.terminal = c.terminal /\ k.unreleased = c.unreleased
      BY DEF Relay
    <2> HIDE DEF k
    <2>7. AtHand(k) = AtHand(old) /\ Lost(k) = Lost(old)
      BY <2>3, <2>5, <2>6 DEF AtHand, Lost
    <2>8. Cardinality(k.todo) = Cardinality(old.todo) - 1
      BY <1>2, <2>1, <2>5, BatchFinite
    <2>9. Cardinality(k.todo) + AtHand(k) = Cardinality(old.todo) + AtHand(old) - 1
      BY <1>2, <2>7, <2>8
    <2>10. Balanced(k)
      BY <1>1, <2>2, <2>5, <2>6, <2>7, <2>9, RecordedBalances
    <2> QED
      BY <2>4, <2>10, RunBalances
  <1> QED
    BY <1>3, <1>4, <1>5

\* Idle relays have empty reports.
LEMMA BalanceInit == Init => ReportBalances
  BY BalancedNoRun DEF Init, ReportBalances, Balanced

\* Every step keeps every report balanced.
LEMMA BalanceNext == IInv /\ ReportBalances /\ [Next]_vars => ReportBalances'
  <1> SUFFICES ASSUME IInv, ReportBalances, [Next]_vars PROVE ReportBalances'
    OBVIOUS
  <1>1. CASE UNCHANGED relay
    BY <1>1 DEF ReportBalances, AtHand, Lost
  <1>2. ASSUME NEW r \in Relays, RunStep(r) PROVE ReportBalances'
    <2>1. CASE \E outcome \in {"confirmed", "unknown", "erred"}, takes \in BOOLEAN :
                   Publish(r, outcome, takes)
      BY <2>1, PublishBalances
    <2> QED
      BY <1>2, <2>1, StartsBalance, EndsBalance, MarkPublishedBalances, RecordsBalance,
         MarkingFailsBalances, ReleaseFailsBalances DEF RunStep
  <1>3. ASSUME NEW r \in Relays, DropRun(r) PROVE ReportBalances'
    BY <1>3, BalancedNoRun, RunBalances DEF DropRun, Put
  <1>4. ASSUME Insert \/ (\E e \in Entries : Recover(e)) PROVE UNCHANGED relay
    BY <1>4 DEF Insert, Recover
  <1>5. (UNCHANGED vars) => UNCHANGED relay
    BY DEF vars
  <1> QED
    BY <1>1, <1>2, <1>3, <1>4, <1>5 DEF Next

----------------------------------------------------------------------------
(* What the runs check, for every value of the constants.                   *)

\* The inductive invariant behind the results below.
THEOREM OutboxInductive == Spec => []IInv
  BY IInvInit, IInvNext, PTL DEF Spec

\* Every field keeps its type: the injected failures are used up once each.
THEOREM OutboxTypeOK == Spec => []TypeOK
  <1>1. IInv => TypeOK
    BY DEF IInv
  <1> QED
    BY <1>1, OutboxInductive, PTL

\* However many relays claim, fail and are dropped, no two runs hold an entry,
\* and the store has what they hold as claimed.
THEOREM OutboxExclusive == Spec => []ClaimsExclusive
  <1>1. IInv => ClaimsExclusive
    BY DEF IInv
  <1> QED
    BY <1>1, OutboxInductive, PTL

\* An entry is stranded only by a marking or a release that failed, or by a run
\* that was dropped: run_once releases what it did not attempt on every way out.
THEOREM OutboxStranded == Spec => []StrandedForCause
  <1>1. IInv => StrandedForCause
    BY DEF IInv
  <1> QED
    BY <1>1, OutboxInductive, PTL

\* The broker is given an entry once more than its claim was recovered, at most,
\* unless the policy retries unknown outcomes; a published entry was taken.
THEOREM OutboxOncePerRecovery == Spec => []OncePerRecovery
  <1>1. IInv => OncePerRecovery
    BY DEF IInv, OncePerRecovery, Spent, Taken
  <1> QED
    BY <1>1, OutboxInductive, PTL

\* Every claim of a run is in exactly one count of its RelayBatchReport, or is
\* the one the error names.
THEOREM OutboxReport == Spec => []ReportBalances
  BY BalanceInit, BalanceNext, OutboxInductive, PTL DEF Spec
=============================================================================
