------------------------ MODULE BrokerDeliveryProofs ------------------------
(***************************************************************************)
(* Deliveries between the broker and the slots of the runner, for any      *)
(* messages, slots, limits and policies: none is lost or doubled, every    *)
(* attempt is settled once, and what ends a delivery warrants it.          *)
(***************************************************************************)
EXTENDS BrokerDelivery, FiniteSetTheorems, SequenceTheorems, TLAPS

Delivery == [id : Nat, attempt : Nat, delayed : BOOLEAN]
Event == NackReasons \cup {"Acked", "Failed"}
SlotType ==
    [pc : {"idle", "decode", "execute", "handling", "bury", "settle"}, delivery : Delivery,
     failures : Nat, event : Event]
Held(s) == ~Free(slot[s])

Types ==
    /\ catalog \in Seq(Messages) /\ Len(catalog) <= MaxCatalog
    /\ queue \in Seq(Delivery)
    /\ log \in [Ids -> Seq(Event)]
    /\ slot \in [Slots -> SlotType]
    /\ verdict \in [Ids -> Dispositions \cup {"None", "Rejected", "LeaseLost"}]
    /\ admission \in {"Accepting", "Paused", "Draining"}

\* A delivery that is queued or owned is one of a known message, is not done, and
\* carries the attempt that follows those on record.
Live(d) == d.id \in DOMAIN catalog /\ ~Done(d.id) /\ Numbered(d)

\* Where the deliveries are: each one in at most one place, and in one until it is done.
QueueLive == \A i \in DOMAIN queue : Live(queue[i])
SlotsLive == \A s \in Slots : Held(s) => Live(slot[s].delivery)
QueuedOnce == \A i, j \in DOMAIN queue : queue[i].id = queue[j].id => i = j
OwnedOnce ==
    \A s, t \in Slots :
        Held(s) /\ Held(t) /\ slot[s].delivery.id = slot[t].delivery.id => s = t
Apart == \A i \in DOMAIN queue, s \in Slots : Held(s) => queue[i].id # slot[s].delivery.id
Somewhere ==
    \A id \in DOMAIN catalog :
        \/ Done(id)
        \/ \E i \in DOMAIN queue : queue[i].id = id
        \/ \E s \in Slots : Held(s) /\ slot[s].delivery.id = id
Unrecorded == \A id \in Ids \ DOMAIN catalog : log[id] = <<>>
Placed ==
    /\ QueueLive /\ SlotsLive
    /\ QueuedOnce /\ OwnedOnce /\ Apart
    /\ Somewhere /\ Unrecorded

\* An event that ends the delivery of id is warranted.
Warranted(id, event) ==
    /\ event = "Acked" => verdict[id] = "Completed"
    /\ event = "ConsumerRejected" => catalog[id] \in Malformed
    /\ event = "Permanent" =>
           verdict[id] = "DoNotRetry" \/ (verdict[id] = "DeadLetter" /\ id \in buried)

\* What a slot is about to settle is warranted already, and so is what was settled.
Caused ==
    /\ \A s \in Slots : At(s, "settle") => Warranted(slot[s].delivery.id, slot[s].event)
    /\ \A s \in Slots : At(s, "bury") => verdict[slot[s].delivery.id] = "DeadLetter"
    /\ \A id \in DOMAIN catalog : Done(id) => Warranted(id, log[id][Len(log[id])])

IInv == Types /\ Placed /\ Caused
----------------------------------------------------------------------------
(* The operators.                                                           *)

\* A sequence without one of its elements.
LEMMA ElementRemoved ==
    ASSUME NEW S, NEW q \in Seq(S), NEW i \in DOMAIN q
    PROVE  /\ RemoveAt(q, i) \in Seq(S)
           /\ Len(RemoveAt(q, i)) = Len(q) - 1
           /\ \A j \in 1..(Len(q) - 1) : RemoveAt(q, i)[j] = IF j < i THEN q[j] ELSE q[j + 1]
  <1> DEFINE front == SubSeq(q, 1, i - 1)
             back == SubSeq(q, i + 1, Len(q))
  <1>1. i \in 1..Len(q) /\ Len(q) \in Nat /\ i - 1 \in Nat /\ i + 1 \in Nat
    OBVIOUS
  <1>2. /\ front \in Seq(S) /\ Len(front) = i - 1
        /\ \A j \in 1..(i - 1) : front[j] = q[j]
    <2>1. \A j \in 1..(i - 1) : q[j] \in S
      BY <1>1
    <2>2. /\ front \in Seq(S)
          /\ Len(front) = IF 1 <= i - 1 THEN (i - 1) - 1 + 1 ELSE 0
          /\ \A j \in 1..((i - 1) - 1 + 1) : front[j] = q[1 + j - 1]
      BY <1>1, <2>1, SubSeqProperties
    <2> QED
      BY <1>1, <2>2
  <1>3. /\ back \in Seq(S) /\ Len(back) = Len(q) - i
        /\ \A j \in 1..(Len(q) - i) : back[j] = q[i + j]
    <2>1. \A j \in (i + 1)..Len(q) : q[j] \in S
      BY <1>1
    <2>2. /\ back \in Seq(S)
          /\ Len(back) = IF i + 1 <= Len(q) THEN Len(q) - (i + 1) + 1 ELSE 0
          /\ \A j \in 1..(Len(q) - (i + 1) + 1) : back[j] = q[(i + 1) + j - 1]
      BY <1>1, <2>1, SubSeqProperties
    <2> QED
      BY <1>1, <2>2
  <1> DEFINE r == front \o back
  <1>4. RemoveAt(q, i) = r
    BY DEF RemoveAt
  <1> HIDE DEF front, back
  <1>5. /\ r \in Seq(S)
        /\ Len(r) = Len(front) + Len(back)
        /\ \A j \in 1..(Len(front) + Len(back)) :
               r[j] = IF j <= Len(front) THEN front[j] ELSE back[j - Len(front)]
    BY <1>2, <1>3, ConcatProperties
  <1> HIDE DEF r
  <1>6. PICK n \in Nat : n = Len(q) /\ i \in 1..n
    BY <1>1
  <1>7. /\ Len(front) = i - 1 /\ Len(back) = n - i /\ Len(front) + Len(back) = n - 1
    <2>1. Len(front) = i - 1 /\ Len(back) = n - i
      BY <1>2, <1>3, <1>6
    <2> QED
      BY <1>6, <2>1
  <1>8. ASSUME NEW j \in 1..(n - 1)
        PROVE  r[j] = IF j < i THEN q[j] ELSE q[j + 1]
    <2>1. r[j] = IF j <= i - 1 THEN front[j] ELSE back[j - (i - 1)]
      BY <1>5, <1>7
    <2>2. CASE j < i
      BY <1>2, <1>6, <2>1, <2>2
    <2>3. CASE ~(j < i)
      <3>1. j - (i - 1) \in 1..(n - i) /\ i + (j - (i - 1)) = j + 1 /\ ~(j <= i - 1)
        BY <1>6, <2>3
      <3>2. back[j - (i - 1)] = q[j + 1]
        BY <1>3, <1>6, <3>1
      <3> QED
        BY <2>1, <2>3, <3>1, <3>2
    <2> QED
      BY <2>2, <2>3
  <1> QED
    BY <1>4, <1>5, <1>6, <1>7, <1>8

\* What disposition_for answers, whatever the handler and the retry policy do.
LEMMA Disposed ==
    ASSUME NEW result \in Results \cup {"Paused", "Draining", "ShutdownRequested"}, NEW attempt
    PROVE  Disposition(result, attempt) \in Dispositions
  <1>1. DecideClass(Backoff, attempt, 0, result, 0).verdict
            \in {"DoNotRetry", "DeadLetter", "RetryAfter"}
    <2>1. DoNotRetry.verdict = "DoNotRetry" /\ ToDeadLetter.verdict = "DeadLetter"
          /\ \A delay : RetryAfter(delay).verdict = "RetryAfter"
      BY DEF DoNotRetry, ToDeadLetter, RetryAfter
    <2>2. \/ DecideClass(Backoff, attempt, 0, result, 0) = DoNotRetry
          \/ DecideClass(Backoff, attempt, 0, result, 0) = ToDeadLetter
          \/ \E delay : DecideClass(Backoff, attempt, 0, result, 0) = RetryAfter(delay)
      BY DEF DecideClass, Exhausted
    <2> QED
      BY <2>1, <2>2
  <1> QED
    BY <1>1, ResultsAssumption, DecisionAssumption DEF Disposition, Dispositions

\* The identifiers of known messages.
LEMMA KnownIds == Types => DOMAIN catalog \subseteq Ids /\ DOMAIN catalog = 1..Len(catalog)
  BY LimitsAssumption DEF Types, Ids

----------------------------------------------------------------------------
(* What moves a delivery, and what does not.                                *)

Again(d) == [d EXCEPT !.attempt = @ + 1, !.delayed = FALSE]

LEMMA AgainType ==
    ASSUME NEW d \in Delivery
    PROVE  Again(d) \in Delivery /\ Again(d).id = d.id /\ Again(d).attempt = d.attempt + 1
  <1>1. PICK n \in Nat : n = d.attempt + 1
    BY DEF Delivery
  <1>2. Again(d) = [d EXCEPT !.attempt = n, !.delayed = FALSE]
    BY <1>1 DEF Again
  <1> QED
    BY <1>1, <1>2 DEF Delivery

LEMMA IdleType == Idle \in SlotType /\ Free(Idle) /\ Idle.pc = "idle"
  <1>1. Idle.delivery \in Delivery
    BY DEF Idle, Delivery
  <1> QED
    BY <1>1 DEF Idle, SlotType, Event, NackReasons, Free

\* Each part of the invariant depends on its own variables.
LEMMA BrokerFrames ==
    /\ Types /\ UNCHANGED <<catalog, queue, log, slot, verdict, admission>> => Types'
    /\ Placed /\ UNCHANGED <<catalog, queue, log, slot>> => Placed'
    /\ Caused /\ UNCHANGED <<catalog, log, slot, verdict, buried>> => Caused'
  <1>1. Types /\ UNCHANGED <<catalog, queue, log, slot, verdict, admission>> => Types'
    BY DEF Types
  <1>2. Placed /\ UNCHANGED <<catalog, queue, log, slot>> => Placed'
    BY
       DEF Placed, QueueLive, SlotsLive, QueuedOnce, OwnedOnce, Apart, Somewhere, Unrecorded, Live, Held, Done, Numbered
  <1>3. Caused /\ UNCHANGED <<catalog, log, slot, verdict, buried>> => Caused'
    BY DEF Caused, Warranted, At, Done
  <1> QED
    BY <1>1, <1>2, <1>3

\* A slot keeps its delivery, and decides something about it alone: the other
\* deliveries keep their cause, and the slot's own is not done.
LEMMA SlotMoves ==
    ASSUME IInv, NEW s \in Slots, NEW k \in SlotType, Held(s), NEW x, x = slot[s].delivery.id,
           ~Free(k), k.delivery = slot[s].delivery,
           slot' = [slot EXCEPT ![s] = k],
           UNCHANGED <<catalog, queue, log, admission>>,
           verdict' \in [Ids -> Dispositions \cup {"None", "Rejected", "LeaseLost"}],
           \A id \in Ids : id # x => verdict'[id] = verdict[id],
           buried \subseteq buried',
           k.pc = "settle" => Warranted(x, k.event)',
           k.pc = "bury" => verdict'[x] = "DeadLetter"
    PROVE  IInv'
  <1>1. Types /\ Placed /\ Caused
    BY DEF IInv
  <1>2. /\ slot' \in [Slots -> SlotType] /\ slot'[s] = k
        /\ \A t \in Slots : t # s => slot'[t] = slot[t]
    BY <1>1 DEF Types
  <1>3. \A t \in Slots : (Held(t)' <=> Held(t)) /\ slot'[t].delivery = slot[t].delivery
    BY <1>2 DEF Held
  <1>4. Types'
    BY <1>1, <1>2 DEF Types
  <1>5. Placed'
    BY <1>1, <1>3
       DEF Placed, QueueLive, SlotsLive, QueuedOnce, OwnedOnce, Apart, Somewhere, Unrecorded, Live, Done, Numbered
  <1>6. DOMAIN catalog \subseteq Ids
    BY <1>1, KnownIds
  <1>7. \A id \in DOMAIN catalog : \A event : id # x /\ Warranted(id, event) => Warranted(id, event)'
    BY <1>6 DEF Warranted
  <1>8. ASSUME NEW t \in Slots
        PROVE  /\ At(t, "settle")' => Warranted(slot[t].delivery.id, slot[t].event)'
               /\ At(t, "bury")' => verdict'[slot'[t].delivery.id] = "DeadLetter"
    <2>1. CASE t = s
      BY <1>2, <2>1 DEF At, Warranted
    <2>2. CASE t # s /\ ~Held(t)
      BY <1>2, <2>2 DEF At, Held, Free
    <2>3. CASE t # s /\ Held(t)
      <3>1. PICK y, event : y = slot[t].delivery.id /\ event = slot[t].event
        OBVIOUS
      <3>2. y # x /\ y \in DOMAIN catalog
        BY <1>1, <2>3, <3>1 DEF Placed, SlotsLive, OwnedOnce, Live
      <3>3. slot'[t] = slot[t] /\ (At(t, "settle")' <=> At(t, "settle"))
            /\ (At(t, "bury")' <=> At(t, "bury"))
        BY <1>2, <2>3 DEF At
      <3>4. (At(t, "settle") => Warranted(y, event)) /\ (At(t, "bury") => verdict[y] = "DeadLetter")
        BY <1>1, <3>1 DEF Caused
      <3>5. (At(t, "settle") => Warranted(y, event)') /\ (At(t, "bury") => verdict'[y] = "DeadLetter")
        BY <1>6, <1>7, <3>2, <3>4
      <3>6. y = slot'[t].delivery.id /\ event = slot'[t].event
        BY <3>1, <3>3
      <3> QED
        BY <3>3, <3>5, <3>6
    <2> QED
      BY <2>1, <2>2, <2>3
  <1>9. \A id \in DOMAIN catalog : Done(id) => id # x
    BY <1>1 DEF Placed, SlotsLive, Live
  <1>10. Caused'
    <2>1. \A id \in DOMAIN catalog : Done(id)' => Warranted(id, log[id][Len(log[id])])'
      <3> SUFFICES ASSUME NEW id \in DOMAIN catalog, Done(id)'
                   PROVE  Warranted(id, log[id][Len(log[id])])'
        OBVIOUS
      <3>1. PICK event : event = log[id][Len(log[id])]
        OBVIOUS
      <3>2. Done(id) /\ Warranted(id, event)
        BY <1>1, <3>1 DEF Caused, Done
      <3>3. Warranted(id, event)'
        BY <1>7, <1>9, <3>2
      <3> QED
        BY <3>1, <3>3
    <2> QED
      BY <1>8, <2>1 DEF Caused
  <1> QED
    BY <1>4, <1>5, <1>10 DEF IInv

\* Slots that settle or bury what they did before, and deliveries that are done for a
\* cause.
LEMMA CausesStay ==
    ASSUME Caused, UNCHANGED <<catalog, verdict, buried>>,
           \A t \in Slots : slot'[t].pc \in {"settle", "bury"} => slot'[t] = slot[t],
           \A id \in DOMAIN catalog : Done(id)' => Warranted(id, log'[id][Len(log'[id])])
    PROVE  Caused'
  <1>1. \A id, event : Warranted(id, event)' <=> Warranted(id, event)
    BY DEF Warranted
  <1>2. \A t \in Slots : slot'[t].pc = "settle" =>
            Warranted(slot'[t].delivery.id, slot'[t].event)
    BY DEF Caused, At
  <1>3. \A t \in Slots : slot'[t].pc = "bury" => verdict'[slot'[t].delivery.id] = "DeadLetter"
    BY DEF Caused, At
  <1> QED
    BY <1>1, <1>2, <1>3 DEF Caused, At

\* A slot lets go of its delivery with something on record for it: either that ends it,
\* and the slot was about to settle it so, or it is queued again.
LEMMA SlotReleases ==
    ASSUME IInv, NEW s \in Slots, Held(s), NEW event \in Event,
           slot' = [slot EXCEPT ![s] = Idle],
           log' = [log EXCEPT ![slot[s].delivery.id] = Append(log[slot[s].delivery.id], event)],
           \/ event \notin Terminal /\ queue' = Append(queue, Again(slot[s].delivery))
           \/ event \in Terminal /\ queue' = queue /\ Warranted(slot[s].delivery.id, event),
           UNCHANGED <<catalog, verdict, buried, admission>>
    PROVE  IInv'
  <1> PICK d, x : d = slot[s].delivery /\ x = slot[s].delivery.id
    OBVIOUS
  <1>1. Types /\ Placed /\ Caused
    BY DEF IInv
  <1>2. /\ slot' \in [Slots -> SlotType] /\ slot'[s] = Idle
        /\ \A t \in Slots : t # s => slot'[t] = slot[t]
    BY <1>1, IdleType DEF Types
  <1>3. ~Held(s)' /\ \A t \in Slots : t # s => (Held(t)' <=> Held(t))
                                               /\ slot'[t].delivery = slot[t].delivery
    BY <1>2, IdleType DEF Held
  <1>4. d \in Delivery /\ x \in DOMAIN catalog /\ ~Done(x) /\ Numbered(d)
    BY <1>1 DEF Types, SlotType, Placed, SlotsLive, Live
  <1>5. x \in Ids /\ log[x] \in Seq(Event) /\ DOMAIN catalog \subseteq Ids
    BY <1>1, <1>4, KnownIds DEF Types
  <1>6. /\ log' \in [Ids -> Seq(Event)]
        /\ log'[x] = Append(log[x], event)
        /\ \A id \in Ids : id # x => log'[id] = log[id]
    BY <1>1, <1>5 DEF Types
  <1>7. /\ Len(log'[x]) = Len(log[x]) + 1 /\ log'[x] # <<>>
        /\ log'[x][Len(log'[x])] = event
    <2>1. PICK before, after : before = log[x] /\ after = log'[x]
      OBVIOUS
    <2>2. before \in Seq(Event) /\ after = Append(before, event)
      BY <1>5, <1>6, <2>1
    <2>3. Len(after) = Len(before) + 1 /\ after # <<>> /\ after[Len(after)] = event
      BY <2>2
    <2> QED
      BY <2>1, <2>3
  <1>8. /\ Done(x)' <=> event \in Terminal
        /\ \A id \in Ids : id # x => (Done(id)' <=> Done(id))
    BY <1>6, <1>7 DEF Done
  <1>9. /\ Again(d) \in Delivery /\ Again(d).id = x /\ Again(d).attempt = d.attempt + 1
    BY <1>4, AgainType
  <1>10. Again(d).attempt = Len(log'[x]) + 1
    BY <1>4, <1>5, <1>7, <1>9 DEF Numbered
  <1>11. \A i \in DOMAIN queue : queue[i] \in Delivery /\ queue[i].id # x
                                 /\ queue[i].id \in DOMAIN catalog
    BY <1>1, <1>4 DEF Types, Placed, QueueLive, Apart, Live
  <1>12. \A t \in Slots : t # s /\ Held(t) => slot[t].delivery.id # x
                                              /\ slot[t].delivery.id \in DOMAIN catalog
    BY <1>1 DEF Placed, SlotsLive, OwnedOnce, Live
  <1>13. \A y : y.id # x /\ Live(y) => Live(y)'
    BY <1>5, <1>6, <1>8 DEF Live, Numbered
  <1>14. \A t \in Slots : Held(t)' => Live(slot[t].delivery)'
    <2> SUFFICES ASSUME NEW t \in Slots, Held(t)'
                 PROVE  Live(slot[t].delivery)'
      OBVIOUS
    <2>1. PICK y : y = slot[t].delivery
      OBVIOUS
    <2>2. y = slot'[t].delivery /\ y.id # x /\ Live(y)
      BY <1>1, <1>3, <1>12, <2>1 DEF Placed, SlotsLive
    <2>3. Live(y)'
      BY <1>13, <2>2
    <2> QED
      BY <2>2, <2>3
  <1>15. \A id \in Ids \ DOMAIN catalog : log'[id] = <<>>
    BY <1>1, <1>4, <1>6 DEF Placed, Unrecorded
  <1>16. CASE event \notin Terminal /\ queue' = Append(queue, Again(d))
    <2>1. queue \in Seq(Delivery)
      BY <1>1 DEF Types
    <2>2. /\ queue' \in Seq(Delivery)
          /\ DOMAIN queue' = DOMAIN queue \cup {Len(queue) + 1}
          /\ Len(queue) + 1 \notin DOMAIN queue
          /\ queue'[Len(queue) + 1] = Again(d)
          /\ \A i \in DOMAIN queue : queue'[i] = queue[i]
      BY <1>9, <1>16, <2>1
    <2>3. \A y : y = Again(d) => Live(y)'
      BY <1>4, <1>8, <1>9, <1>10, <1>16 DEF Live, Numbered
    <2>4. \A i \in DOMAIN queue' : Live(queue[i])'
      <3> SUFFICES ASSUME NEW i \in DOMAIN queue' PROVE Live(queue[i])'
        OBVIOUS
      <3>1. PICK y : y = queue'[i]
        OBVIOUS
      <3>2. y = Again(d) \/ (Live(y) /\ y.id # x)
        BY <1>1, <1>11, <2>2, <3>1 DEF Placed, QueueLive
      <3>3. Live(y)'
        BY <1>13, <2>3, <3>2
      <3> QED
        BY <3>1, <3>3
    <2>5. \A i, j \in DOMAIN queue' : queue'[i].id = queue'[j].id => i = j
      BY <1>1, <1>9, <1>11, <2>2 DEF Placed, QueuedOnce
    <2>6. \A i \in DOMAIN queue', t \in Slots :
              Held(t)' => queue'[i].id # slot'[t].delivery.id
      <3> SUFFICES ASSUME NEW i \in DOMAIN queue', NEW t \in Slots, Held(t)'
                   PROVE  queue'[i].id # slot'[t].delivery.id
        OBVIOUS
      <3>1. t # s /\ Held(t) /\ slot'[t].delivery = slot[t].delivery
        BY <1>3
      <3>2. CASE i \in DOMAIN queue
        BY <1>1, <2>2, <3>1, <3>2 DEF Placed, Apart
      <3>3. CASE i = Len(queue) + 1
        BY <1>9, <1>12, <2>2, <3>1, <3>3
      <3> QED
        BY <2>2, <3>2, <3>3
    <2>7. \A t, u \in Slots :
              Held(t)' /\ Held(u)' /\ slot'[t].delivery.id = slot'[u].delivery.id => t = u
      BY <1>1, <1>3 DEF Placed, OwnedOnce
    <2>8. \A id \in DOMAIN catalog :
              \/ Done(id)'
              \/ \E i \in DOMAIN queue' : queue'[i].id = id
              \/ \E t \in Slots : Held(t)' /\ slot'[t].delivery.id = id
      <3> SUFFICES ASSUME NEW id \in DOMAIN catalog, ~Done(id)',
                          ~\E i \in DOMAIN queue' : queue'[i].id = id
                   PROVE  \E t \in Slots : Held(t)' /\ slot'[t].delivery.id = id
        OBVIOUS
      <3>1. id # x
        BY <1>9, <2>2
      <3>2. ~Done(id) /\ ~\E i \in DOMAIN queue : queue[i].id = id
        BY <1>5, <1>8, <2>2, <3>1
      <3> QED
        BY <1>1, <1>3, <3>1, <3>2 DEF Placed, Somewhere
    <2>9. Placed'
      BY <1>14, <1>15, <2>4, <2>5, <2>6, <2>7, <2>8
         DEF Placed, QueueLive, SlotsLive, QueuedOnce, OwnedOnce, Apart, Somewhere, Unrecorded
    <2>10. Types'
      BY <1>1, <1>2, <1>6, <2>2 DEF Types
    <2>11. Caused'
      <3>1. \A id \in DOMAIN catalog : Done(id)' => id # x /\ Done(id) /\ log'[id] = log[id]
        BY <1>5, <1>6, <1>8, <1>16
      <3>2. \A t \in Slots : slot'[t].pc \in {"settle", "bury"} => slot'[t] = slot[t]
        BY <1>2, IdleType
      <3>3. \A id \in DOMAIN catalog : Done(id)' => Warranted(id, log'[id][Len(log'[id])])
        BY <1>1, <3>1 DEF Caused
      <3> QED
        BY <1>1, <3>2, <3>3, CausesStay
    <2> QED
      BY <2>9, <2>10, <2>11 DEF IInv
  <1>17. CASE event \in Terminal /\ queue' = queue /\ Warranted(x, event)
    <2>1. \A t, u \in Slots :
              Held(t)' /\ Held(u)' /\ slot'[t].delivery.id = slot'[u].delivery.id => t = u
      BY <1>1, <1>3 DEF Placed, OwnedOnce
    <2>2. \A i \in DOMAIN queue', t \in Slots :
              Held(t)' => queue'[i].id # slot'[t].delivery.id
      BY <1>1, <1>3, <1>17 DEF Placed, Apart
    <2>3. \A id \in DOMAIN catalog :
              \/ Done(id)'
              \/ \E i \in DOMAIN queue' : queue'[i].id = id
              \/ \E t \in Slots : Held(t)' /\ slot'[t].delivery.id = id
      <3> SUFFICES ASSUME NEW id \in DOMAIN catalog, ~Done(id)',
                          ~\E i \in DOMAIN queue' : queue'[i].id = id
                   PROVE  \E t \in Slots : Held(t)' /\ slot'[t].delivery.id = id
        OBVIOUS
      <3>1. id # x /\ ~Done(id)
        BY <1>5, <1>8, <1>17
      <3> QED
        BY <1>1, <1>3, <1>17, <3>1 DEF Placed, Somewhere
    <2>4. Placed'
      <3>1. \A i \in DOMAIN queue' : Live(queue[i])'
        <4> SUFFICES ASSUME NEW i \in DOMAIN queue PROVE Live(queue[i])'
          BY <1>17
        <4>1. PICK y : y = queue[i]
          OBVIOUS
        <4>2. Live(y)'
          BY <1>1, <1>11, <1>13, <4>1 DEF Placed, QueueLive
        <4> QED
          BY <1>17, <4>1, <4>2
      <3>2. \A i, j \in DOMAIN queue' : queue'[i].id = queue'[j].id => i = j
        BY <1>1, <1>17 DEF Placed, QueuedOnce
      <3> QED
        BY <1>14, <1>15, <2>1, <2>2, <2>3, <3>1, <3>2
           DEF Placed, QueueLive, SlotsLive, QueuedOnce, OwnedOnce, Apart, Somewhere, Unrecorded
    <2>5. Types'
      BY <1>1, <1>2, <1>6, <1>17 DEF Types
    <2>6. Caused'
      <3>1. \A id \in DOMAIN catalog :
                id # x => (Done(id)' <=> Done(id)) /\ log'[id] = log[id]
        BY <1>5, <1>6, <1>8
      <3>2. \A t \in Slots : slot'[t].pc \in {"settle", "bury"} => slot'[t] = slot[t]
        BY <1>2, IdleType
      <3>3. \A id \in DOMAIN catalog : Done(id)' => Warranted(id, log'[id][Len(log'[id])])
        BY <1>1, <1>7, <1>17, <3>1 DEF Caused
      <3> QED
        BY <1>1, <3>2, <3>3, CausesStay
    <2> QED
      BY <2>4, <2>5, <2>6 DEF IInv
  <1> QED
    BY <1>16, <1>17

\* A free slot takes a delivery out of the queue.
LEMMA ReceiveStep ==
    ASSUME IInv, NEW s \in Slots, Receive(s)
    PROVE  IInv'
  <1>1. Types /\ Placed /\ Caused
    BY DEF IInv
  <1>2. PICK i \in DOMAIN queue :
            /\ queue' = RemoveAt(queue, i)
            /\ slot' = [slot EXCEPT ![s] = [Idle EXCEPT !.pc = "decode", !.delivery = queue[i]]]
    BY DEF Receive, Dequeue, Ready, Put
  <1>3. /\ Free(slot[s]) /\ UNCHANGED <<catalog, log, verdict, buried, admission>>
    BY DEF Receive, Dequeue, history, runVars
  <1>4. PICK d \in Delivery : d = queue[i]
    BY <1>1, <1>2 DEF Types
  <1>5. queue \in Seq(Delivery) /\ i \in 1..Len(queue) /\ Len(queue) \in Nat
    BY <1>1 DEF Types
  <1>6. /\ queue' \in Seq(Delivery)
        /\ DOMAIN queue' = 1..(Len(queue) - 1)
        /\ \A j \in 1..(Len(queue) - 1) : queue'[j] = IF j < i THEN queue[j] ELSE queue[j + 1]
    BY <1>2, <1>5, ElementRemoved
  <1>7. /\ \A j \in DOMAIN queue' : \E k \in DOMAIN queue : k # i /\ queue'[j] = queue[k]
        /\ \A k \in DOMAIN queue : k # i => \E j \in DOMAIN queue' : queue'[j] = queue[k]
        /\ \A j, l \in DOMAIN queue' : queue'[j].id = queue'[l].id => j = l
    <2> PICK n \in Nat : n = Len(queue) /\ DOMAIN queue = 1..n /\ i \in 1..n
      BY <1>5
    <2>1. /\ DOMAIN queue' = 1..(n - 1)
          /\ \A j \in 1..(n - 1) : queue'[j] = IF j < i THEN queue[j] ELSE queue[j + 1]
      BY <1>6
    <2>2. ASSUME NEW j \in DOMAIN queue'
          PROVE  \E k \in DOMAIN queue : k # i /\ queue'[j] = queue[k]
      <3>1. PICK k : k = IF j < i THEN j ELSE j + 1
        OBVIOUS
      <3>2. k \in 1..n /\ k # i /\ queue'[j] = queue[k]
        BY <2>1, <2>2, <3>1
      <3> QED
        BY <3>2
    <2>3. ASSUME NEW k \in DOMAIN queue, k # i
          PROVE  \E j \in DOMAIN queue' : queue'[j] = queue[k]
      <3>1. PICK j : j = IF k < i THEN k ELSE k - 1
        OBVIOUS
      <3>2. j \in 1..(n - 1) /\ (IF j < i THEN j ELSE j + 1) = k
        BY <2>3, <3>1
      <3> QED
        BY <2>1, <3>2
    <2>4. ASSUME NEW j \in DOMAIN queue', NEW l \in DOMAIN queue', queue'[j].id = queue'[l].id
          PROVE  j = l
      <3>1. PICK k1, k2 : k1 = (IF j < i THEN j ELSE j + 1) /\ k2 = (IF l < i THEN l ELSE l + 1)
        OBVIOUS
      <3>2. j \in 1..(n - 1) /\ l \in 1..(n - 1)
        BY <2>1
      <3>3. k1 \in 1..n /\ k2 \in 1..n /\ (k1 = k2 => j = l)
        BY <3>1, <3>2
      <3>4. queue[k1].id = queue[k2].id
        BY <2>1, <2>4, <3>1, <3>2
      <3> QED
        BY <1>1, <3>3, <3>4 DEF Placed, QueuedOnce
    <2> QED
      BY <2>2, <2>3, <2>4
  <1> DEFINE k == [Idle EXCEPT !.pc = "decode", !.delivery = d]
  <1>8. k \in SlotType /\ k.pc = "decode" /\ k.delivery = d
    BY IdleType DEF SlotType
  <1>9. slot' = [slot EXCEPT ![s] = k]
    BY <1>2, <1>4
  <1> HIDE DEF k
  <1>10. /\ slot' \in [Slots -> SlotType] /\ slot'[s] = k
         /\ \A t \in Slots : t # s => slot'[t] = slot[t]
    BY <1>1, <1>8, <1>9 DEF Types
  <1>11. /\ Held(s)' /\ slot'[s].delivery = d /\ ~Held(s)
         /\ \A t \in Slots : t # s => (Held(t)' <=> Held(t)) /\ slot'[t].delivery = slot[t].delivery
    BY <1>3, <1>8, <1>10 DEF Held, Free
  <1>12. \A y : Live(y)' <=> Live(y)
    BY <1>3 DEF Live, Done, Numbered
  <1>13. Live(d) /\ (\A t \in Slots : Held(t) => slot[t].delivery.id # d.id)
         /\ (\A j \in DOMAIN queue' : queue'[j].id # d.id /\ Live(queue'[j]))
    BY <1>1, <1>4, <1>7 DEF Placed, QueueLive, QueuedOnce, Apart
  <1>14. Placed'
    <2>1. \A j \in DOMAIN queue' : Live(queue[j])'
      BY <1>12, <1>13
    <2>2. \A t \in Slots : Held(t)' => Live(slot[t].delivery)'
      BY <1>1, <1>11, <1>12, <1>13 DEF Placed, SlotsLive
    <2>3. \A t, u \in Slots :
              Held(t)' /\ Held(u)' /\ slot'[t].delivery.id = slot'[u].delivery.id => t = u
      BY <1>1, <1>11, <1>13 DEF Placed, OwnedOnce
    <2>4. \A j \in DOMAIN queue', t \in Slots :
              Held(t)' => queue'[j].id # slot'[t].delivery.id
      BY <1>1, <1>7, <1>11, <1>13 DEF Placed, Apart
    <2>5. \A id \in DOMAIN catalog :
              \/ Done(id)
              \/ \E j \in DOMAIN queue' : queue'[j].id = id
              \/ \E t \in Slots : Held(t)' /\ slot'[t].delivery.id = id
      <3> SUFFICES ASSUME NEW id \in DOMAIN catalog, ~Done(id),
                          ~\E j \in DOMAIN queue' : queue'[j].id = id
                   PROVE  \E t \in Slots : Held(t)' /\ slot'[t].delivery.id = id
        OBVIOUS
      <3>1. CASE id = d.id
        BY <1>11, <3>1
      <3>2. CASE id # d.id
        <4>1. ~\E j \in DOMAIN queue : queue[j].id = id
          BY <1>4, <1>7, <3>2
        <4> QED
          BY <1>1, <1>11, <4>1 DEF Placed, Somewhere
      <3> QED
        BY <3>1, <3>2
    <2>6. \A id \in Ids \ DOMAIN catalog' : log'[id] = <<>>
      BY <1>1, <1>3 DEF Placed, Unrecorded
    <2> QED
      BY <1>3, <1>7, <2>1, <2>2, <2>3, <2>4, <2>5, <2>6
         DEF Placed, QueueLive, SlotsLive, QueuedOnce, OwnedOnce, Apart, Somewhere, Unrecorded, Done
  <1>15. Types'
    BY <1>1, <1>3, <1>6, <1>10 DEF Types
  <1>16. Caused'
    <2>1. \A t \in Slots : slot'[t].pc \in {"settle", "bury"} => slot'[t] = slot[t]
      BY <1>8, <1>10
    <2>2. \A id \in DOMAIN catalog : Done(id)' => Warranted(id, log'[id][Len(log'[id])])
      BY <1>1, <1>3 DEF Caused, Done
    <2> QED
      BY <1>1, <1>3, <2>1, <2>2, CausesStay
  <1> QED
    BY <1>14, <1>15, <1>16 DEF IInv

\* A message is enqueued: its identifier is new.
LEMMA EnqueueStep ==
    ASSUME IInv, NEW message \in Messages, NEW delayed \in BOOLEAN, Enqueue(message, delayed),
           UNCHANGED <<slot, verdict, buried, admission>>
    PROVE  IInv'
  <1>1. Types /\ Placed /\ Caused
    BY DEF IInv
  <1>2. catalog \in Seq(Messages) /\ queue \in Seq(Delivery)
    BY <1>1 DEF Types
  <1>3. PICK x \in Nat : x = Len(catalog) + 1
    BY <1>2
  <1>4. /\ catalog' \in Seq(Messages) /\ DOMAIN catalog' = DOMAIN catalog \cup {x}
        /\ x \notin DOMAIN catalog /\ Len(catalog') = x
        /\ \A id \in DOMAIN catalog : catalog'[id] = catalog[id]
    BY <1>2, <1>3 DEF Enqueue
  <1>5. x \in Ids /\ x <= MaxCatalog /\ DOMAIN catalog \subseteq Ids
    <2>1. Len(catalog) \in Nat /\ MaxCatalog \in Nat /\ Len(catalog) < MaxCatalog
      BY <1>2, LimitsAssumption DEF Enqueue, HasCapacity
    <2> QED
      BY <1>1, <1>3, <2>1, KnownIds DEF Ids
  <1>6. PICK d \in Delivery :
            /\ d = [id |-> x, attempt |-> 1, delayed |-> delayed]
            /\ d.id = x /\ d.attempt = 1
    <2>1. [id |-> x, attempt |-> 1, delayed |-> delayed] \in Delivery
      BY DEF Delivery
    <2> QED
      BY <2>1
  <1>7. queue' = Append(queue, d) /\ UNCHANGED log
    BY <1>4, <1>6 DEF Enqueue
  <1>8. /\ queue' \in Seq(Delivery) /\ DOMAIN queue' = DOMAIN queue \cup {Len(queue) + 1}
        /\ queue'[Len(queue) + 1] = d /\ Len(queue) + 1 \notin DOMAIN queue
        /\ \A i \in DOMAIN queue : queue'[i] = queue[i]
    BY <1>2, <1>7
  <1>9. log[x] = <<>> /\ Len(log[x]) = 0
    BY <1>1, <1>4, <1>5 DEF Placed, Unrecorded
  <1>10. \A id : Done(id)' <=> Done(id)
    BY <1>7 DEF Done
  <1>11. ~Done(x)
    BY <1>9 DEF Done
  <1>12. \A y : (Live(y) => Live(y)' /\ y.id # x) /\ (y = d => Live(y)')
    BY <1>4, <1>6, <1>7, <1>9, <1>10, <1>11 DEF Live, Numbered
  <1>13. \A t \in Slots : Held(t)' <=> Held(t)
    BY DEF Held
  <1>14. Types'
    BY <1>1, <1>4, <1>5, <1>7, <1>8 DEF Types
  <1>15. Placed'
    <2>1. \A i \in DOMAIN queue' : Live(queue[i])'
      <3> SUFFICES ASSUME NEW i \in DOMAIN queue' PROVE Live(queue[i])'
        OBVIOUS
      <3>1. PICK y : y = queue'[i]
        OBVIOUS
      <3>2. y = d \/ Live(y)
        BY <1>1, <1>8, <3>1 DEF Placed, QueueLive
      <3>3. Live(y)'
        BY <1>12, <3>2
      <3> QED
        BY <3>1, <3>3
    <2>2. \A t \in Slots : Held(t)' => Live(slot[t].delivery)'
      <3> SUFFICES ASSUME NEW t \in Slots, Held(t) PROVE Live(slot[t].delivery)'
        BY <1>13
      <3>1. PICK y : y = slot[t].delivery
        OBVIOUS
      <3>2. Live(y)'
        BY <1>1, <1>12, <3>1 DEF Placed, SlotsLive
      <3> QED
        BY <3>1, <3>2
    <2>3. \A i, j \in DOMAIN queue' : queue'[i].id = queue'[j].id => i = j
      BY <1>1, <1>6, <1>8, <1>12 DEF Placed, QueueLive, QueuedOnce
    <2>4. \A t, u \in Slots :
              Held(t)' /\ Held(u)' /\ slot'[t].delivery.id = slot'[u].delivery.id => t = u
      BY <1>1, <1>13 DEF Placed, OwnedOnce
    <2>5. \A j \in DOMAIN queue', t \in Slots :
              Held(t)' => queue'[j].id # slot'[t].delivery.id
      BY <1>1, <1>6, <1>8, <1>12, <1>13 DEF Placed, Apart, SlotsLive
    <2>6. \A id \in DOMAIN catalog' :
              \/ Done(id)'
              \/ \E j \in DOMAIN queue' : queue'[j].id = id
              \/ \E t \in Slots : Held(t)' /\ slot'[t].delivery.id = id
      <3> SUFFICES ASSUME NEW id \in DOMAIN catalog'
                   PROVE  \/ Done(id)'
                          \/ \E j \in DOMAIN queue' : queue'[j].id = id
                          \/ \E t \in Slots : Held(t)' /\ slot'[t].delivery.id = id
        OBVIOUS
      <3>1. CASE id = x
        BY <1>6, <1>8, <3>1
      <3>2. CASE id \in DOMAIN catalog
        <4>1. \/ Done(id)
              \/ \E j \in DOMAIN queue : queue[j].id = id
              \/ \E t \in Slots : Held(t) /\ slot[t].delivery.id = id
          BY <1>1, <3>2 DEF Placed, Somewhere
        <4> QED
          BY <1>8, <1>10, <1>13, <4>1
      <3> QED
        BY <1>4, <3>1, <3>2
    <2>7. \A id \in Ids \ DOMAIN catalog' : log'[id] = <<>>
      BY <1>1, <1>4, <1>7 DEF Placed, Unrecorded
    <2> QED
      BY <2>1, <2>2, <2>3, <2>4, <2>5, <2>6, <2>7
         DEF Placed, QueueLive, SlotsLive, QueuedOnce, OwnedOnce, Apart, Somewhere, Unrecorded
  <1>16. Caused'
    <2>1. \A id \in DOMAIN catalog : \A event : Warranted(id, event) => Warranted(id, event)'
      BY <1>4 DEF Warranted
    <2>2. \A t \in Slots : At(t, "settle") => slot[t].delivery.id \in DOMAIN catalog
      BY <1>1 DEF Placed, SlotsLive, Live, At, Held, Free
    <2>3. \A t \in Slots : At(t, "settle")' => Warranted(slot[t].delivery.id, slot[t].event)'
      <3> SUFFICES ASSUME NEW t \in Slots, At(t, "settle")
                   PROVE  Warranted(slot[t].delivery.id, slot[t].event)'
        BY DEF At
      <3>1. PICK y, event : y = slot[t].delivery.id /\ event = slot[t].event
        OBVIOUS
      <3>2. Warranted(y, event) /\ y \in DOMAIN catalog
        BY <1>1, <2>2, <3>1 DEF Caused
      <3>3. Warranted(y, event)'
        BY <2>1, <3>2
      <3> QED
        BY <3>1, <3>3
    <2>4. \A id \in DOMAIN catalog' : Done(id)' => Warranted(id, log[id][Len(log[id])])'
      <3> SUFFICES ASSUME NEW id \in DOMAIN catalog', Done(id)'
                   PROVE  Warranted(id, log[id][Len(log[id])])'
        OBVIOUS
      <3>1. PICK event : event = log[id][Len(log[id])]
        OBVIOUS
      <3>2. id \in DOMAIN catalog /\ Warranted(id, event)
        BY <1>1, <1>4, <1>10, <1>11, <3>1 DEF Caused
      <3>3. Warranted(id, event)'
        BY <2>1, <3>2
      <3> QED
        BY <1>7, <3>1, <3>3
    <2>5. \A t \in Slots : At(t, "bury")' => verdict'[slot'[t].delivery.id] = "DeadLetter"
      BY <1>1 DEF Caused, At
    <2> QED
      BY <2>3, <2>4, <2>5 DEF Caused
  <1> QED
    BY <1>14, <1>15, <1>16 DEF IInv

\* The clock advances: deliveries are no longer delayed.
LEMMA AdvanceStep ==
    ASSUME IInv, Advance, UNCHANGED <<slot, verdict, buried, admission>>
    PROVE  IInv'
  <1>1. Types /\ Placed /\ Caused
    BY DEF IInv
  <1>2. queue' = [i \in DOMAIN queue |-> [queue[i] EXCEPT !.delayed = FALSE]]
        /\ UNCHANGED <<catalog, log>>
    BY DEF Advance
  <1>3. queue \in Seq(Delivery) /\ Len(queue) \in Nat /\ DOMAIN queue = 1..Len(queue)
    BY <1>1 DEF Types
  <1>4. \A i \in DOMAIN queue : /\ [queue[i] EXCEPT !.delayed = FALSE] \in Delivery
                                /\ [queue[i] EXCEPT !.delayed = FALSE].id = queue[i].id
                                /\ [queue[i] EXCEPT !.delayed = FALSE].attempt = queue[i].attempt
    <2> SUFFICES ASSUME NEW i \in DOMAIN queue
                 PROVE  /\ [queue[i] EXCEPT !.delayed = FALSE] \in Delivery
                        /\ [queue[i] EXCEPT !.delayed = FALSE].id = queue[i].id
                        /\ [queue[i] EXCEPT !.delayed = FALSE].attempt = queue[i].attempt
      OBVIOUS
    <2>1. queue[i] \in Delivery
      BY <1>3
    <2> QED
      BY <2>1 DEF Delivery
  <1>5. /\ DOMAIN queue' = DOMAIN queue
        /\ \A i \in DOMAIN queue : /\ queue'[i] \in Delivery
                                   /\ queue'[i].id = queue[i].id
                                   /\ queue'[i].attempt = queue[i].attempt
    BY <1>2, <1>4
  <1>6. queue' \in Seq(Delivery)
    BY <1>2, <1>3, <1>4
  <1>7. Types'
    BY <1>1, <1>2, <1>6 DEF Types
  <1>8. Placed'
    <2>1. \A i \in DOMAIN queue' : Live(queue[i])'
      <3> SUFFICES ASSUME NEW i \in DOMAIN queue PROVE Live(queue[i])'
        BY <1>5
      <3>1. Live(queue[i])
        BY <1>1 DEF Placed, QueueLive
      <3> QED
        BY <1>2, <1>5, <3>1 DEF Live, Done, Numbered
    <2>2. \A t \in Slots : Held(t)' => Live(slot[t].delivery)'
      BY <1>1, <1>2 DEF Placed, SlotsLive, Held, Live, Done, Numbered
    <2>3. \A id : Done(id)' <=> Done(id)
      BY <1>2 DEF Done
    <2>4. \A t \in Slots : Held(t)' <=> Held(t)
      BY DEF Held
    <2> QED
      BY <1>1, <1>2, <1>5, <2>1, <2>2, <2>3, <2>4
         DEF Placed, QueueLive, SlotsLive, QueuedOnce, OwnedOnce, Apart, Somewhere, Unrecorded
  <1> QED
    BY <1>1, <1>2, <1>7, <1>8, BrokerFrames DEF IInv

----------------------------------------------------------------------------
(* The service.                                                             *)

\* The record of a slot has its type.
LEMMA SlotForms ==
    ASSUME Types, NEW s \in Slots
    PROVE  /\ slot[s] \in SlotType /\ slot[s].delivery \in Delivery /\ slot[s].failures \in Nat
  <1>1. slot[s] \in SlotType
    BY DEF Types
  <1> QED
    BY <1>1 DEF SlotType

\* A slot decides what becomes of its delivery.
LEMMA Decides ==
    ASSUME IInv, NEW s \in Slots, Held(s), NEW v,
           v \in Dispositions \cup {"None", "Rejected", "LeaseLost"},
           verdict' = [verdict EXCEPT ![slot[s].delivery.id] = v],
           \/ Go(s, "execute")
           \/ Go(s, "bury") /\ v = "DeadLetter"
           \/ \E event \in Event :
                  /\ Settling(s, event)
                  /\ event = "Acked" => v = "Completed"
                  /\ event = "Permanent" => v = "DoNotRetry"
                  /\ event = "ConsumerRejected" => catalog[slot[s].delivery.id] \in Malformed,
           UNCHANGED <<catalog, queue, log, admission, buried>>
    PROVE  IInv'
  <1>1. PICK x : x = slot[s].delivery.id
    OBVIOUS
  <1>2. Types /\ x \in Ids
    BY <1>1, KnownIds DEF IInv, Placed, SlotsLive, Live
  <1>3. /\ verdict' \in [Ids -> Dispositions \cup {"None", "Rejected", "LeaseLost"}]
        /\ verdict'[x] = v /\ \A id \in Ids : id # x => verdict'[id] = verdict[id]
    BY <1>1, <1>2 DEF Types
  <1>4. ASSUME NEW pc \in {"execute", "bury"}, Go(s, pc), pc = "bury" => v = "DeadLetter"
        PROVE  IInv'
    <2>0. PICK k : k = [slot[s] EXCEPT !.pc = pc]
      OBVIOUS
    <2>1. k \in SlotType /\ k.pc = pc /\ k.delivery = slot[s].delivery
      <3>1. slot[s] \in SlotType
        BY <1>2, SlotForms
      <3> QED
        BY <2>0, <3>1 DEF SlotType
    <2>2. slot' = [slot EXCEPT ![s] = k] /\ ~Free(k)
      BY <1>4, <2>0, <2>1 DEF Go, Put, Free
    <2>3. k.pc # "settle" /\ (k.pc = "bury" => verdict'[x] = "DeadLetter")
      BY <1>3, <1>4, <2>1
    <2>4. k \in SlotType /\ k.delivery = slot[s].delivery
      BY <2>1
    <2>5. /\ verdict' \in [Ids -> Dispositions \cup {"None", "Rejected", "LeaseLost"}]
          /\ \A id \in Ids : id # x => verdict'[id] = verdict[id]
      BY <1>3
    <2>6. CASE pc = "execute"
      BY <1>1, <2>1, <2>2, <2>4, <2>5, <2>6, SlotMoves
    <2>7. CASE pc = "bury"
      BY <1>1, <2>1, <2>2, <2>3, <2>4, <2>5, <2>7, SlotMoves
    <2> QED
      BY <2>6, <2>7
  <1>5. ASSUME NEW event \in Event, Settling(s, event),
               event = "Acked" => v = "Completed",
               event = "Permanent" => v = "DoNotRetry",
               event = "ConsumerRejected" => catalog[x] \in Malformed
        PROVE  IInv'
    <2>0. PICK k : k = [slot[s] EXCEPT !.pc = "settle", !.event = event]
      OBVIOUS
    <2>1. k \in SlotType /\ k.pc = "settle" /\ k.event = event /\ k.delivery = slot[s].delivery
      <3>1. slot[s] \in SlotType
        BY <1>2, SlotForms
      <3> QED
        BY <2>0, <3>1 DEF SlotType
    <2>2. slot' = [slot EXCEPT ![s] = k] /\ ~Free(k)
      BY <1>5, <2>0, <2>1 DEF Settling, Put, Free
    <2>3. Warranted(x, event)'
      BY <1>3, <1>5 DEF Warranted
    <2>4. Warranted(x, k.event)'
      BY <2>1, <2>3
    <2> QED
      BY <1>1, <1>3, <2>1, <2>2, <2>4, SlotMoves
  <1> QED
    BY <1>1, <1>4, <1>5

\* decode, the refusal of a job and the answer of the worker.
LEMMA DecodeStep ==
    ASSUME IInv, NEW s \in Slots, Decode(s)
    PROVE  IInv'
  <1>1. Held(s) /\ UNCHANGED <<catalog, queue, log, admission, buried>>
    BY DEF Decode, At, Held, Free, brokerVars, runVars
  <1>2. CASE catalog[slot[s].delivery.id] \in Malformed
    <2>1. /\ verdict' = [verdict EXCEPT ![slot[s].delivery.id] = "Rejected"]
          /\ Settling(s, "ConsumerRejected") /\ "ConsumerRejected" \in Event
      BY <1>2 DEF Decode, Event, NackReasons
    <2> QED
      BY <1>1, <1>2, <2>1, Decides
  <1>3. CASE catalog[slot[s].delivery.id] \notin Malformed
    <2>1. verdict' = [verdict EXCEPT ![slot[s].delivery.id] = "None"] /\ Go(s, "execute")
      BY <1>3 DEF Decode
    <2> QED
      BY <1>1, <2>1, Decides
  <1> QED
    BY <1>2, <1>3

LEMMA AnswerStep ==
    ASSUME IInv, NEW s \in Slots, Held(s),
           NEW result \in Results \cup {"Paused", "Draining", "ShutdownRequested"},
           Answer(s, result), UNCHANGED <<brokerVars, runVars, buried>>
    PROVE  IInv'
  <1>1. PICK a, v : a = slot[s].delivery.attempt /\ v = Disposition(result, a)
    OBVIOUS
  <1>2. v \in Dispositions
    BY <1>1, Disposed
  <1>3. /\ verdict' = [verdict EXCEPT ![slot[s].delivery.id] = v]
        /\ IF v = "DeadLetter" THEN Go(s, "bury") ELSE Settling(s, Settlement(v))
    BY <1>1 DEF Answer
  <1>4. v # "DeadLetter" =>
            /\ Settlement(v) \in Event
            /\ Settlement(v) = "Acked" => v = "Completed"
            /\ Settlement(v) = "Permanent" => v = "DoNotRetry"
            /\ Settlement(v) # "ConsumerRejected"
    BY <1>2 DEF Settlement, Dispositions, Event, NackReasons
  <1>5. UNCHANGED <<catalog, queue, log, admission, buried>>
    BY DEF brokerVars, runVars
  <1> QED
    BY <1>2, <1>3, <1>4, <1>5, Decides

LEMMA RefuseStep ==
    ASSUME IInv, NEW s \in Slots, RefuseJob(s)
    PROVE  IInv'
  <1>1. PICK result : result = IF shutdown THEN "ShutdownRequested" ELSE admission
    OBVIOUS
  <1>2. result \in Results \cup {"Paused", "Draining", "ShutdownRequested"}
    BY <1>1 DEF RefuseJob, IInv, Types
  <1>3. Held(s) /\ Answer(s, result) /\ UNCHANGED <<brokerVars, runVars, buried>>
    BY <1>1 DEF RefuseJob, At, Held, Free
  <1> QED
    BY <1>2, <1>3, AnswerStep

\* The handler is invoked or its lease renewed.
LEMMA HandlingStep ==
    ASSUME IInv, NEW s \in Slots,
           InvokeHandler(s) \/ HeartbeatRenews(s) \/ HeartbeatFails(s)
    PROVE  IInv'
  <1>1. PICK x : x = slot[s].delivery.id
    OBVIOUS
  <1>2. Types
    BY DEF IInv
  <1>3. Held(s) /\ slot[s].pc \in {"execute", "handling"}
        /\ UNCHANGED <<catalog, queue, log, admission, verdict, buried>>
    BY DEF InvokeHandler, HeartbeatRenews, HeartbeatFails, HeartbeatDelivery, At, Held, Free,
           brokerVars, runVars, history
  <1>4. PICK k \in SlotType : /\ slot' = [slot EXCEPT ![s] = k]
                              /\ k.pc \in {"execute", "handling"}
                              /\ k.delivery = slot[s].delivery
    <2>1. CASE InvokeHandler(s)
      <3>1. PICK k : k = [slot[s] EXCEPT !.pc = "handling"]
        OBVIOUS
      <3>2. slot[s] \in SlotType
        BY <1>2, SlotForms
      <3>3. k \in SlotType /\ k.pc = "handling" /\ k.delivery = slot[s].delivery
        BY <3>1, <3>2 DEF SlotType
      <3>4. slot' = [slot EXCEPT ![s] = k]
        BY <2>1, <3>1 DEF InvokeHandler, Go, Put
      <3> QED
        BY <3>3, <3>4
    <2>2. ASSUME NEW n \in Nat, Put(s, [slot[s] EXCEPT !.failures = n])
          PROVE  \E k \in SlotType : /\ slot' = [slot EXCEPT ![s] = k]
                                     /\ k.pc \in {"execute", "handling"}
                                     /\ k.delivery = slot[s].delivery
      <3>1. /\ [slot[s] EXCEPT !.failures = n] \in SlotType
            /\ [slot[s] EXCEPT !.failures = n].pc = slot[s].pc
            /\ [slot[s] EXCEPT !.failures = n].delivery = slot[s].delivery
        <4>1. slot[s] \in SlotType
          BY <1>2, SlotForms
        <4> QED
          BY <4>1 DEF SlotType
      <3> QED
        BY <1>3, <2>2, <3>1 DEF Put
    <2>3. CASE HeartbeatRenews(s)
      BY <2>2, <2>3 DEF HeartbeatRenews
    <2>4. CASE HeartbeatFails(s)
      <3>1. PICK n \in Nat : n = slot[s].failures + 1
        BY <1>2 DEF Types, SlotType
      <3>2. Put(s, [slot[s] EXCEPT !.failures = n])
        BY <2>4, <3>1 DEF HeartbeatFails
      <3> QED
        BY <2>2, <3>2
    <2> QED
      BY <2>1, <2>3, <2>4
  <1>5. /\ verdict' \in [Ids -> Dispositions \cup {"None", "Rejected", "LeaseLost"}]
        /\ \A id \in Ids : id # x => verdict'[id] = verdict[id]
    BY <1>2, <1>3 DEF Types
  <1> QED
    BY <1>1, <1>3, <1>4, <1>5, SlotMoves DEF Free

LEMMA LoseLeaseStep ==
    ASSUME IInv, NEW s \in Slots, LoseLease(s)
    PROVE  IInv'
  <1>1. Held(s) /\ UNCHANGED <<catalog, queue, log, admission, buried>>
    BY DEF LoseLease, HeartbeatDelivery, Held, Free, runVars
  <1>2. /\ verdict' = [verdict EXCEPT ![slot[s].delivery.id] = "LeaseLost"]
        /\ Settling(s, "Retryable") /\ "Retryable" \in Event
    BY DEF LoseLease, Event, NackReasons
  <1> QED
    BY <1>1, <1>2, Decides

\* A delivery that is dropped goes back to the queue.
LEMMA DropStep ==
    ASSUME IInv, NEW s \in Slots, Held(s), Drop(s), UNCHANGED <<verdict, buried, admission>>
    PROVE  IInv'
  <1>1. /\ slot' = [slot EXCEPT ![s] = Idle]
        /\ log' = [log EXCEPT ![slot[s].delivery.id] =
                      Append(log[slot[s].delivery.id], "Shutdown")]
        /\ queue' = Append(queue, Again(slot[s].delivery)) /\ UNCHANGED catalog
    BY DEF Drop, AbandonDelivery, Record, Requeue, Put, Again
  <1>2. "Shutdown" \in Event /\ "Shutdown" \notin Terminal
    BY DEF Event, NackReasons, Terminal
  <1> QED
    BY <1>1, <1>2, SlotReleases

LEMMA BuryStep ==
    ASSUME IInv, NEW s \in Slots, NEW outcome, Bury(s, outcome)
    PROVE  IInv'
  <1>1. Held(s) /\ UNCHANGED <<verdict, admission>>
    BY DEF Bury, At, Held, Free, runVars
  <1>2. CASE outcome # "Confirmed"
    BY <1>1, <1>2, DropStep DEF Bury
  <1>3. CASE outcome = "Confirmed"
    <2>1. PICK x : x = slot[s].delivery.id
      OBVIOUS
    <2>2. Types /\ verdict[x] = "DeadLetter"
      BY <2>1 DEF IInv, Caused, Bury
    <2>3. /\ buried' = buried \cup {x} /\ Settling(s, "Permanent")
          /\ UNCHANGED <<catalog, queue, log>>
      BY <1>3, <2>1 DEF Bury, brokerVars
    <2>4. PICK k : k = [slot[s] EXCEPT !.pc = "settle", !.event = "Permanent"]
      OBVIOUS
    <2>5. k \in SlotType /\ k.pc = "settle" /\ k.event = "Permanent"
          /\ k.delivery = slot[s].delivery
      <3>1. slot[s] \in SlotType /\ "Permanent" \in Event
        BY <2>2, SlotForms DEF Event, NackReasons
      <3> QED
        BY <2>4, <3>1 DEF SlotType
    <2>6. slot' = [slot EXCEPT ![s] = k] /\ ~Free(k)
      BY <2>3, <2>4, <2>5 DEF Settling, Put, Free
    <2>7. Warranted(x, k.event)'
      BY <1>1, <2>2, <2>3, <2>5 DEF Warranted
    <2>8. /\ verdict' \in [Ids -> Dispositions \cup {"None", "Rejected", "LeaseLost"}]
          /\ \A id \in Ids : id # x => verdict'[id] = verdict[id]
      BY <1>1, <2>2 DEF Types
    <2> QED
      BY <1>1, <2>1, <2>3, <2>5, <2>6, <2>7, <2>8, SlotMoves
  <1> QED
    BY <1>2, <1>3

LEMMA SettleStep ==
    ASSUME IInv, NEW s \in Slots, Settle(s)
    PROVE  IInv'
  <1>1. PICK event, x : event = slot[s].event /\ x = slot[s].delivery.id
    OBVIOUS
  <1>2. /\ Held(s) /\ UNCHANGED <<catalog, verdict, buried, admission>>
        /\ slot' = [slot EXCEPT ![s] = Idle]
    BY DEF Settle, CompleteDelivery, At, Held, Free, Put, runVars, history
  <1>3. event \in Event /\ Warranted(x, event)
    BY <1>1 DEF Settle, IInv, Types, SlotType, Caused
  <1>4. PICK operation : operation = IF event = "Acked" THEN "ack" ELSE "nack"
    OBVIOUS
  <1>5. /\ log' = [log EXCEPT ![x] = Append(log[x], IF Fails(operation) THEN "Failed" ELSE event)]
        /\ IF Fails(operation) \/ event \notin Terminal
           THEN queue' = Append(queue, Again(slot[s].delivery)) ELSE queue' = queue
    BY <1>1, <1>4 DEF Settle, CompleteDelivery, Record, Requeue, Again
  <1>6. "Failed" \in Event /\ "Failed" \notin Terminal
    BY DEF Event, Terminal
  <1>7. CASE Fails(operation)
    BY <1>1, <1>2, <1>5, <1>6, <1>7, SlotReleases
  <1>8. CASE ~Fails(operation)
    BY <1>1, <1>2, <1>3, <1>5, <1>8, SlotReleases
  <1> QED
    BY <1>7, <1>8

----------------------------------------------------------------------------
(* The invariant, and what it says.                                         *)

LEMMA BrokerInvInit == Init => IInv
  <1> SUFFICES ASSUME Init PROVE IInv
    OBVIOUS
  <1>1. /\ catalog = <<>> /\ queue = <<>> /\ log = [id \in Ids |-> <<>>]
        /\ slot = [s \in Slots |-> Idle] /\ admission = "Accepting"
        /\ verdict = [id \in Ids |-> "None"]
    BY DEF Init, BrokerInit
  <1>2. Types
    BY <1>1, IdleType, LimitsAssumption DEF Types
  <1>3. \A s \in Slots : slot[s] = Idle /\ ~Held(s)
    BY <1>1, IdleType DEF Held
  <1>4. Placed
    <2>1. DOMAIN queue = {} /\ DOMAIN catalog = {} /\ \A id \in Ids : log[id] = <<>>
      BY <1>1
    <2>2. QueueLive /\ QueuedOnce /\ Apart
      BY <2>1 DEF QueueLive, QueuedOnce, Apart
    <2>3. SlotsLive /\ OwnedOnce
      BY <1>3 DEF SlotsLive, OwnedOnce
    <2>4. Somewhere /\ Unrecorded
      BY <2>1 DEF Somewhere, Unrecorded
    <2> QED
      BY <2>2, <2>3, <2>4 DEF Placed
  <1>5. Caused
    BY <1>1, <1>3, IdleType DEF Caused, At
  <1> QED
    BY <1>2, <1>4, <1>5 DEF IInv

LEMMA BrokerInvNext == IInv /\ [Next]_vars => IInv'
  <1> SUFFICES ASSUME IInv, [Next]_vars PROVE IInv'
    OBVIOUS
  <1> USE DEF brokerVars, runVars, history
  <1>1. CASE UNCHANGED vars
    BY <1>1, BrokerFrames DEF IInv, vars
  <1>2. CASE BrokerStep
    <2>1. UNCHANGED <<slot, verdict, buried, admission>>
      BY <1>2 DEF BrokerStep
    <2>2. ASSUME NEW message \in Messages, NEW delayed \in BOOLEAN, Enqueue(message, delayed)
          PROVE  IInv'
      BY <2>1, <2>2, EnqueueStep
    <2>3. ASSUME NEW source \in Ids, InjectDuplicate(source)
          PROVE  IInv'
      <3>1. catalog[source] \in Messages
        BY <2>3 DEF InjectDuplicate, IInv, Types
      <3> QED
        BY <2>1, <2>3, <3>1, EnqueueStep DEF InjectDuplicate
    <2>4. CASE Advance
      BY <2>1, <2>4, AdvanceStep
    <2>5. CASE Disconnect \/ Reconnect \/ \E kind \in FaultKinds : PushFault(kind)
      BY <2>1, <2>5, BrokerFrames DEF IInv, Disconnect, Reconnect, PushFault
    <2> QED
      BY <1>2, <2>2, <2>3, <2>4, <2>5 DEF BrokerStep
  <1>3. ASSUME NEW s \in Slots, Receive(s) \/ ServiceStep(s) \/ HandlerStep(s) \/ HeartbeatStep(s)
        PROVE  IInv'
    <2>1. CASE HandlerPanics(s) \/ DropFuture(s)
      <3>1. Held(s) /\ Drop(s) /\ UNCHANGED <<verdict, buried, admission>>
        BY <2>1 DEF HandlerPanics, DropFuture, At, Held, Free
      <3> QED
        BY <3>1, DropStep
    <2>2. ASSUME NEW result \in Results, HandlerEnds(s, result)
          PROVE  IInv'
      <3>1. Held(s) /\ Answer(s, result) /\ UNCHANGED <<brokerVars, runVars, buried>>
        BY <2>2 DEF HandlerEnds, At, Held, Free
      <3> QED
        BY <3>1, AnswerStep
    <2>3. CASE ServiceStep(s)
      BY <2>1, <2>3, DecodeStep, RefuseStep, HandlingStep, SettleStep, BuryStep DEF ServiceStep
    <2>4. CASE HandlerStep(s)
      BY <2>1, <2>2, <2>4 DEF HandlerStep
    <2>5. CASE HeartbeatStep(s)
      BY <2>5, HandlingStep, LoseLeaseStep DEF HeartbeatStep
    <2> QED
      BY <1>3, <2>3, <2>4, <2>5, ReceiveStep
  <1>4. CASE StreamEnds \/ StreamFails \/ StopPolling \/ Finish \/ RequestShutdown \/ Terminate
    BY <1>4, BrokerFrames
       DEF IInv, StreamEnds, StreamFails, DequeueNothing, DequeueFails, StopPolling, Finish,
           RequestShutdown, Terminate
  <1>5. CASE PauseAdmission \/ ResumeAdmission \/ StartDrain \/ Restart
    <2>1. /\ UNCHANGED <<catalog, queue, log, slot, verdict, buried>>
          /\ admission' \in {"Accepting", "Paused", "Draining"}
      BY <1>5 DEF PauseAdmission, ResumeAdmission, StartDrain, Restart
    <2>2. Types'
      BY <2>1 DEF IInv, Types
    <2> QED
      BY <2>1, <2>2, BrokerFrames DEF IInv
  <1> QED
    BY <1>1, <1>2, <1>3, <1>4, <1>5 DEF Next, RunnerStep

LEMMA BrokerInvariant == Spec => []IInv
  BY BrokerInvInit, BrokerInvNext, PTL DEF Spec

\* For any number of slots, messages and faults: until a delivery is acknowledged or
\* rejected for good it is queued once or owned by one slot, and the attempt it carries
\* is one more than the settlements on record.
THEOREM BrokerNothingLost == Spec => []NothingLost
  <1>1. IInv => NothingLost
    <2> SUFFICES ASSUME IInv PROVE NothingLost
      OBVIOUS
    <2>1. ASSUME NEW id \in DOMAIN catalog
          PROVE  Cardinality(Places(id)) + Cardinality(Holders(id)) = IF Done(id) THEN 0 ELSE 1
      <3>2. CASE Done(id)
        <4>1. /\ \A i \in DOMAIN queue : queue[i].id # id
              /\ \A s \in Slots : Held(s) => slot[s].delivery.id # id
          BY <3>2 DEF IInv, Placed, QueueLive, SlotsLive, Live
        <4>2. Places(id) = {} /\ Holders(id) = {}
          BY <4>1 DEF Places, Holders, Held
        <4> QED
          BY <3>2, <4>2, FS_EmptySet
      <3>3. CASE ~Done(id) /\ \E i \in DOMAIN queue : queue[i].id = id
        <4>1. PICK i \in DOMAIN queue : queue[i].id = id
          BY <3>3
        <4>2. /\ \A j \in DOMAIN queue : queue[j].id = id <=> j = i
              /\ \A s \in Slots : Held(s) => slot[s].delivery.id # id
          BY <4>1 DEF IInv, Placed, QueuedOnce, Apart
        <4>3. Places(id) = {i} /\ Holders(id) = {}
          BY <4>1, <4>2 DEF Places, Holders, Held
        <4>4. Cardinality(Places(id)) = 1 /\ Cardinality(Holders(id)) = 0
          BY <4>3, FS_EmptySet, FS_Singleton
        <4> QED
          BY <3>3, <4>4
      <3>4. CASE ~Done(id) /\ ~\E i \in DOMAIN queue : queue[i].id = id
        <4>1. PICK s \in Slots : Held(s) /\ slot[s].delivery.id = id
          BY <3>4 DEF IInv, Placed, Somewhere
        <4>2. \A t \in Slots : Held(t) /\ slot[t].delivery.id = id <=> t = s
          BY <4>1 DEF IInv, Placed, OwnedOnce
        <4>3. Places(id) = {} /\ Holders(id) = {s}
          BY <3>4, <4>1, <4>2 DEF Places, Holders, Held
        <4>4. Cardinality(Places(id)) = 0 /\ Cardinality(Holders(id)) = 1
          BY <4>3, FS_EmptySet, FS_Singleton
        <4> QED
          BY <3>4, <4>4
      <3> QED
        BY <3>2, <3>3, <3>4
    <2>2. /\ \A i \in DOMAIN queue : Numbered(queue[i])
          /\ \A s \in Slots : Free(slot[s]) \/ Numbered(slot[s].delivery)
      BY DEF IInv, Placed, QueueLive, SlotsLive, Live, Held
    <2> QED
      BY <2>1, <2>2 DEF NothingLost
  <1> QED
    BY <1>1, BrokerInvariant, PTL

\* Whatever the order of lost leases, refused jobs, dropped futures and failed
\* settlements: an acknowledgement follows the success of the handler, a rejection a
\* malformed message, a termination the decision not to retry or a confirmed dead letter.
THEOREM BrokerEndedForCause == Spec => []EndedForCause
  <1>1. IInv => EndedForCause
    <2> SUFFICES ASSUME IInv, NEW id \in DOMAIN catalog, Done(id)
                 PROVE  \/ log[id][Len(log[id])] = "Acked" /\ verdict[id] = "Completed"
                        \/ log[id][Len(log[id])] = "ConsumerRejected" /\ catalog[id] \in Malformed
                        \/ /\ log[id][Len(log[id])] = "Permanent"
                           /\ \/ verdict[id] = "DoNotRetry"
                              \/ verdict[id] = "DeadLetter" /\ id \in buried
      BY DEF EndedForCause
    <2>1. Warranted(id, log[id][Len(log[id])]) /\ log[id][Len(log[id])] \in Terminal
      BY DEF IInv, Caused, Done
    <2> QED
      BY <2>1 DEF Warranted, Terminal
  <1> QED
    BY <1>1, BrokerInvariant, PTL
=============================================================================
